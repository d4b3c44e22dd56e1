----------------------------- MODULE VisionProofs ------------------------------
(***************************************************************************)
(* The vision side.                                                        *)
(*                                                                         *)
(* ZoneEvents implements ZonePresence, for every number of zones and       *)
(* tracks, every camera and every configuration.  A visit's state decides  *)
(* what a frame may say of it: nothing else of the tracker or of the zones *)
(* is needed but that a frame has a set of keys present.                   *)
(*                                                                         *)
(* And its frames are followed: the counters of a visit say what the last  *)
(* frames were, and the tracker's greedy loop, over any detections, leaves *)
(* no pair that overlaps enough without one that came sooner.              *)
(*                                                                         *)
(* Then the zone configuration, for any number of threads that save it,    *)
(* any contents and any number of edits from outside.                      *)
(*                                                                         *)
(* Then the records of the loop, for any classes, counts, settings of the  *)
(* debounce and number of lives.  What the engines remember of a class is  *)
(* what the last frames were, and what a file says of it adds up, with the *)
(* events that are not written yet, to what is stable.                     *)
(***************************************************************************)
EXTENDS VisionPipeline, FiniteSetTheorems, SequenceTheorems, FunctionTheorems, WellFoundedInduction, TLAPS

State == [phase : {"entering", "inside"}, presence : Nat, absence : Nat,
          since : Nat, dwelt : {"no", "yes"}]

\* A dwell is only ever told of a visit that was told to have begun.
VisitsBegin ==
  /\ states \in [DOMAIN states -> State]
  /\ \A k \in DOMAIN states : states[k].phase = "entering" => states[k].dwelt = "no"

\* One frame of which only the keys present and the time passed are known.
Snapshot(present, passed) ==
  /\ states' = AfterSnapshot(present, passed)
  /\ events' = EventsOf(present, passed)

LEMMA StateOfIsState ==
  ASSUME VisitsBegin, NEW k
  PROVE  /\ StateOf(k) \in State
         /\ StateOf(k).phase = "entering" => StateOf(k).dwelt = "no"
BY DEF VisitsBegin, StateOf, Arrived, State

LEMMA CountedIsState ==
  ASSUME NEW s \in State, s.phase = "entering" => s.dwelt = "no", NEW passed \in 0..1
  PROVE  /\ Counted(s, passed) \in State
         /\ Counted(s, passed).phase = "entering" => Counted(s, passed).dwelt = "no"
<1>1. Elapsed(s, passed) \in Nat
  BY ZoneAssumption DEF State, Elapsed, Lesser
<1>2. Lesser(s.presence + 1, EnterConfirm) \in Nat
  BY ZoneAssumption DEF State, Lesser
<1> QED
  BY <1>1, <1>2 DEF State, Counted, Confirms, Dwells

LEMMA LingeringIsState ==
  ASSUME NEW s \in State, NEW passed \in 0..1
  PROVE  [s EXCEPT !.absence = Lesser(@ + 1, ExitConfirm), !.since = Elapsed(s, passed)] \in State
<1>1. Elapsed(s, passed) \in Nat
  BY ZoneAssumption DEF State, Elapsed, Lesser
<1>2. Lesser(s.absence + 1, ExitConfirm) \in Nat
  BY ZoneAssumption DEF State, Lesser
<1> QED
  BY <1>1, <1>2 DEF State

LEMMA SnapshotKeepsVisits ==
  ASSUME VisitsBegin, NEW present, NEW passed \in 0..1, Snapshot(present, passed)
  PROVE  VisitsBegin'
<1> DEFINE stay == {a \in DOMAIN states \ present : Lingers(a)}
           next(k) == IF k \in present THEN Counted(StateOf(k), passed)
                      ELSE [states[k] EXCEPT !.absence = Lesser(@ + 1, ExitConfirm),
                                             !.since = Elapsed(states[k], passed)]
<1>1. states' = [k \in present \cup stay |-> next(k)]
  BY DEF Snapshot, AfterSnapshot
<1>2. ASSUME NEW k \in present \cup stay
      PROVE  next(k) \in State /\ (next(k).phase = "entering" => next(k).dwelt = "no")
  <2>1. CASE k \in present
    BY <2>1, StateOfIsState, CountedIsState
  <2>2. CASE k \notin present
    <3>1. states[k] \in State /\ states[k].phase = "inside"
      BY <1>2, <2>2 DEF VisitsBegin, Lingers
    <3>2. next(k) \in State
      BY <2>2, <3>1, LingeringIsState
    <3>3. next(k).phase = "inside"
      BY <2>2, <3>1 DEF State
    <3> QED
      BY <3>2, <3>3
  <2> QED
    BY <2>1, <2>2
<1> HIDE DEF next, stay
<1>3. DOMAIN states' = present \cup stay
  BY <1>1
<1> QED
  BY <1>1, <1>2, <1>3 DEF VisitsBegin

-----------------------------------------------------------------------------
(* What a frame says of one key.                                           *)

LEMMA EventsOfAKey ==
  ASSUME NEW present, NEW passed, NEW k
  PROVE  LET told == {e \in EventsOf(present, passed) : e[2] = k}
         IN  /\ told \subseteq {<<"ZONE_ENTER", k>>, <<"ZONE_DWELL", k>>, <<"ZONE_EXIT", k>>}
             /\ <<"ZONE_ENTER", k>> \in told <=> k \in present /\ Confirms(StateOf(k))
             /\ <<"ZONE_DWELL", k>> \in told <=> k \in present /\ Dwells(StateOf(k), passed)
             /\ <<"ZONE_EXIT", k>> \in told <=> k \in DOMAIN states \ present /\ Leaves(k)
<1> DEFINE entered == {p \in present : Confirms(StateOf(p))}
           dwelling == {p \in present : Dwells(StateOf(p), passed)}
           left == {a \in DOMAIN states \ present : Leaves(a)}
<1>1. EventsOf(present, passed) = {<<"ZONE_ENTER", p>> : p \in entered}
                                  \cup {<<"ZONE_DWELL", p>> : p \in dwelling}
                                  \cup {<<"ZONE_EXIT", p>> : p \in left}
  BY DEF EventsOf
<1>2. /\ k \in entered <=> k \in present /\ Confirms(StateOf(k))
      /\ k \in dwelling <=> k \in present /\ Dwells(StateOf(k), passed)
      /\ k \in left <=> k \in DOMAIN states \ present /\ Leaves(k)
  OBVIOUS
<1> HIDE DEF entered, dwelling, left
<1> QED
  BY <1>1, <1>2

LEMMA SnapshotObserves ==
  ASSUME VisitsBegin, NEW present, NEW passed \in 0..1, Snapshot(present, passed)
  PROVE  Promise!Observe
<1>1. Visit' \in [ZoneKeys -> {"out", "in", "dwelt"}]
  BY DEF Visit
<1>2. ASSUME NEW k \in ZoneKeys
      PROVE  \/ Promise!Silent(k)
             \/ Promise!Move(k, "out", "in", "ZONE_ENTER")
             \/ Promise!Move(k, "in", "dwelt", "ZONE_DWELL")
             \/ Promise!Move(k, "in", "out", "ZONE_EXIT")
             \/ Promise!Move(k, "dwelt", "out", "ZONE_EXIT")
  <2> DEFINE told == {e \in events' : e[2] = k}
             s == StateOf(k)
  <2>1. /\ told \subseteq {<<"ZONE_ENTER", k>>, <<"ZONE_DWELL", k>>, <<"ZONE_EXIT", k>>}
        /\ <<"ZONE_ENTER", k>> \in told <=> k \in present /\ Confirms(s)
        /\ <<"ZONE_DWELL", k>> \in told <=> k \in present /\ Dwells(s, passed)
        /\ <<"ZONE_EXIT", k>> \in told <=> k \in DOMAIN states \ present /\ Leaves(k)
    BY EventsOfAKey DEF Snapshot
  <2>2. /\ Visit[k] = IF ~Inside(k) THEN "out" ELSE IF states[k].dwelt = "yes" THEN "dwelt" ELSE "in"
        /\ Visit'[k] = IF ~Inside(k)' THEN "out" ELSE IF states'[k].dwelt = "yes" THEN "dwelt" ELSE "in"
    BY DEF Visit
  <2>3. s \in State /\ (s.phase = "entering" => s.dwelt = "no")
    BY StateOfIsState
  <2>4. Inside(k) <=> s.phase = "inside"
    BY DEF Inside, StateOf, Arrived
  <2>5. Inside(k) => s = states[k]
    BY DEF Inside, StateOf
  <2>6. CASE k \in present
    <3>1. k \in DOMAIN states' /\ states'[k] = Counted(s, passed)
      BY <2>6 DEF Snapshot, AfterSnapshot
    <3>2. Inside(k)' <=> Confirms(s) \/ s.phase = "inside"
      BY <2>3, <3>1 DEF Inside, Counted, State, Confirms
    <3>3. states'[k].dwelt = IF Dwells(s, passed) THEN "yes" ELSE s.dwelt
      BY <3>1 DEF Counted
    <3>4. CASE Confirms(s)
      <4>1. s.phase = "entering" /\ s.dwelt = "no" /\ ~Dwells(s, passed)
        BY <2>3, <3>4 DEF Confirms, Dwells
      <4>2. Visit[k] = "out" /\ Visit'[k] = "in"
        BY <2>2, <2>4, <3>2, <3>3, <3>4, <4>1
      <4>3. told = {<<"ZONE_ENTER", k>>}
        BY <2>1, <2>6, <3>4, <4>1
      <4> QED
        BY <4>2, <4>3 DEF Promise!Move
    <3>5. CASE Dwells(s, passed)
      <4>1. s.phase = "inside" /\ s.dwelt = "no" /\ ~Confirms(s)
        BY <3>5 DEF Confirms, Dwells
      <4>2. Visit[k] = "in" /\ Visit'[k] = "dwelt"
        BY <2>2, <2>4, <2>5, <3>2, <3>3, <3>5, <4>1
      <4>3. told = {<<"ZONE_DWELL", k>>}
        BY <2>1, <2>6, <3>5, <4>1
      <4> QED
        BY <4>2, <4>3 DEF Promise!Move
    <3>6. CASE ~Confirms(s) /\ ~Dwells(s, passed)
      <4>1. Visit'[k] = Visit[k]
        BY <2>2, <2>4, <2>5, <3>2, <3>3, <3>6
      <4>2. told = {}
        BY <2>1, <2>6, <3>6
      <4> QED
        BY <4>1, <4>2 DEF Promise!Silent
    <3> QED
      BY <3>4, <3>5, <3>6
  <2>7. CASE k \in DOMAIN states \ present
    <3>1. s = states[k] /\ (Lingers(k) <=> Inside(k) /\ ~Leaves(k)) /\ (Leaves(k) => Inside(k))
      BY <2>7 DEF StateOf, Lingers, Leaves, Inside
    <3>2. k \in DOMAIN states' <=> Lingers(k)
      BY <2>7 DEF Snapshot, AfterSnapshot
    <3>3. CASE Lingers(k)
      <4>1. states'[k] = [s EXCEPT !.absence = Lesser(@ + 1, ExitConfirm),
                                   !.since = Elapsed(s, passed)]
        BY <2>7, <3>1, <3>3 DEF Snapshot, AfterSnapshot
      <4>2. states'[k].phase = s.phase /\ states'[k].dwelt = s.dwelt
        BY <2>3, <4>1 DEF State
      <4>3. Visit'[k] = Visit[k]
        BY <2>2, <3>1, <3>2, <3>3, <4>2 DEF Inside
      <4>4. told = {}
        BY <2>1, <2>7, <3>1, <3>3
      <4> QED
        BY <4>3, <4>4 DEF Promise!Silent
    <3>4. CASE Leaves(k)
      <4>1. Visit[k] \in {"in", "dwelt"} /\ Visit'[k] = "out"
        BY <2>2, <3>1, <3>2, <3>4 DEF Inside
      <4>2. told = {<<"ZONE_EXIT", k>>}
        BY <2>1, <2>7, <3>4
      <4> QED
        BY <4>1, <4>2 DEF Promise!Move
    <3>5. CASE ~Inside(k)
      <4>1. Visit[k] = "out" /\ Visit'[k] = "out"
        BY <2>2, <3>1, <3>2, <3>5 DEF Inside
      <4>2. told = {}
        BY <2>1, <2>7, <3>1, <3>5
      <4> QED
        BY <4>1, <4>2 DEF Promise!Silent
    <3> QED
      BY <3>1, <3>3, <3>4, <3>5
  <2>8. CASE k \notin DOMAIN states /\ k \notin present
    <3>1. k \notin DOMAIN states'
      BY <2>8 DEF Snapshot, AfterSnapshot
    <3>2. Visit[k] = "out" /\ Visit'[k] = "out"
      BY <2>2, <2>8, <3>1 DEF Inside
    <3>3. told = {}
      BY <2>1, <2>8
    <3> QED
      BY <3>2, <3>3 DEF Promise!Silent
  <2> QED
    BY <2>6, <2>7, <2>8
<1> QED
  BY <1>1, <1>2 DEF Promise!Observe

-----------------------------------------------------------------------------
LEMMA InitKeeps == ZoneInit => VisitsBegin /\ Promise!PresenceInit
<1> SUFFICES ASSUME ZoneInit PROVE VisitsBegin /\ Promise!PresenceInit
  OBVIOUS
<1>1. DOMAIN states = {} /\ events = {}
  BY DEF ZoneInit
<1>2. VisitsBegin
  BY <1>1 DEF ZoneInit, VisitsBegin
<1>3. Visit = [k \in ZoneKeys |-> "out"]
  BY <1>1 DEF Visit, Inside
<1> QED
  BY <1>1, <1>2, <1>3 DEF Promise!PresenceInit

LEMMA StepKeeps ==
  ASSUME VisitsBegin, [ZoneNext]_zoneVars
  PROVE  VisitsBegin' /\ [Promise!Observe \/ Promise!Forget]_<<Visit, events>>
<1>1. CASE NextFrame
  <2>1. PICK dets \in Frames, passed \in 0..1, configured \in Configured :
          Frame(dets, passed, configured)
    BY <1>1 DEF NextFrame
  <2>2. PICK present : Snapshot(present, passed)
    BY <2>1 DEF Frame, Snapshot
  <2> QED
    BY <2>2, SnapshotKeepsVisits, SnapshotObserves
<1>2. CASE ProbeRestarts
  <2>1. DOMAIN states' = {} /\ events' = {}
    BY <1>2 DEF ProbeRestarts
  <2>2. VisitsBegin'
    BY <1>2, <2>1 DEF ProbeRestarts, VisitsBegin
  <2>3. Visit' = [k \in ZoneKeys |-> "out"]
    BY <2>1 DEF Visit, Inside
  <2> QED
    BY <2>1, <2>2, <2>3 DEF Promise!Forget
<1>3. CASE UNCHANGED zoneVars
  <2>1. UNCHANGED <<states, events>>
    BY <1>3 DEF zoneVars
  <2> QED
    BY <2>1 DEF VisitsBegin, Visit, Inside
<1> QED
  BY <1>1, <1>2, <1>3 DEF ZoneNext

\* What is written about a track and a zone is ENTER, at most one DWELL, EXIT,
\* in that order: every frame is an observation of ZonePresence, and a start
\* of the process forgets the visits.
THEOREM PresenceIsImplemented == ZoneSpec => ImplementsPresence
<1>1. Promise!PresenceSpec <=>
        Promise!PresenceInit /\ [][Promise!Observe \/ Promise!Forget]_<<Visit, events>>
  BY DEF Promise!PresenceSpec
<1> QED
  BY InitKeeps, StepKeeps, <1>1, PTL DEF ZoneSpec, ImplementsPresence

-----------------------------------------------------------------------------
(* The frames of the zones.  An order has a first element, and a loop that  *)
(* takes the first of what is left ends with everything taken or excluded. *)

\* The library states induction with an operator that the provers cannot
\* instantiate; well-foundedness of < on Nat gives it for a set.
Below == {ss \in Nat \X Nat : ss[1] < ss[2]}

LEMMA BelowIsWellFounded == IsWellFoundedOn(Below, Nat)
BY NatLessThanWellFounded DEF OpToRel, Below

\* What holds of 0 and of every successor holds of every number.
LEMMA SetInduction ==
  ASSUME NEW S, 0 \in S, \A n \in Nat : n \in S => n + 1 \in S
  PROVE  Nat \subseteq S
<1> DEFINE T == Nat \ S
<1>1. SUFFICES ASSUME T # {} PROVE FALSE
  OBVIOUS
<1>2. PICK m \in T : \A y \in T : <<y, m>> \notin Below
  BY <1>1, BelowIsWellFounded, WFMin
<1>3. \A y \in T : ~(y < m)
  BY <1>2 DEF Below
<1>4. m \in Nat /\ m # 0 /\ m - 1 \in Nat
  OBVIOUS
<1>5. m - 1 \in S
  BY <1>3, <1>4
<1> QED
  BY <1>4, <1>5

\* A strict order of the elements of a set, as a set of pairs.
Orders(before, set) ==
  /\ \A t \in set : <<t, t>> \notin before
  /\ \A t, u \in set : t # u => <<t, u>> \in before \/ <<u, t>> \in before
  /\ \A t, u, v \in set : <<t, u>> \in before /\ <<u, v>> \in before => <<t, v>> \in before

\* No two elements of an order have as many others before them.
LEMMA PlacesDiffer ==
  ASSUME NEW set, NEW before, IsFiniteSet(set), Orders(before, set)
  PROVE  /\ \A t \in set : Cardinality({u \in set : <<u, t>> \in before}) \in 0..(Cardinality(set) - 1)
         /\ \A t, u \in set : t # u => Cardinality({v \in set : <<v, t>> \in before})
                                       # Cardinality({v \in set : <<v, u>> \in before})
<1> DEFINE ahead(t) == {u \in set : <<u, t>> \in before}
           n == Cardinality(set)
<1>1. n \in Nat BY FS_CardinalityType
<1>2. ASSUME NEW t \in set PROVE IsFiniteSet(ahead(t)) /\ Cardinality(ahead(t)) \in 0..(n - 1)
  <2>1. IsFiniteSet(ahead(t)) /\ Cardinality(ahead(t)) <= n /\ (n = Cardinality(ahead(t)) => set = ahead(t))
    BY FS_Subset
  <2>2. t \notin ahead(t) BY DEF Orders
  <2>3. Cardinality(ahead(t)) \in Nat /\ Cardinality(ahead(t)) # n
    BY <2>1, <2>2, FS_CardinalityType
  <2> HIDE DEF ahead, n
  <2> QED BY <1>1, <2>1, <2>3
<1>3. ASSUME NEW t \in set, NEW u \in set, <<t, u>> \in before
      PROVE  Cardinality(ahead(t)) # Cardinality(ahead(u))
  <2>1. ahead(t) \subseteq ahead(u) BY <1>3 DEF Orders
  <2>2. t \in ahead(u) /\ t \notin ahead(t) BY <1>3 DEF Orders
  <2>3. ahead(t) # ahead(u) BY <2>2
  <2>4. IsFiniteSet(ahead(u)) BY <1>2
  <2> HIDE DEF ahead
  <2> QED BY <2>1, <2>3, <2>4, FS_Subset
<1>4. \A t, u \in set : t # u => Cardinality(ahead(t)) # Cardinality(ahead(u))
  <2>1. SUFFICES ASSUME NEW t \in set, NEW u \in set, t # u
                 PROVE  Cardinality(ahead(t)) # Cardinality(ahead(u))
    OBVIOUS
  <2>2. <<t, u>> \in before \/ <<u, t>> \in before BY <2>1 DEF Orders
  <2> HIDE DEF ahead
  <2> QED BY <1>3, <2>2
<1> QED BY <1>2, <1>4

\* A finite set that is not empty has one that comes before all the others.
LEMMA FirstExists ==
  ASSUME NEW C, NEW before, IsFiniteSet(C), Orders(before, C)
  PROVE  \A rest \in SUBSET C : rest # {} => \E c \in rest : \A d \in rest \ {c} : <<c, d>> \in before
<1> DEFINE HasFirst(rest) == \E c \in rest : \A d \in rest \ {c} : <<c, d>> \in before
           S == {n \in Nat : \A rest \in SUBSET C : Cardinality(rest) = n /\ rest # {} => HasFirst(rest)}
<1>1. \A rest \in SUBSET C : IsFiniteSet(rest) /\ Cardinality(rest) \in Nat
  BY FS_Subset, FS_CardinalityType
<1>2. 0 \in S
  BY <1>1, FS_EmptySet
<1>3. ASSUME NEW n \in Nat, n \in S PROVE n + 1 \in S
  <2> SUFFICES ASSUME NEW rest \in SUBSET C, Cardinality(rest) = n + 1, rest # {} PROVE HasFirst(rest)
    OBVIOUS
  <2>1. PICK x \in rest : TRUE
    OBVIOUS
  <2>2. PICK left : left = rest \ {x}
    OBVIOUS
  <2>3. left \in SUBSET C /\ x \notin left /\ rest = left \cup {x}
    BY <2>1, <2>2
  <2>4. Cardinality(left) = n
    <3>1. Cardinality(rest) = Cardinality(left) + 1 /\ Cardinality(left) \in Nat
      BY <1>1, <2>3, FS_AddElement
    <3> HIDE DEF S
    <3> QED
      BY <3>1
  <2>5. CASE left = {}
    BY <2>3, <2>5
  <2>6. CASE left # {}
    <3>1. PICK c \in left : \A d \in left \ {c} : <<c, d>> \in before
      BY <1>3, <2>3, <2>4, <2>6
    <3> HIDE DEF S
    <3>2. CASE <<c, x>> \in before
      <4>1. \A d \in rest \ {c} : <<c, d>> \in before
        BY <2>3, <3>1, <3>2
      <4> QED
        BY <2>3, <4>1
    <3>3. CASE <<x, c>> \in before
      <4>1. \A d \in rest \ {x} : <<x, d>> \in before
        BY <2>3, <3>1, <3>3 DEF Orders
      <4> QED
        BY <2>1, <4>1
    <3> QED
      BY <2>3, <3>1, <3>2, <3>3 DEF Orders
  <2> QED
    BY <2>5, <2>6
<1>4. Nat \subseteq S
  <2> HIDE DEF S
  <2> QED
    BY <1>2, <1>3, SetInduction
<1> QED
  BY <1>1, <1>4

\* A loop that takes the head of what is left until nothing is left.
Takes(C, head, left, f) ==
  f = [rest \in SUBSET C |-> IF rest = {} THEN {} ELSE {head[rest]} \cup f[left[rest]]]

LEMMA GreedyExists ==
  ASSUME NEW C, IsFiniteSet(C), NEW head, NEW left,
         \A rest \in SUBSET C : rest # {} => left[rest] \in SUBSET (rest \ {head[rest]}) /\ head[rest] \in rest
  PROVE  \E f : Takes(C, head, left, f)
<1> DEFINE Small(n) == {rest \in SUBSET C : Cardinality(rest) <= n}
           Body(f, rest) == IF rest = {} THEN {} ELSE {head[rest]} \cup f[left[rest]]
           Solves(f, n) == f = [rest \in Small(n) |-> Body(f, rest)]
           S == {n \in Nat : \E f : Solves(f, n)}
<1>1. \A rest \in SUBSET C : IsFiniteSet(rest) /\ Cardinality(rest) \in Nat
  BY FS_Subset, FS_CardinalityType
<1>2. 0 \in S
  <2>1. \A rest \in Small(0) : rest = {}
    <3>1. \A rest \in Small(0) : IsFiniteSet(rest) /\ Cardinality(rest) = 0
      BY <1>1
    <3> QED
      BY <3>1, FS_EmptySet
  <2>2. PICK f : f = [rest \in Small(0) |-> {}]
    OBVIOUS
  <2>3. Solves(f, 0)
    BY <2>1, <2>2
  <2> QED
    BY <2>3
<1>3. ASSUME NEW n \in Nat, n \in S PROVE n + 1 \in S
  <2>1. PICK f : Solves(f, n)
    BY <1>3
  <2>2. PICK g : g = [rest \in Small(n + 1) |-> Body(f, rest)]
    OBVIOUS
  <2>3. ASSUME NEW rest \in Small(n + 1), rest # {} PROVE left[rest] \in Small(n)
    <3>1. PICK k : k = left[rest]
      OBVIOUS
    <3>2. k \in SUBSET rest /\ k # rest /\ k \in SUBSET C
      BY <2>3, <3>1
    <3>3. Cardinality(k) <= Cardinality(rest) /\ Cardinality(k) # Cardinality(rest)
      BY <1>1, <3>2, FS_Subset
    <3>4. Cardinality(k) \in Nat /\ Cardinality(rest) \in Nat /\ Cardinality(rest) <= n + 1
      BY <1>1, <3>2
    <3>5. \A x, y, z \in Nat : x <= y /\ x # y /\ y <= z + 1 => x <= z
      OBVIOUS
    <3>6. Cardinality(k) <= n
      BY <3>3, <3>4, <3>5, ZenonT(30)
    <3> QED
      BY <3>1, <3>2, <3>6
  <2>4. Small(n) \subseteq Small(n + 1)
    <3>1. \A x, z \in Nat : x <= z => x <= z + 1
      OBVIOUS
    <3> QED
      BY <1>1, <3>1, ZenonT(30)
  <2> HIDE DEF Small
  <2>5. \A rest \in Small(n) : g[rest] = f[rest]
    BY <2>1, <2>2, <2>4
  <2>6. \A rest \in Small(n + 1) : Body(f, rest) = Body(g, rest)
    BY <2>3, <2>5
  <2>7. Solves(g, n + 1)
    <3> HIDE DEF Body
    <3> QED
      BY <2>2, <2>6
  <2> QED
    BY <2>7
<1>4. Nat \subseteq S
  <2> HIDE DEF S
  <2> QED
    BY <1>2, <1>3, SetInduction
<1>5. PICK n : n = Cardinality(C)
  OBVIOUS
<1>6. n \in S
  BY <1>1, <1>4, <1>5
<1>7. PICK f : Solves(f, n)
  BY <1>6
<1>8. Small(n) = SUBSET C
  BY <1>5, FS_Subset
<1> QED
  <2> HIDE DEF Small
  <2>1. f = [rest \in SUBSET C |-> Body(f, rest)]
    BY <1>7, <1>8
  <2> QED
    BY <2>1 DEF Takes
-----------------------------------------------------------------------------
(* The tracker.                                                            *)

TrackType == [id : Nat \ {0}, class : STRING, box : Int \X Int \X Int \X Int, hits : Nat, missed : Nat]

Known(known) ==
  /\ known \subseteq TrackType /\ IsFiniteSet(known)
  /\ \A t, u \in known : t.id = u.id => t = u

Fractions == Int \X (Nat \ {0})

LEMMA IoUIsAFraction ==
  ASSUME NEW l \in Int \X Int \X Int \X Int, NEW r \in Int \X Int \X Int \X Int PROVE IoU(l, r) \in Fractions
<1>1. \A a, b \in Int : Side(a, b) \in Int /\ Lesser(a, b) \in Int /\ Greater(a, b) \in Int
  BY DEF Side, Lesser, Greater
<1>2. \A a, b \in Int : a * b \in Int
  OBVIOUS
<1>3. Area(l) \in Int /\ Area(r) \in Int
  BY <1>1, <1>2 DEF Area
<1>4. Overlap(l, r) \in Int
  <2>1. PICK a : a = Side(Greater(l[1], r[1]), Lesser(l[3], r[3]))
    OBVIOUS
  <2>2. PICK b : b = Side(Greater(l[2], r[2]), Lesser(l[4], r[4]))
    OBVIOUS
  <2>3. a \in Int /\ b \in Int
    BY <1>1, <2>1, <2>2
  <2> QED
    BY <1>2, <2>1, <2>2, <2>3 DEF Overlap
<1> QED
  BY <1>3, <1>4 DEF IoU, Fractions

LEMMA Products ==
  /\ \A x, y \in Int, n \in Nat \ {0} : x >= y <=> x * n >= y * n
  /\ \A x, y, z \in Int : x * y * z = x * z * y
  /\ \A x, y \in Int : x * y \in Int
<1>1. \A x, y \in Int, n \in Nat \ {0} : x >= y => x * n >= y * n
  OBVIOUS
<1>2. \A x, y \in Int, n \in Nat \ {0} : x * n >= y * n => x >= y
  OBVIOUS
<1>3. \A x, y, z \in Int : x * y * z = x * z * y
  OBVIOUS
<1> QED
  BY <1>1, <1>2, <1>3

AtLeast(f, g) == f[1] * g[2] >= g[1] * f[2]

LEMMA FractionsAreOrdered ==
  /\ \A f, g \in Fractions : Exceeds(f, g) <=> ~AtLeast(g, f)
  /\ \A f, g \in Fractions : AtLeast(f, g) \/ AtLeast(g, f)
  /\ \A f, g, h \in Fractions : AtLeast(f, g) /\ AtLeast(g, h) => AtLeast(f, h)
<1>1. \A f, g \in Fractions : f[1] * g[2] \in Int /\ g[1] * f[2] \in Int
  BY Products DEF Fractions
<1>2. ASSUME NEW f \in Fractions, NEW g \in Fractions, NEW h \in Fractions, AtLeast(f, g), AtLeast(g, h)
      PROVE  AtLeast(f, h)
  <2> DEFINE a == f[1]  b == f[2]  c == g[1]  d == g[2]  e == h[1]  k == h[2]
  <2>1. a \in Int /\ c \in Int /\ e \in Int /\ b \in Nat \ {0} /\ d \in Nat \ {0} /\ k \in Nat \ {0}
    BY DEF Fractions
  <2>2. a * d >= c * b /\ c * k >= e * d
    BY <1>2 DEF AtLeast
  <2> HIDE DEF a, b, c, d, e, k
  <2>3. /\ a * d \in Int /\ c * b \in Int /\ c * k \in Int /\ e * d \in Int
        /\ a * k \in Int /\ e * b \in Int
    BY <2>1, Products
  <2>4. a * d * k >= c * b * k /\ c * k * b >= e * d * b
    BY <2>1, <2>2, <2>3, Products
  <2>5. a * d * k = a * k * d /\ c * b * k = c * k * b /\ e * d * b = e * b * d
    BY <2>1, Products
  <2>6. a * k * d \in Int /\ c * k * b \in Int /\ e * b * d \in Int
    BY <2>1, <2>3, Products
  <2>7. \A x, y, z \in Int : x >= y /\ y >= z => x >= z
    OBVIOUS
  <2>8. a * k * d >= e * b * d
    BY <2>4, <2>5, <2>6, <2>7, ZenonT(30)
  <2>9. a * k >= e * b
    BY <2>1, <2>3, <2>8, Products, ZenonT(30)
  <2> QED
    BY <2>9 DEF AtLeast, a, b, e, k
<1>3. \A x, y \in Int : (x > y <=> ~(y >= x)) /\ (x >= y \/ y >= x)
  OBVIOUS
<1>4. \A f, g \in Fractions : Exceeds(f, g) <=> ~AtLeast(g, f)
  BY <1>1, <1>3, ZenonT(30) DEF Exceeds, AtLeast
<1>5. \A f, g \in Fractions : AtLeast(f, g) \/ AtLeast(g, f)
  BY <1>1, <1>3, ZenonT(30) DEF AtLeast
<1> QED
  BY <1>2, <1>4, <1>5

\* Of a pair: how well the boxes overlap.
OverlapOf(dets, c) == IoU(c[1].box, dets[c[2]].box)

CandidatesOrder(dets, C) == {p \in C \X C : Sooner(dets, p[1], p[2])}

LEMMA CandidatesAre ==
  ASSUME NEW known, Known(known), NEW dets \in Seq(Detections)
  PROVE  /\ IsFiniteSet(Candidates(known, dets))
         /\ \A c \in Candidates(known, dets) :
              /\ c \in known \X (1..Len(dets)) /\ OverlapOf(dets, c) \in Fractions
              /\ c[1] \in TrackType /\ dets[c[2]] \in Detections
<1>1. IsFiniteSet(known \X (1..Len(dets)))
  <2>1. Len(dets) \in Nat
    OBVIOUS
  <2>2. IsFiniteSet(1..Len(dets)) /\ IsFiniteSet(known)
    BY <2>1, FS_Interval DEF Known
  <2> QED
    BY <2>2, FS_Product
<1>2. Candidates(known, dets) \in SUBSET (known \X (1..Len(dets)))
  BY DEF Candidates
<1>3. ASSUME NEW c \in Candidates(known, dets)
      PROVE  c[1] \in TrackType /\ dets[c[2]] \in Detections /\ OverlapOf(dets, c) \in Fractions
  <2>1. c[1] \in TrackType /\ dets[c[2]] \in Detections
    BY <1>2 DEF Known
  <2>2. c[1].box \in Int \X Int \X Int \X Int /\ dets[c[2]].box \in Int \X Int \X Int \X Int
    BY <2>1 DEF TrackType, Detections
  <2> QED
    BY <2>1, <2>2, IoUIsAFraction DEF OverlapOf
<1> QED
  BY <1>1, <1>2, <1>3, FS_Subset

LEMMA SoonerIsAnOrder ==
  ASSUME NEW known, Known(known), NEW dets \in Seq(Detections)
  PROVE  Orders(CandidatesOrder(dets, Candidates(known, dets)), Candidates(known, dets))
<1> DEFINE C == Candidates(known, dets)
           o(c) == OverlapOf(dets, c)
           Tie(c, d) == c[1].id < d[1].id \/ (c[1] = d[1] /\ c[2] < d[2])
<1>1. \A c \in C : o(c) \in Fractions /\ c[1] \in known /\ c[1].id \in Nat /\ c[2] \in Nat /\ c = <<c[1], c[2]>>
  BY CandidatesAre DEF TrackType
<1>2. \A c, d \in C : Sooner(dets, c, d) <=> Exceeds(o(c), o(d)) \/ (~Exceeds(o(d), o(c)) /\ Tie(c, d))
  BY DEF Sooner, OverlapOf
<1>3. \A c, d \in C : Sooner(dets, c, d) <=> ~AtLeast(o(d), o(c)) \/ (AtLeast(o(c), o(d)) /\ Tie(c, d))
  BY <1>1, <1>2, FractionsAreOrdered
<1>4. /\ \A c \in C : ~Tie(c, c)
      /\ \A c, d \in C : c # d => Tie(c, d) \/ Tie(d, c)
      /\ \A c, d, e \in C : Tie(c, d) /\ Tie(d, e) => Tie(c, e)
  <2>1. ASSUME NEW c \in C, NEW d \in C, c # d PROVE Tie(c, d) \/ Tie(d, c)
    <3>1. CASE c[1].id = d[1].id
      <4>1. c[1] = d[1]
        BY <1>1, <3>1 DEF Known
      <4>2. c[2] # d[2]
        BY <1>1, <2>1, <4>1
      <4> QED
        BY <1>1, <4>1, <4>2
    <3>2. CASE c[1].id # d[1].id
      BY <1>1, <3>2
    <3> QED
      BY <3>1, <3>2
  <2>2. \A c, d, e \in C : Tie(c, d) /\ Tie(d, e) => Tie(c, e)
    BY <1>1
  <2>3. \A c \in C : ~Tie(c, c)
    BY <1>1
  <2> QED
    BY <2>1, <2>2, <2>3
<1> HIDE DEF C, o, Tie
<1>5. \A c, d, e \in C : AtLeast(o(c), o(d)) /\ AtLeast(o(d), o(e)) => AtLeast(o(c), o(e))
  BY <1>1, FractionsAreOrdered
<1>6. \A c, d \in C : AtLeast(o(c), o(d)) \/ AtLeast(o(d), o(c))
  BY <1>1, FractionsAreOrdered
<1>7. \A c \in C : ~Sooner(dets, c, c)
  BY <1>3, <1>4, <1>6
<1>8. \A c, d \in C : c # d => Sooner(dets, c, d) \/ Sooner(dets, d, c)
  BY <1>3, <1>4, <1>6
<1>9. ASSUME NEW c \in C, NEW d \in C, NEW e \in C, Sooner(dets, c, d), Sooner(dets, d, e)
      PROVE  Sooner(dets, c, e)
  BY <1>3, <1>4, <1>5, <1>6, <1>9, ZenonT(30)
<1> QED
  BY <1>7, <1>8, <1>9 DEF Orders, CandidatesOrder, C

\* The pair that is matched first, of those that are left.
Foremost(dets, rest) == CHOOSE c \in rest : \A d \in rest \ {c} : Sooner(dets, c, d)

LEMMA ForemostIs ==
  ASSUME NEW known, Known(known), NEW dets \in Seq(Detections),
         NEW rest \in SUBSET Candidates(known, dets), rest # {}
  PROVE  LET c == Foremost(dets, rest) IN c \in rest /\ \A d \in rest \ {c} : Sooner(dets, c, d)
<1> DEFINE C == Candidates(known, dets)
<1>1. PICK before : before = CandidatesOrder(dets, C)
  OBVIOUS
<1>2. Orders(before, C) /\ IsFiniteSet(C)
  BY <1>1, SoonerIsAnOrder, CandidatesAre
<1>3. \E c \in rest : \A d \in rest \ {c} : <<c, d>> \in before
  BY <1>2, FirstExists
<1>4. \E c \in rest : \A d \in rest \ {c} : Sooner(dets, c, d)
  BY <1>1, <1>3 DEF CandidatesOrder
<1> QED
  BY <1>4 DEF Foremost

Loop(known, dets, f) ==
  f = [rest \in SUBSET Candidates(known, dets) |->
         IF rest = {} THEN {}
         ELSE {Foremost(dets, rest)} \cup f[Left(rest, Foremost(dets, rest))]]

LEMMA MatchingLoops ==
  ASSUME NEW known, Known(known), NEW dets \in Seq(Detections)
  PROVE  \E f : Loop(known, dets, f) /\ Matching(known, dets) = f[Candidates(known, dets)]
<1>1. PICK C : C = Candidates(known, dets)
  OBVIOUS
<1>2. \E f : Loop(known, dets, f)
  <2>1. PICK head : head = [rest \in SUBSET C |-> Foremost(dets, rest)]
    OBVIOUS
  <2>2. PICK left : left = [rest \in SUBSET C |-> Left(rest, head[rest])]
    OBVIOUS
  <2>3. IsFiniteSet(C)
    BY <1>1, CandidatesAre
  <2>4. ASSUME NEW rest \in SUBSET C, rest # {}
        PROVE  head[rest] \in rest /\ left[rest] \in SUBSET (rest \ {head[rest]})
    BY <1>1, <2>1, <2>2, <2>4, ForemostIs DEF Left, Disjoint
  <2>5. PICK f : Takes(C, head, left, f)
    <3>1. \A rest \in SUBSET C : rest # {} => left[rest] \in SUBSET (rest \ {head[rest]}) /\ head[rest] \in rest
      BY <2>4
    <3> QED
      BY <2>3, <3>1, GreedyExists
  <2>6. \A rest \in SUBSET C : head[rest] = Foremost(dets, rest) /\ left[rest] = Left(rest, Foremost(dets, rest))
    BY <2>1, <2>2
  <2>7. f = [rest \in SUBSET C |->
               IF rest = {} THEN {} ELSE {Foremost(dets, rest)} \cup f[Left(rest, Foremost(dets, rest))]]
    BY <2>5, <2>6 DEF Takes
  <2> QED
    BY <1>1, <2>7 DEF Loop
<1>3. Loop(known, dets, CHOOSE f : Loop(known, dets, f))
  BY <1>2
<1>4. Matching(known, dets) = (CHOOSE f : Loop(known, dets, f))[Candidates(known, dets)]
  BY Zenon DEF Matching, Loop, Foremost
<1> QED
  BY <1>3, <1>4

\* What the loop matches of any set of pairs.
Greedy(dets, rest, m) ==
  /\ m \subseteq rest
  /\ \A c, d \in m : c = d \/ Disjoint(c, d)
  /\ \A c \in rest \ m : \E d \in m : ~Disjoint(c, d) /\ Sooner(dets, d, c)

LEMMA MatchingIsGreedy ==
  ASSUME NEW known, Known(known), NEW dets \in Seq(Detections)
  PROVE  Greedy(dets, Candidates(known, dets), Matching(known, dets))
<1>1. PICK C : C = Candidates(known, dets)
  OBVIOUS
<1>2. PICK f : Loop(known, dets, f) /\ Matching(known, dets) = f[C]
  BY <1>1, MatchingLoops
<1> DEFINE S == {n \in Nat : \A rest \in SUBSET C : Cardinality(rest) <= n => Greedy(dets, rest, f[rest])}
<1>3. IsFiniteSet(C) /\ \A rest \in SUBSET C : IsFiniteSet(rest) /\ Cardinality(rest) \in Nat
  BY <1>1, CandidatesAre, FS_Subset, FS_CardinalityType
<1>4. Greedy(dets, {}, f[{}])
  BY <1>1, <1>2 DEF Loop, Greedy
<1>5. 0 \in S
  <2>1. ASSUME NEW rest \in SUBSET C, Cardinality(rest) <= 0 PROVE rest = {}
    BY <1>3, <2>1, FS_EmptySet
  <2> QED
    BY <1>4, <2>1
<1>6. ASSUME NEW n \in Nat, n \in S PROVE n + 1 \in S
  <2> SUFFICES ASSUME NEW rest \in SUBSET C, Cardinality(rest) <= n + 1 PROVE Greedy(dets, rest, f[rest])
    OBVIOUS
  <2>0. SUFFICES ASSUME rest # {} PROVE Greedy(dets, rest, f[rest])
    BY <1>4
  <2>1. PICK h : h = Foremost(dets, rest)
    OBVIOUS
  <2>2. h \in rest /\ \A d \in rest \ {h} : Sooner(dets, h, d)
    BY <1>1, <2>0, <2>1, ForemostIs
  <2>3. PICK left : left = Left(rest, h)
    OBVIOUS
  <2>4. f[rest] = {h} \cup f[left]
    BY <1>1, <1>2, <2>0, <2>1, <2>3 DEF Loop
  <2>5. left \in SUBSET rest /\ h \notin left /\ left \in SUBSET C
    BY <2>3 DEF Left, Disjoint
  <2>6. Cardinality(left) <= n
    <3>1. left # rest
      BY <2>2, <2>5
    <3>2. Cardinality(left) <= Cardinality(rest) /\ Cardinality(left) # Cardinality(rest)
      BY <1>3, <2>5, <3>1, FS_Subset
    <3>3. Cardinality(left) \in Nat /\ Cardinality(rest) \in Nat
      BY <1>3, <2>5
    <3>4. \A x, y, z \in Nat : x <= y /\ x # y /\ y <= z + 1 => x <= z
      OBVIOUS
    <3> HIDE DEF S
    <3> QED
      BY <3>2, <3>3, <3>4, ZenonT(30)
  <2>7. Greedy(dets, left, f[left])
    BY <1>6, <2>5, <2>6
  <2> HIDE DEF S
  <2>8. PICK m : m = f[left]
    OBVIOUS
  <2>9. Greedy(dets, rest, {h} \cup m)
    <3>1. {h} \cup m \subseteq rest
      BY <2>2, <2>5, <2>7, <2>8 DEF Greedy
    <3>2. \A c \in m : Disjoint(h, c) /\ Disjoint(c, h)
      BY <2>3, <2>7, <2>8 DEF Greedy, Left, Disjoint
    <3>3. \A c, d \in {h} \cup m : c = d \/ Disjoint(c, d)
      BY <2>7, <2>8, <3>2 DEF Greedy
    <3>4. ASSUME NEW c \in rest \ ({h} \cup m)
          PROVE  \E d \in {h} \cup m : ~Disjoint(c, d) /\ Sooner(dets, d, c)
      <4>1. CASE c \in left
        BY <2>7, <2>8, <3>4, <4>1 DEF Greedy
      <4>2. CASE c \notin left
        <5>1. ~Disjoint(h, c)
          BY <2>3, <3>4, <4>2 DEF Left
        <5>2. ~Disjoint(c, h)
          BY <5>1 DEF Disjoint
        <5>3. Sooner(dets, h, c)
          BY <2>2, <3>4
        <5> QED
          BY <5>2, <5>3
      <4> QED
        BY <4>1, <4>2
    <3> QED
      BY <3>1, <3>3, <3>4 DEF Greedy
  <2> QED
    BY <2>4, <2>8, <2>9
<1>7. Nat \subseteq S
  <2> HIDE DEF S
  <2> QED
    BY <1>5, <1>6, SetInduction
<1>8. PICK n : n = Cardinality(C)
  OBVIOUS
<1>9. n \in S /\ C \in SUBSET C /\ Cardinality(C) <= n
  BY <1>3, <1>7, <1>8
<1> QED
  BY <1>1, <1>2, <1>9

\* Tracks have numbers of their own, all of them given out already.
Numbered(known, next) == Known(known) /\ next \in Nat \ {0} /\ \A t \in known : t.id < next

\* The detections no pair holds, in the order of their indices.
Extra(pairs, dets) == (DOMAIN dets) \ {c[2] : c \in pairs}

IndexOrder == {p \in Nat \X Nat : p[1] < p[2]}

LEMMA ExtraAreCounted ==
  ASSUME NEW dets, dets \in Seq(Detections), NEW pairs, IsFiniteSet(pairs), \A c \in pairs : c[2] \in DOMAIN dets,
         \A c, d \in pairs : c = d \/ Disjoint(c, d)
  PROVE  /\ IsFiniteSet(Extra(pairs, dets)) /\ Cardinality(Extra(pairs, dets)) = Len(dets) - Cardinality(pairs)
         /\ Cardinality(Extra(pairs, dets)) \in Nat /\ Extra(pairs, dets) \subseteq Nat
<1>1. PICK held : held = {c[2] : c \in pairs}
  OBVIOUS
<1>2. PICK D : D = 1..Len(dets)
  OBVIOUS
<1>3. DOMAIN dets = D /\ IsFiniteSet(D) /\ Cardinality(D) = Len(dets) /\ D \subseteq Nat /\ Len(dets) \in Nat
  <2>1. Len(dets) \in Nat
    OBVIOUS
  <2>2. IsFiniteSet(1..Len(dets)) /\ Cardinality(1..Len(dets)) = Len(dets)
    BY <2>1, FS_Interval
  <2> QED
    BY <1>2, <2>1, <2>2
<1>4. PICK f : f = [c \in pairs |-> c[2]]
  OBVIOUS
<1>5. f \in Surjection(pairs, held) /\ f \in Injection(pairs, held)
  BY <1>1, <1>4 DEF Disjoint, Surjection, Injection, IsInjective
<1>6. IsFiniteSet(held) /\ Cardinality(held) = Cardinality(pairs)
  BY <1>5, FS_Surjection
<1>7. held \subseteq D
  BY <1>1, <1>3
<1>8. /\ IsFiniteSet(D \ held) /\ Cardinality(D \ held) = Cardinality(D) - Cardinality(D \cap held)
      /\ D \cap held = held
  BY <1>3, <1>7, FS_Difference
<1>9. Extra(pairs, dets) = D \ held /\ Cardinality(D \ held) \in Nat
  BY <1>1, <1>3, <1>8, FS_CardinalityType DEF Extra
<1> QED
  BY <1>3, <1>6, <1>8, <1>9

\* The number a new track is given.
NewId(next, extra, d) == next + Cardinality({e \in extra : e < d})

LEMMA NewIdsAreNew ==
  ASSUME NEW next \in Nat, NEW extra \in SUBSET Nat, IsFiniteSet(extra)
  PROVE  /\ \A d \in extra : NewId(next, extra, d) \in next..next + Cardinality(extra) - 1
         /\ \A d, e \in extra : NewId(next, extra, d) = NewId(next, extra, e) => d = e
<1>1. Orders(IndexOrder, extra)
  BY DEF Orders, IndexOrder
<1>2. \A d \in extra : {e \in extra : e < d} = {e \in extra : <<e, d>> \in IndexOrder}
  BY DEF IndexOrder
<1> DEFINE place(d) == Cardinality({e \in extra : e < d})
<1>3. /\ \A d \in extra : place(d) \in 0..Cardinality(extra) - 1
      /\ \A d, e \in extra : d # e => place(d) # place(e)
  BY <1>1, <1>2, PlacesDiffer
<1>4. Cardinality(extra) \in Nat
  BY FS_CardinalityType
<1>5. \A d \in extra : NewId(next, extra, d) = next + place(d)
  BY DEF NewId
<1>6. \A d \in extra : place(d) \in Nat
  BY <1>3, <1>4
<1> HIDE DEF place
<1> QED
  BY <1>3, <1>4, <1>5, <1>6

\* Every track of a frame is one that was matched, one that was missed or one
\* that is new.
LEMMA TracksAreFrom ==
  ASSUME NEW known, NEW next, Numbered(known, next), NEW dets, dets \in Seq(Detections), NEW pairs,
         pairs \subseteq Candidates(known, dets), NEW new, new = AfterFrame(known, pairs, next, dets)
  PROVE  \A t \in new :
           \/ \E c \in pairs : t = Matched(c[1], dets[c[2]])
           \/ \E u \in known : (\A c \in pairs : c[1] # u) /\ t = [u EXCEPT !.missed = @ + 1]
           \/ \E d \in Extra(pairs, dets) : t = NewTrack(NewId(next, Extra(pairs, dets), d), dets[d])
BY DEF AfterFrame, NewId, Extra

LEMMA AFrameKeepsNumbers ==
  ASSUME NEW known, NEW next, Numbered(known, next), NEW dets, dets \in Seq(Detections), NEW pairs,
         Greedy(dets, Candidates(known, dets), pairs),
         NEW new, new = AfterFrame(known, pairs, next, dets), NEW after, after = NextTrackId(pairs, next, dets)
  PROVE  Numbered(new, after) /\ next <= after
<1>1. PICK extra : extra = Extra(pairs, dets)
  OBVIOUS
<1>2. /\ IsFiniteSet(pairs) /\ \A c, d \in pairs : c = d \/ Disjoint(c, d)
      /\ \A c \in pairs : c \in known \X (1..Len(dets)) /\ c[1] \in TrackType /\ dets[c[2]] \in Detections
  <2>1. pairs \in SUBSET Candidates(known, dets) /\ Known(known)
    BY DEF Greedy, Numbered
  <2>2. IsFiniteSet(pairs)
    BY <2>1, CandidatesAre, FS_Subset
  <2> QED
    BY <2>1, <2>2, CandidatesAre DEF Greedy
<1>3. IsFiniteSet(extra) /\ Cardinality(extra) = Len(dets) - Cardinality(pairs) /\ Cardinality(extra) \in Nat
      /\ extra \in SUBSET Nat
  <2>1. \A c \in pairs : c[2] \in DOMAIN dets
    BY <1>2
  <2> QED
    BY <1>1, <1>2, <2>1, ExtraAreCounted
<1>4. next \in Nat /\ next # 0 /\ after \in Nat /\ after = next + Cardinality(extra)
  <2>1. next \in Nat /\ next # 0
    BY DEF Numbered
  <2> QED
    BY <1>3, <2>1 DEF NextTrackId
<1>5. /\ \A d \in extra : NewId(next, extra, d) \in next..after - 1
      /\ \A d, e \in extra : NewId(next, extra, d) = NewId(next, extra, e) => d = e
  <2>1. next \in Nat /\ extra \in SUBSET Nat /\ IsFiniteSet(extra)
    BY <1>3, <1>4
  <2>2. /\ \A d \in extra : NewId(next, extra, d) \in next..next + Cardinality(extra) - 1
        /\ \A d, e \in extra : NewId(next, extra, d) = NewId(next, extra, e) => d = e
    BY <2>1, NewIdsAreNew
  <2>3. next + Cardinality(extra) - 1 = after - 1
    BY <1>3, <1>4
  <2> QED
    BY <2>2, <2>3
<1>6. \A d \in extra : dets[d] \in Detections
  BY <1>1 DEF Extra
<1> DEFINE IsMatched(t, c) == t = Matched(c[1], dets[c[2]])
           IsMissed(t, u) == (\A c \in pairs : c[1] # u) /\ t = [u EXCEPT !.missed = @ + 1]
           IsNew(t, d) == t = NewTrack(NewId(next, extra, d), dets[d])
<1>7. \A t \in new : \/ \E c \in pairs : IsMatched(t, c)
                     \/ \E u \in known : IsMissed(t, u)
                     \/ \E d \in extra : IsNew(t, d)
  <2>1. pairs \subseteq Candidates(known, dets)
    BY DEF Greedy
  <2> QED
    BY <1>1, <2>1, TracksAreFrom
<1>8. known \subseteq TrackType /\ (\A t, u \in known : t.id = u.id => t = u) /\ \A t \in known : t.id < next
  BY DEF Numbered, Known
<1>9. ASSUME NEW t, NEW c \in pairs, IsMatched(t, c) PROVE t \in TrackType /\ t.id = c[1].id
  <2>1. PICK u, det : u = c[1] /\ det = dets[c[2]]
    OBVIOUS
  <2>2. u \in TrackType /\ det \in Detections
    BY <1>2, <2>1
  <2>3. PICK v : v = [u EXCEPT !.box = det.box]
    OBVIOUS
  <2>4. v \in TrackType /\ v.id = u.id
    BY <2>2, <2>3 DEF TrackType, Detections
  <2>5. Lesser(v.hits + 1, HitsBound) \in Nat
    BY <2>4, TrackingAssumption DEF TrackType, Lesser
  <2>6. PICK w : w = [v EXCEPT !.hits = Lesser(v.hits + 1, HitsBound)]
    OBVIOUS
  <2>7. w \in TrackType /\ w.id = u.id
    BY <2>4, <2>5, <2>6 DEF TrackType
  <2>8. t = [w EXCEPT !.missed = 0]
    <3>1. v.hits = u.hits
      BY <2>2, <2>3 DEF TrackType
    <3> QED
      BY <1>9, <2>1, <2>3, <2>6, <3>1 DEF Matched
  <2> QED
    BY <2>1, <2>7, <2>8 DEF TrackType
<1>10. ASSUME NEW t, NEW u \in known, IsMissed(t, u) PROVE t \in TrackType /\ t.id = u.id
  BY <1>8, <1>10 DEF TrackType
<1>11. ASSUME NEW t, NEW d \in extra, IsNew(t, d)
       PROVE  t \in TrackType /\ t.id = NewId(next, extra, d) /\ t.id >= next /\ t.id < after
  <2>1. PICK i : i = NewId(next, extra, d)
    OBVIOUS
  <2>2. i \in Nat /\ i >= next /\ i < after /\ i # 0
    BY <1>4, <1>5, <2>1
  <2>3. t = [id |-> i, class |-> dets[d].class, box |-> dets[d].box, hits |-> 1, missed |-> 0]
    BY <1>11, <2>1 DEF NewTrack
  <2> QED
    BY <1>6, <2>1, <2>2, <2>3 DEF TrackType, Detections
<1> HIDE DEF IsMatched, IsMissed, IsNew
<1>12. \A t \in new : t \in TrackType /\ t.id < after
  <2> SUFFICES ASSUME NEW t \in new PROVE t \in TrackType /\ t.id < after
    OBVIOUS
  <2>1. \A x, n, m \in Nat : x < n /\ m = n => x < m
    OBVIOUS
  <2>2. \A u \in known : u.id < after
    BY <1>3, <1>4, <1>8 DEF TrackType
  <2> QED
    BY <1>2, <1>7, <1>9, <1>10, <1>11, <2>2
\* A track that is not new is that of a track known before.
<1>13. ASSUME NEW t \in new, NEW u \in known, t.id = u.id
       PROVE  (\E c \in pairs : c[1] = u /\ IsMatched(t, c)) \/ IsMissed(t, u)
  <2>1. CASE \E c \in pairs : IsMatched(t, c)
    BY <1>2, <1>8, <1>9, <1>13, <2>1
  <2>2. CASE \E v \in known : IsMissed(t, v)
    BY <1>8, <1>10, <1>13, <2>2
  <2>3. CASE \E d \in extra : IsNew(t, d)
    <3>1. t.id >= next /\ t.id \in Nat
      BY <1>11, <2>3 DEF TrackType
    <3>2. u.id < next
      BY <1>8
    <3> QED
      BY <1>4, <1>13, <3>1, <3>2
  <2> QED
    BY <1>7, <2>1, <2>2, <2>3
<1>14. ASSUME NEW t \in new, NEW w \in new, t.id = w.id PROVE t = w
  <2>1. CASE \E u \in known : t.id = u.id
    <3>1. PICK u \in known : t.id = u.id /\ w.id = u.id
      BY <1>14, <2>1
    <3>2. /\ (\E c \in pairs : c[1] = u /\ IsMatched(t, c)) \/ IsMissed(t, u)
          /\ (\E c \in pairs : c[1] = u /\ IsMatched(w, c)) \/ IsMissed(w, u)
      BY <1>13, <3>1
    <3>3. \A c, d \in pairs : c[1] = u /\ d[1] = u => c = d
      BY <1>2 DEF Disjoint
    <3> QED
      BY <3>2, <3>3 DEF IsMatched, IsMissed
  <2>2. CASE ~\E u \in known : t.id = u.id
    <3>1. (\E d \in extra : IsNew(t, d)) /\ \E d \in extra : IsNew(w, d)
      BY <1>2, <1>7, <1>9, <1>10, <1>14, <2>2
    <3>2. PICK d \in extra, e \in extra : IsNew(t, d) /\ IsNew(w, e)
      BY <3>1
    <3>3. d = e
      BY <1>5, <1>11, <1>14, <3>2
    <3> QED
      BY <3>2, <3>3 DEF IsNew
  <2> QED
    BY <2>1, <2>2
<1>15. IsFiniteSet(new)
  <2>1. PICK left : left = {u \in known \ {c[1] : c \in pairs} : ~Lost(u)}
    OBVIOUS
  <2>2. IsFiniteSet(left)
    BY <2>1, FS_Subset DEF Numbered, Known
  <2>3. PICK A : A = {Matched(c[1], dets[c[2]]) : c \in pairs}
    OBVIOUS
  <2>4. PICK B : B = {[t EXCEPT !.missed = @ + 1] : t \in left}
    OBVIOUS
  <2>5. PICK D : D = {NewTrack(NewId(next, extra, d), dets[d]) : d \in extra}
    OBVIOUS
  <2>6. new = A \cup B \cup D
    BY <1>1, <2>1, <2>3, <2>4, <2>5 DEF AfterFrame, NewId, Extra
  <2>7. [c \in pairs |-> Matched(c[1], dets[c[2]])] \in Surjection(pairs, A)
    BY <2>3 DEF Surjection
  <2>8. [t \in left |-> [t EXCEPT !.missed = @ + 1]] \in Surjection(left, B)
    BY <2>4, Zenon DEF Surjection
  <2>9. [d \in extra |-> NewTrack(NewId(next, extra, d), dets[d])] \in Surjection(extra, D)
    BY <2>5 DEF Surjection
  <2>10. IsFiniteSet(A) /\ IsFiniteSet(B) /\ IsFiniteSet(D)
    BY <1>2, <1>3, <2>2, <2>7, <2>8, <2>9, FS_Surjection
  <2> QED
    BY <2>6, <2>10, FS_Union
<1>16. after \in Nat \ {0} /\ next <= after
  BY <1>3, <1>4
<1> QED
  BY <1>12, <1>14, <1>15, <1>16 DEF Numbered, Known

\* As many numbers as tracks.
LEMMA NumbersDiffer ==
  ASSUME NEW known, Known(known) PROVE Cardinality(IdsOf(known)) = Cardinality(known)
<1>1. PICK f : f = [t \in known |-> t.id]
  OBVIOUS
<1>2. f \in Surjection(known, IdsOf(known)) /\ f \in Injection(known, IdsOf(known))
  BY <1>1 DEF Known, IdsOf, Surjection, Injection, IsInjective
<1> QED
  BY <1>2, FS_Surjection DEF Known
-----------------------------------------------------------------------------
(* The debounce of the zones.                                              *)

LEMMA ZoneNumbers ==
  /\ MinimumHits \in Nat \ {0} /\ EnterConfirm \in Nat \ {0} /\ ExitConfirm \in Nat \ {0}
  /\ DwellTime \in Nat /\ Depth \in Nat /\ EnterConfirm <= Depth /\ ExitConfirm <= Depth
BY ZoneAssumption DEF Depth, Greater

Moved(present) == SubSeq(<<present>> \o window, 1, Lesser(Depth + 1, Len(window) + 1))

LEMMA WindowMoves ==
  ASSUME NEW S, window \in Seq(S), NEW present \in S
  PROVE  /\ Moved(present) \in Seq(S)
         /\ Len(Moved(present)) = Lesser(Depth + 1, Len(window) + 1)
         /\ Moved(present)[1] = present
         /\ \A j \in 2..Len(Moved(present)) : Moved(present)[j] = window[j - 1]
<1> PICK n : n = Lesser(Depth + 1, Len(window) + 1)
  OBVIOUS
<1>1. n \in 1..Len(window) + 1
  BY ZoneNumbers DEF Lesser
<1>2. PICK s : s = <<present>> \o window
  OBVIOUS
<1>3. /\ s \in Seq(S) /\ Len(s) = Len(window) + 1 /\ s[1] = present
      /\ \A j \in 2..Len(s) : s[j] = window[j - 1]
  BY <1>2
<1>4. PICK z : z = SubSeq(s, 1, n)
  OBVIOUS
<1>5. z \in Seq(S) /\ Len(z) = n /\ \A j \in 1..n : z[j] = s[j]
  BY <1>1, <1>3, <1>4
<1>6. Moved(present) = z
  BY <1>2, <1>4 DEF Moved
<1> QED
  BY <1>1, <1>3, <1>5, <1>6

\* What a visit's counters say of the last frames, and the last frames of it.
CountsAbsence(k) ==
  /\ states[k].absence \in 0..ExitConfirm - 1
  /\ NoneOf(states[k].absence, k)
  /\ Len(window) > states[k].absence /\ k \in window[states[k].absence + 1]

CountsPresence(k) ==
  states[k].phase = "entering" =>
    /\ states[k].absence = 0 /\ states[k].presence < EnterConfirm
    /\ AllOf(states[k].presence, k)

IsCounted(k) ==
  \A n \in 1..EnterConfirm :
    AllOf(n, k) => /\ k \in DOMAIN states
                   /\ states[k].phase = "inside" \/ states[k].presence >= n

IsTold(k) ==
  /\ <<"ZONE_ENTER", k>> \in events => AllOf(EnterConfirm, k)
  /\ <<"ZONE_EXIT", k>> \in events => NoneOf(ExitConfirm, k) /\ k \in window[ExitConfirm + 1]

Debounced ==
  /\ window \in Seq(SUBSET (Zones \X Nat))
  /\ \A k \in DOMAIN states : states[k] \in State /\ CountsAbsence(k) /\ CountsPresence(k)
  /\ \A k \in Zones \X Nat : IsCounted(k) /\ IsTold(k)

\* One frame of which only the keys present and the time passed are known.
Observed(present, passed) ==
  /\ states' = AfterSnapshot(present, passed)
  /\ events' = EventsOf(present, passed)
  /\ window' = Moved(present)

\* A run of frames is one longer with the frame that continues it.
LEMMA RunsGrow ==
  ASSUME NEW S, window \in Seq(SUBSET S), NEW present \in SUBSET S, window' = Moved(present), NEW k, NEW n \in Nat
  PROVE  /\ n < Depth + 1 => (AllOf(n + 1, k)' <=> (k \in present /\ AllOf(n, k)))
         /\ n < Depth + 1 => (NoneOf(n + 1, k)' <=> (k \notin present /\ NoneOf(n, k)))
<1>1. /\ window' \in Seq(SUBSET S) /\ Len(window') = Lesser(Depth + 1, Len(window) + 1)
      /\ window'[1] = present /\ \A j \in 2..Len(window') : window'[j] = window[j - 1]
  BY WindowMoves
<1>2. Depth \in Nat /\ Len(window) \in Nat
  BY ZoneNumbers
<1> SUFFICES ASSUME n < Depth + 1
             PROVE  /\ AllOf(n + 1, k)' <=> (k \in present /\ AllOf(n, k))
                    /\ NoneOf(n + 1, k)' <=> (k \notin present /\ NoneOf(n, k))
  OBVIOUS
<1>3. Len(window') >= n + 1 <=> Len(window) >= n
  BY <1>1, <1>2 DEF Lesser
<1>4. ASSUME Len(window) >= n
      PROVE  /\ (\A j \in 1..n + 1 : k \in window'[j]) <=> (k \in present /\ \A j \in 1..n : k \in window[j])
             /\ (\A j \in 1..n + 1 : k \notin window'[j]) <=> (k \notin present /\ \A j \in 1..n : k \notin window[j])
  <2>1. \A j \in 1..n : j + 1 \in 2..Len(window') /\ window'[j + 1] = window[j]
    BY <1>1, <1>3, <1>4
  <2>2. \A j \in 1..n + 1 : j = 1 \/ (j - 1 \in 1..n /\ j - 1 + 1 = j)
    OBVIOUS
  <2>3. 1 \in 1..n + 1 /\ \A j \in 1..n : j + 1 \in 1..n + 1
    OBVIOUS
  <2> QED
    BY <1>1, <2>1, <2>2, <2>3
<1> QED
  BY <1>3, <1>4 DEF AllOf, NoneOf

LEMMA CountedIs ==
  ASSUME NEW s \in State, NEW passed \in 0..1
  PROVE  /\ Counted(s, passed) \in State /\ Counted(s, passed).absence = 0
         /\ Counted(s, passed).presence = Lesser(s.presence + 1, EnterConfirm)
         /\ Counted(s, passed).phase = IF Confirms(s) THEN "inside" ELSE s.phase
<1>1. Elapsed(s, passed) \in Nat
  BY ZoneNumbers DEF Elapsed, Lesser, State
<1> QED
  BY <1>1, ZoneNumbers DEF Counted, Lesser, State

LEMMA ArrivedIs ==
  /\ Arrived \in State /\ Arrived.phase = "entering" /\ Arrived.presence = 0
BY DEF Arrived, State

LEMMA ObservedPresent ==
  ASSUME Debounced, NEW present \in SUBSET (Zones \X Nat), NEW passed \in 0..1, Observed(present, passed),
         NEW k \in present
  PROVE  /\ k \in DOMAIN states' /\ states'[k] \in State /\ CountsAbsence(k)' /\ CountsPresence(k)'
         /\ IsCounted(k)' /\ IsTold(k)'
<1>s. PICK s : s = StateOf(k)
  OBVIOUS
<1>t. PICK t : t = states'[k]
  OBVIOUS
<1>1. k \in DOMAIN states' /\ t = Counted(s, passed)
  BY <1>s, <1>t DEF Observed, AfterSnapshot
<1>2. s \in State /\ (k \notin DOMAIN states => s.phase = "entering" /\ s.presence = 0)
  BY <1>s, ArrivedIs DEF StateOf, Debounced
<1>3. /\ t \in State /\ t.absence = 0 /\ t.presence = Lesser(s.presence + 1, EnterConfirm)
      /\ t.phase = IF Confirms(s) THEN "inside" ELSE s.phase
  BY <1>1, <1>2, CountedIs
<1>4. window \in Seq(SUBSET (Zones \X Nat)) /\ window' = Moved(present)
  BY DEF Debounced, Observed
<1>5. /\ Len(window') = Lesser(Depth + 1, Len(window) + 1) /\ window'[1] = present
      /\ Len(window) \in Nat
  BY <1>4, WindowMoves
<1>6. CountsAbsence(k)'
  <2>1. Len(window') > 0
    BY <1>5, ZoneNumbers DEF Lesser
  <2>2. t.absence \in 0..ExitConfirm - 1 /\ t.absence + 1 = 1
    BY <1>3, ZoneNumbers
  <2>3. Len(window') >= 0 /\ \A j \in 1..0 : FALSE
    BY <2>1, <1>5, ZoneNumbers DEF Lesser
  <2> QED
    BY <1>t, <1>3, <1>5, <2>1, <2>2, <2>3 DEF CountsAbsence, NoneOf
<1>7. s.phase = "entering" => AllOf(s.presence, k) /\ s.presence < EnterConfirm
  <2>1. CASE k \in DOMAIN states
    BY <1>s, <2>1 DEF Debounced, CountsPresence, StateOf
  <2>2. CASE k \notin DOMAIN states
    BY <1>2, <1>5, <2>2, ZoneNumbers DEF AllOf
  <2> QED
    BY <2>1, <2>2
<1>8. s.phase = "entering" => AllOf(s.presence + 1, k)' /\ s.presence + 1 <= EnterConfirm
  <2> SUFFICES ASSUME s.phase = "entering" PROVE AllOf(s.presence + 1, k)' /\ s.presence + 1 <= EnterConfirm
    OBVIOUS
  <2>1. s.presence \in Nat /\ s.presence < Depth + 1 /\ s.presence + 1 <= EnterConfirm
    BY <1>2, <1>7, ZoneNumbers DEF State
  <2> QED
    BY <1>4, <1>7, <2>1, RunsGrow
<1>9. CountsPresence(k)'
  <2> SUFFICES ASSUME t.phase = "entering"
               PROVE  t.absence = 0 /\ t.presence < EnterConfirm /\ AllOf(t.presence, k)'
    BY <1>t DEF CountsPresence
  <2>1. s.phase = "entering" /\ ~(s.presence + 1 >= EnterConfirm)
    BY <1>3 DEF Confirms
  <2>2. s.presence \in Nat /\ EnterConfirm \in Nat
    BY <1>2, ZoneNumbers DEF State
  <2>3. t.presence = s.presence + 1 /\ t.presence < EnterConfirm
    BY <1>3, <2>1, <2>2 DEF Lesser
  <2>4. AllOf(s.presence + 1, k)'
    BY <1>8, <2>1
  <2>5. PICK p : p = s.presence + 1
    OBVIOUS
  <2> QED
    BY <1>3, <2>3, <2>4, <2>5
<1>10. IsCounted(k)'
  <2> SUFFICES ASSUME NEW n \in 1..EnterConfirm, AllOf(n, k)'
               PROVE  k \in DOMAIN states' /\ (t.phase = "inside" \/ t.presence >= n)
    BY <1>t DEF IsCounted
  <2>1. n - 1 \in Nat /\ n - 1 < Depth + 1 /\ n - 1 + 1 = n /\ n <= EnterConfirm /\ n \in Nat
    BY ZoneNumbers
  <2>2. AllOf(n - 1, k)
    BY <1>4, <2>1, RunsGrow
  <2>3. CASE s.phase = "inside"
    BY <1>1, <1>3, <2>3
  <2>4. CASE s.phase = "entering"
    <3>1. s.presence >= n - 1
      <4>1. CASE n = 1
        BY <1>2, <4>1 DEF State
      <4>2. CASE n # 1
        <5>1. n - 1 \in 1..EnterConfirm
          BY <2>1, <4>2, ZoneNumbers
        <5>2. k \in DOMAIN states /\ (states[k].phase = "inside" \/ states[k].presence >= n - 1)
          BY <2>2, <5>1 DEF Debounced, IsCounted
        <5> QED
          BY <1>s, <2>4, <5>2 DEF StateOf
      <4> QED
        BY <4>1, <4>2
    <3>2. s.presence \in Nat /\ EnterConfirm \in Nat
      BY <1>2, ZoneNumbers DEF State
    <3>3. Lesser(s.presence + 1, EnterConfirm) >= n
      BY <2>1, <3>1, <3>2 DEF Lesser
    <3> QED
      BY <1>1, <1>3, <3>3
  <2> QED
    BY <1>2, <2>3, <2>4 DEF State
<1>11. IsTold(k)'
  <2>1. <<"ZONE_EXIT", k>> \notin events'
    BY DEF Observed, EventsOf
  <2>2. <<"ZONE_ENTER", k>> \in events' => Confirms(s)
    BY <1>s DEF Observed, EventsOf
  <2>3. Confirms(s) => AllOf(EnterConfirm, k)'
    <3>1. s.presence \in Nat /\ EnterConfirm \in Nat
      BY <1>2, ZoneNumbers DEF State
    <3>2. Confirms(s) => s.presence + 1 = EnterConfirm /\ AllOf(s.presence + 1, k)'
      BY <1>8, <3>1 DEF Confirms
    <3> QED
      BY <3>2
  <2> QED
    BY <2>1, <2>2, <2>3 DEF IsTold
<1> QED
  BY <1>t, <1>1, <1>3, <1>6, <1>9, <1>10, <1>11

LEMMA ObservedAbsent ==
  ASSUME Debounced, NEW present \in SUBSET (Zones \X Nat), NEW passed \in 0..1, Observed(present, passed),
         NEW k, k \notin present
  PROVE  /\ k \in DOMAIN states' => states'[k] \in State /\ CountsAbsence(k)' /\ CountsPresence(k)'
         /\ k \in Zones \X Nat => IsCounted(k)' /\ IsTold(k)'
<1>1. window \in Seq(SUBSET (Zones \X Nat)) /\ window' = Moved(present)
  BY DEF Debounced, Observed
<1>2. /\ Len(window') = Lesser(Depth + 1, Len(window) + 1) /\ window'[1] = present
      /\ Len(window) \in Nat /\ \A j \in 2..Len(window') : window'[j] = window[j - 1]
  BY <1>1, WindowMoves
<1>3. k \in DOMAIN states' => k \in DOMAIN states /\ Lingers(k)
  BY DEF Observed, AfterSnapshot
\* The frame in which it was present last.
<1>4. ASSUME k \in DOMAIN states, NEW a \in 0..ExitConfirm - 1, a = states[k].absence
      PROVE  NoneOf(a + 1, k)' /\ Len(window') > a + 1 /\ k \in window'[a + 2]
  <2>1. a \in Nat /\ a < Depth + 1 /\ a + 1 < Depth + 1
    BY ZoneNumbers
  <2>2. NoneOf(a, k) /\ Len(window) > a /\ k \in window[a + 1]
    BY <1>4 DEF Debounced, CountsAbsence
  <2>3. NoneOf(a + 1, k)'
    BY <1>1, <2>1, <2>2, RunsGrow
  <2>4. Len(window') > a + 1
    BY <1>2, <2>1, <2>2, ZoneNumbers DEF Lesser
  <2>5. a + 2 \in 2..Len(window') /\ a + 2 - 1 = a + 1
    BY <1>2, <2>1, <2>4, ZoneNumbers DEF Lesser
  <2>6. window'[a + 2] = window[a + 1]
    BY <1>2, <2>5
  <2> QED
    BY <2>2, <2>3, <2>4, <2>6
<1>5. ASSUME k \in DOMAIN states'
      PROVE  states'[k] \in State /\ CountsAbsence(k)' /\ CountsPresence(k)'
  <2>1. k \in DOMAIN states /\ Lingers(k)
    BY <1>3, <1>5
  <2>2. PICK s : s = states[k]
    OBVIOUS
  <2>3. s \in State /\ s.absence \in 0..ExitConfirm - 1 /\ s.phase = "inside"
    BY <2>1, <2>2 DEF Debounced, CountsAbsence, Lingers
  <2>4. s.absence + 1 < ExitConfirm
    BY <2>1, <2>2, <2>3, ZoneNumbers DEF Lingers, Leaves
  <2>5. states'[k] = [s EXCEPT !.absence = Lesser(@ + 1, ExitConfirm), !.since = Elapsed(s, passed)]
    BY <1>5, <2>2 DEF Observed, AfterSnapshot
  <2>6. Lesser(s.absence + 1, ExitConfirm) = s.absence + 1
    BY <2>3, <2>4, ZoneNumbers DEF Lesser
  <2>7. Elapsed(s, passed) \in Nat
    BY <2>3, ZoneNumbers DEF Elapsed, Lesser, State
  <2>8. states'[k] \in State /\ states'[k].absence = s.absence + 1 /\ states'[k].phase = "inside"
    <3>1. PICK u : u = [s EXCEPT !.absence = s.absence + 1]
      OBVIOUS
    <3>2. u \in State /\ u.absence = s.absence + 1 /\ u.phase = "inside"
      BY <2>3, <3>1 DEF State
    <3>3. states'[k] = [u EXCEPT !.since = Elapsed(s, passed)]
      BY <2>5, <2>6, <3>1
    <3> QED
      BY <2>7, <3>2, <3>3 DEF State
  <2>9. NoneOf(s.absence + 1, k)' /\ Len(window') > s.absence + 1 /\ k \in window'[s.absence + 2]
    BY <1>4, <2>1, <2>2, <2>3
  <2>10. PICK b : b = s.absence + 1
    OBVIOUS
  <2>11. b \in 0..ExitConfirm - 1 /\ b + 1 = s.absence + 2
    BY <2>3, <2>4, <2>10, ZoneNumbers
  <2>12. CountsAbsence(k)'
    BY <2>8, <2>9, <2>10, <2>11 DEF CountsAbsence
  <2> QED
    BY <2>8, <2>12 DEF CountsPresence
<1>6. IsCounted(k)'
  <2> SUFFICES ASSUME NEW n \in 1..EnterConfirm, AllOf(n, k)' PROVE FALSE
    BY DEF IsCounted
  <2>1. n - 1 \in Nat /\ n - 1 < Depth + 1 /\ n - 1 + 1 = n
    BY ZoneNumbers
  <2> QED
    BY <1>1, <2>1, RunsGrow
<1>7. IsTold(k)'
  <2>1. <<"ZONE_ENTER", k>> \notin events'
    BY DEF Observed, EventsOf
  <2>2. ASSUME <<"ZONE_EXIT", k>> \in events'
        PROVE  NoneOf(ExitConfirm, k)' /\ k \in window'[ExitConfirm + 1]
    <3>1. k \in DOMAIN states /\ Leaves(k)
      BY <2>2 DEF Observed, EventsOf
    <3>2. PICK a : a = states[k].absence
      OBVIOUS
    <3>3. a \in 0..ExitConfirm - 1 /\ a + 1 = ExitConfirm /\ a + 2 = ExitConfirm + 1
      BY <3>1, <3>2, ZoneNumbers DEF Debounced, CountsAbsence, Leaves
    <3>4. NoneOf(a + 1, k)' /\ k \in window'[a + 2]
      BY <1>4, <3>1, <3>2, <3>3
    <3> QED
      BY <3>3, <3>4
  <2> QED
    BY <2>1, <2>2 DEF IsTold
<1> QED
  BY <1>5, <1>6, <1>7

\* Any set of keys may be present in a frame.
LEMMA ObservedKeeps ==
  ASSUME Debounced, NEW present \in SUBSET (Zones \X Nat), NEW passed \in 0..1, Observed(present, passed)
  PROVE  Debounced'
<1>1. (window \in Seq(SUBSET (Zones \X Nat)))'
  BY WindowMoves DEF Debounced, Observed
<1> QED
  BY <1>1, ObservedPresent, ObservedAbsent DEF Debounced

LEMMA NothingObserved ==
  ASSUME states = [k \in {} |-> {}], events = {}, window = <<>> PROVE Debounced
<1>1. DOMAIN states = {} /\ window \in Seq(SUBSET (Zones \X Nat)) /\ Len(window) = 0
  OBVIOUS
<1>2. \A k, n : n \in 1..EnterConfirm => ~AllOf(n, k)
  BY <1>1, ZoneNumbers DEF AllOf
<1> QED
  BY <1>1, <1>2 DEF Debounced, IsCounted, IsTold

LEMMA DebouncedIsExact == Debounced => DebounceIsExact
<1> SUFFICES ASSUME Debounced, NEW k \in ZoneKeys
             PROVE  /\ <<"ZONE_ENTER", k>> \in events => AllOf(EnterConfirm, k)
                    /\ <<"ZONE_EXIT", k>> \in events =>
                         NoneOf(ExitConfirm, k) /\ k \in window[ExitConfirm + 1]
                    /\ AllOf(EnterConfirm, k) => Inside(k)
                    /\ NoneOf(ExitConfirm, k) => k \notin DOMAIN states
  BY DEF DebounceIsExact
<1>1. k \in Zones \X Nat
  BY DEF ZoneKeys, Ids
<1>2. IsCounted(k) /\ IsTold(k)
  BY <1>1 DEF Debounced
<1>3. AllOf(EnterConfirm, k) => Inside(k)
  <2> SUFFICES ASSUME AllOf(EnterConfirm, k) PROVE Inside(k)
    OBVIOUS
  <2>1. EnterConfirm \in 1..EnterConfirm
    BY ZoneNumbers
  <2>2. k \in DOMAIN states /\ (states[k].phase = "inside" \/ states[k].presence >= EnterConfirm)
    BY <1>2, <2>1 DEF IsCounted
  <2>3. states[k] \in State /\ CountsPresence(k)
    BY <2>2 DEF Debounced
  <2> QED
    BY <2>2, <2>3, ZoneNumbers DEF CountsPresence, State, Inside
<1>4. NoneOf(ExitConfirm, k) => k \notin DOMAIN states
  <2> SUFFICES ASSUME NoneOf(ExitConfirm, k), k \in DOMAIN states PROVE FALSE
    OBVIOUS
  <2>1. CountsAbsence(k)
    BY DEF Debounced
  <2>2. states[k].absence + 1 \in 1..ExitConfirm
    BY <2>1, ZoneNumbers DEF CountsAbsence
  <2> QED
    BY <2>1, <2>2 DEF CountsAbsence, NoneOf
<1> QED
  BY <1>2, <1>3, <1>4 DEF IsTold

-----------------------------------------------------------------------------
(* The frame loop.                                                         *)

FollowInv ==
  /\ Debounced
  /\ Numbered(tracks, nextId)
  /\ \A k \in DOMAIN states : k[2] \in 1..nextId - 1
  /\ people \subseteq confirmed /\ zones \subseteq Zones

LEMMA PresentAre ==
  ASSUME NEW known, NEW next, Numbered(known, next), NEW zs \in SUBSET Zones
  PROVE  /\ Present(known, zs) \subseteq Zones \X Nat
         /\ \A k \in Present(known, zs) : k[2] \in 1..next - 1
<1>1. \A t \in known : t.id \in Nat \ {0} /\ t.id < next /\ next \in Nat
  BY DEF Numbered, Known, TrackType
<1>2. \A t \in known : t.id \in Nat /\ t.id \in 1..next - 1
  BY <1>1
<1> QED
  BY <1>2 DEF Present

LEMMA AFrameIsFollowed ==
  ASSUME FollowInv, NEW dets \in Frames, NEW passed \in 0..1, NEW configured \in Configured,
         Frame(dets, passed, configured)
  PROVE  FollowInv'
<1>1. PICK pairs : pairs = Matching(tracks, dets)
  OBVIOUS
<1>2. /\ nextId' = NextTrackId(pairs, nextId, dets) /\ zones' = configured
      /\ tracks' = AfterFrame(tracks, pairs, nextId, dets)
      /\ people' = IdsOf(Occupants(tracks')) /\ confirmed' = confirmed \cup IdsOf(PeopleOf(tracks'))
  BY <1>1 DEF Frame
<1>3. PICK present : present = Present(tracks', zones')
  OBVIOUS
<1>4. Observed(present, passed)
  BY <1>3 DEF Frame, Observed, Moved
<1>5. dets \in Seq(Detections) /\ configured \in SUBSET Zones
  BY ZoneAssumption
<1>6. Numbered(tracks, nextId) /\ Known(tracks)
  BY DEF FollowInv, Numbered
<1>7. Greedy(dets, Candidates(tracks, dets), pairs)
  BY <1>1, <1>5, <1>6, MatchingIsGreedy
<1>8. Numbered(tracks', nextId') /\ nextId <= nextId'
  BY <1>2, <1>5, <1>6, <1>7, AFrameKeepsNumbers
<1>9. present \in SUBSET (Zones \X Nat) /\ \A k \in present : k[2] \in 1..nextId' - 1
  BY <1>2, <1>3, <1>5, <1>8, PresentAre
<1>10. Debounced'
  BY <1>4, <1>9, ObservedKeeps DEF FollowInv
<1>11. \A k \in DOMAIN states' : k[2] \in 1..nextId' - 1
  <2>1. \A k \in DOMAIN states' : k \in present \/ k \in DOMAIN states
    BY <1>4 DEF Observed, AfterSnapshot
  <2>2. nextId \in Nat /\ nextId' \in Nat
    BY <1>6, <1>8 DEF Numbered
  <2>3. \A k \in DOMAIN states : k[2] \in 1..nextId' - 1
    BY <1>8, <2>2 DEF FollowInv
  <2> QED
    BY <1>9, <2>1, <2>3
<1>12. people' \subseteq confirmed'
  BY <1>2 DEF Occupants, IdsOf
<1> QED
  BY <1>2, <1>5, <1>8, <1>10, <1>11, <1>12 DEF FollowInv

LEMMA ALifeStarts == ZoneInit => FollowInv
<1> SUFFICES ASSUME ZoneInit PROVE FollowInv
  OBVIOUS
<1>1. Debounced
  BY NothingObserved DEF ZoneInit
<1>2. Numbered(tracks, nextId)
  BY FS_EmptySet DEF Numbered, Known, ZoneInit
<1> QED
  BY <1>1, <1>2, ZoneAssumption DEF FollowInv, ZoneInit

LEMMA StepIsFollowed == FollowInv /\ [ZoneNext]_zoneVars => FollowInv'
<1> SUFFICES ASSUME FollowInv, [ZoneNext]_zoneVars PROVE FollowInv'
  OBVIOUS
<1>1. CASE NextFrame
  BY <1>1, AFrameIsFollowed DEF NextFrame
<1>2. CASE ProbeRestarts
  <2>1. ZoneInit'
    BY <1>2 DEF ProbeRestarts, ZoneInit
  <2> QED
    BY <2>1, ALifeStarts, PTL
<1>3. CASE UNCHANGED zoneVars
  <2>1. tracks' = tracks /\ nextId' = nextId /\ zones' = zones /\ states' = states /\ events' = events
        /\ confirmed' = confirmed /\ people' = people /\ window' = window
    BY <1>3 DEF zoneVars
  <2>2. /\ \A k : CountsAbsence(k)' <=> CountsAbsence(k)
        /\ \A k : CountsPresence(k)' <=> CountsPresence(k)
        /\ \A k : IsCounted(k)' <=> IsCounted(k)
        /\ \A k : IsTold(k)' <=> IsTold(k)
    BY <2>1 DEF CountsAbsence, CountsPresence, IsCounted, IsTold, AllOf, NoneOf
  <2>3. Debounced'
    BY <2>1, <2>2 DEF Debounced, FollowInv
  <2> QED
    BY <2>1, <2>3 DEF FollowInv
<1> QED
  BY <1>1, <1>2, <1>3 DEF ZoneNext

LEMMA FollowedIsStable == FollowInv => IdentitiesAreStable
<1> SUFFICES ASSUME FollowInv PROVE IdentitiesAreStable
  OBVIOUS
<1>1. Known(tracks) /\ Numbered(tracks, nextId) /\ people \subseteq confirmed
  BY DEF FollowInv, Numbered
<1>2. \A dets \in Frames : Greedy(dets, Candidates(tracks, dets), Matching(tracks, dets))
  BY <1>1, MatchingIsGreedy, ZoneAssumption
<1>3. Cardinality(IdsOf(tracks)) = Cardinality(tracks)
  BY <1>1, NumbersDiffer
<1>4. IdsOf(tracks) \subseteq 1..(nextId - 1)
  BY <1>1 DEF IdsOf, Numbered, Known, TrackType
<1>5. {k[2] : k \in DOMAIN states} \subseteq 1..(nextId - 1)
  BY DEF FollowInv
<1> QED
  BY <1>1, <1>2, <1>3, <1>4, <1>5 DEF IdentitiesAreStable, Greedy

\* Whatever a camera delivers and however often the probe is started again or
\* its zones are changed, a pair of a track and a detection that overlap enough
\* is matched or gives way to one that comes sooner, no identity is given out
\* twice, and a key enters a zone in the very frame that completes EnterConfirm
\* frames with it and leaves in the one that completes ExitConfirm without it.
THEOREM FramesAreFollowedHolds == ZoneSpec => []FramesAreFollowed
<1>1. FollowInv => FramesAreFollowed
  BY DebouncedIsExact, FollowedIsStable DEF FollowInv, FramesAreFollowed
<1> QED
  BY <1>1, ALifeStarts, StepIsFollowed, PTL DEF ZoneSpec

--------------------------------------------------------------------------------
(* The zone configuration.                                                 *)

FileValues == Contents \cup {Absent}

SaverType == [at : {"idle", "asked", "checked", "written", "rechecked", "copied", "replaced"},
              expects : FileValues, new : FileValues, copy : FileValues, touched : {"no", "yes"}]

LoadType == [at : {"no", "before", "parse", "after"}, before : FileValues, engine : FileValues,
             changes : 0..2]

ConfigTypes == /\ file \in FileValues /\ saver \in [Savers -> SaverType]
               /\ load \in LoadType /\ probe \in {"up", "starting", "down"}
               /\ lastError \in {"none", "unavailable", "invalid"}

-----------------------------------------------------------------------------
(* Savers: the lock has one holder, and what the holder checked is what the *)
(* file holds until it replaces it or an editor does.                       *)

OneHolder == \A t, u \in Savers : Holding(t) /\ Holding(u) => t = u

CheckedIsThere(t) ==
  saver[t].touched = "no" =>
    /\ saver[t].at \in {"rechecked", "copied"} => file = saver[t].expects
    /\ saver[t].at = "copied" => saver[t].copy = file

SaverInv == ConfigTypes /\ OneHolder /\ \A t \in Savers : CheckedIsThere(t)

\* One thread takes a step; the file is as it was.
LEMMA SaverSteps ==
  ASSUME SaverInv, ConfigTypes', NEW t \in Savers, NEW after \in SaverType,
         saver' = [saver EXCEPT ![t] = after], UNCHANGED file,
         after.at \in {"idle", "asked"} \/ LockFree(t),
         after.touched = "no" =>
           /\ after.at \in {"rechecked", "copied"} => file = after.expects
           /\ after.at = "copied" => after.copy = file
  PROVE  SaverInv'
<1>1. \A u \in Savers : saver'[u] = IF u = t THEN after ELSE saver[u]
  BY DEF SaverInv, ConfigTypes
<1> HIDE DEF SaverType
<1>2. OneHolder'
  BY <1>1 DEF SaverInv, OneHolder, Holding, LockFree
<1>3. ASSUME NEW u \in Savers PROVE CheckedIsThere(u)'
  BY <1>1 DEF SaverInv, CheckedIsThere
<1> QED
  BY <1>2, <1>3 DEF SaverInv

\* A thread that holds the lock finds it free of the others.
LEMMA HolderIsAlone == ASSUME SaverInv, NEW t \in Savers, Holding(t) PROVE LockFree(t)
BY DEF SaverInv, OneHolder, LockFree

LEMMA RestingTyped == Resting \in SaverType
BY DEF Resting, SaverType, FileValues

LEMMA SavesKeepSavers ==
  ASSUME SaverInv, ConfigTypes', NEW t \in Savers, Saves(t) PROVE SaverInv'
<1>1. saver[t] \in SaverType /\ saver \in [Savers -> SaverType]
  BY DEF SaverInv, ConfigTypes
<1>2. ASSUME NEW expects \in Good, NEW new \in Good, Ask(t, expects, new) PROVE SaverInv'
  <2> DEFINE after == [Resting EXCEPT !.at = "asked", !.expects = expects, !.new = new]
  <2>1. after \in SaverType /\ after.at = "asked"
    BY RestingTyped DEF Resting, SaverType, FileValues, Contents
  <2>2. saver' = [saver EXCEPT ![t] = after] /\ UNCHANGED file
    BY <1>2 DEF Ask
  <2> HIDE DEF after
  <2> QED
    BY <2>1, <2>2, SaverSteps
<1>3. ASSUME NEW place \in {"checked", "written", "rechecked"}, At(t, place), LockFree(t),
             UNCHANGED file, place = "rechecked" => file = saver[t].expects
      PROVE  SaverInv'
  <2> DEFINE after == [saver[t] EXCEPT !.at = place]
  <2>1. /\ after \in SaverType /\ after.at = place /\ after.touched = saver[t].touched
        /\ after.expects = saver[t].expects
    BY <1>1 DEF SaverType
  <2>2. saver' = [saver EXCEPT ![t] = after]
    BY <1>3 DEF At
  <2> HIDE DEF after
  <2> QED
    BY <1>3, <2>1, <2>2, SaverSteps
<1>4. ASSUME Refuse(t), UNCHANGED file PROVE SaverInv'
  <2>1. Resting.at = "idle"
    BY DEF Resting
  <2> QED
    BY <1>4, <2>1, RestingTyped, SaverSteps DEF Refuse
<1>5. CASE CheckVersion(t)
  BY <1>3, <1>4, <1>5 DEF CheckVersion, apiVars, reloadVars
<1>6. ASSUME NEW outcome, WriteTemporary(t, outcome) PROVE SaverInv'
  <2>1. LockFree(t)
    BY <1>6, HolderIsAlone DEF WriteTemporary, Holding
  <2> QED
    BY <1>3, <1>4, <1>6, <2>1 DEF WriteTemporary
<1>7. CASE CheckAgain(t)
  <2>1. LockFree(t)
    BY <1>7, HolderIsAlone DEF CheckAgain, Holding
  <2> QED
    BY <1>3, <1>4, <1>7, <2>1 DEF CheckAgain, StillCurrent
<1>8. ASSUME NEW outcome, Backup(t, outcome) PROVE SaverInv'
  <2> DEFINE after == [saver[t] EXCEPT !.at = "copied", !.copy = file]
  <2>1. LockFree(t) /\ saver[t].at = "rechecked" /\ UNCHANGED file
    BY <1>8, HolderIsAlone DEF Backup, Holding
  <2>2. CASE Refuse(t)
    BY <1>4, <2>1, <2>2
  <2>3. CASE saver' = [saver EXCEPT ![t].at = "copied", ![t].copy = file]
    <3>1. /\ after \in SaverType /\ after.touched = saver[t].touched
          /\ after.expects = saver[t].expects /\ after.copy = file
      BY <1>1 DEF SaverType, SaverInv, ConfigTypes
    <3>2. saver' = [saver EXCEPT ![t] = after]
      BY <2>3
    <3> HIDE DEF after
    <3>3. saver[t].touched = "no" => file = saver[t].expects
      BY <2>1 DEF SaverInv, CheckedIsThere
    <3> QED
      BY <2>1, <3>1, <3>2, <3>3, SaverSteps
  <2> QED
    BY <1>8, <2>2, <2>3 DEF Backup
<1>9. CASE ReplaceFile(t)
  <2>1. saver[t].at = "copied" /\ saver' = [saver EXCEPT ![t].at = "replaced"]
    BY <1>9 DEF ReplaceFile, At
  <2>2. /\ saver'[t].at = "replaced"
        /\ \A u \in Savers \ {t} : saver'[u] = saver[u]
    BY <1>1, <2>1 DEF SaverType
  <2>3. \A u \in Savers \ {t} : saver[u].at \in {"idle", "asked"}
    BY <2>1 DEF SaverInv, OneHolder, Holding
  <2>4. OneHolder'
    BY <2>2, <2>3 DEF OneHolder, Holding
  <2>5. ASSUME NEW u \in Savers PROVE CheckedIsThere(u)'
    BY <2>2, <2>3 DEF CheckedIsThere
  <2> QED
    BY <2>4, <2>5 DEF SaverInv
<1>10. CASE Answer(t)
  BY <1>4, <1>10 DEF Answer
<1> QED
  BY <1>2, <1>5, <1>6, <1>7, <1>8, <1>9, <1>10 DEF Saves

-----------------------------------------------------------------------------
(* Types, step by step.                                                    *)

LEMMA ReplacedTyped ==
  ASSUME ConfigTypes, NEW content \in FileValues, Replaced(content)
  PROVE  file' \in FileValues /\ load' \in LoadType
BY DEF ConfigTypes, Replaced, LoadType

LEMMA OneSaverTyped ==
  ASSUME ConfigTypes, NEW t \in Savers, NEW after \in SaverType, saver' = [saver EXCEPT ![t] = after]
  PROVE  saver' \in [Savers -> SaverType]
BY DEF ConfigTypes

LEMMA SavesTyped == ASSUME ConfigTypes, NEW t \in Savers, Saves(t) PROVE ConfigTypes'
<1>1. saver[t] \in SaverType
  BY DEF ConfigTypes
<1>2. ASSUME NEW place \in {"checked", "written", "rechecked", "replaced"}, At(t, place)
      PROVE  saver' \in [Savers -> SaverType]
  <2>1. [saver[t] EXCEPT !.at = place] \in SaverType
    BY <1>1 DEF SaverType
  <2>2. saver' = [saver EXCEPT ![t] = [saver[t] EXCEPT !.at = place]]
    BY <1>2 DEF At
  <2> QED
    BY <2>1, <2>2, OneSaverTyped
<1>3. Refuse(t) => saver' \in [Savers -> SaverType]
  BY RestingTyped, OneSaverTyped DEF Refuse
<1>4. ASSUME NEW expects \in Good, NEW new \in Good, Ask(t, expects, new) PROVE ConfigTypes'
  <2>1. [Resting EXCEPT !.at = "asked", !.expects = expects, !.new = new] \in SaverType
    BY RestingTyped DEF SaverType, FileValues, Contents
  <2>2. saver' \in [Savers -> SaverType]
    BY <1>4, <2>1, OneSaverTyped DEF Ask
  <2> QED
    BY <1>4, <2>2 DEF Ask, ConfigTypes, reloadVars
<1>5. CheckVersion(t) => ConfigTypes'
  BY <1>2, <1>3 DEF CheckVersion, ConfigTypes, reloadVars
<1>6. ASSUME NEW outcome, WriteTemporary(t, outcome) PROVE ConfigTypes'
  BY <1>2, <1>3, <1>6 DEF WriteTemporary, ConfigTypes, reloadVars
<1>7. CheckAgain(t) => ConfigTypes'
  BY <1>2, <1>3 DEF CheckAgain, ConfigTypes, reloadVars
<1>8. ASSUME NEW outcome, Backup(t, outcome) PROVE ConfigTypes'
  <2>1. [saver[t] EXCEPT !.at = "copied", !.copy = file] \in SaverType
    BY <1>1 DEF SaverType, ConfigTypes
  <2>2. saver' = [saver EXCEPT ![t].at = "copied", ![t].copy = file] =>
          saver' = [saver EXCEPT ![t] = [saver[t] EXCEPT !.at = "copied", !.copy = file]]
    OBVIOUS
  <2>3. saver' \in [Savers -> SaverType]
    BY <1>3, <1>8, <2>1, <2>2, OneSaverTyped DEF Backup
  <2> QED
    BY <1>8, <2>3 DEF Backup, ConfigTypes, reloadVars
<1>9. CASE ReplaceFile(t)
  <2>1. saver' \in [Savers -> SaverType]
    BY <1>2, <1>9 DEF ReplaceFile
  <2>2. saver[t].new \in FileValues
    BY <1>1 DEF SaverType
  <2>3. file' \in FileValues /\ load' \in LoadType
    BY <1>9, <2>2, ReplacedTyped DEF ReplaceFile
  <2> QED
    BY <1>9, <2>1, <2>3 DEF ReplaceFile, ConfigTypes
<1>10. Answer(t) => ConfigTypes'
  BY <1>3 DEF Answer, ConfigTypes, reloadVars
<1> QED
  BY <1>4, <1>5, <1>6, <1>7, <1>8, <1>9, <1>10 DEF Saves

LEMMA EditTyped ==
  ASSUME ConfigTypes, NEW content \in Contents \cup {Absent}, Edit(content) PROVE ConfigTypes'
<1>1. file' \in FileValues /\ load' \in LoadType
  BY ReplacedTyped DEF Edit, FileValues
<1>2. saver' \in [Savers -> SaverType]
  <2>1. \A t \in Savers : /\ saver[t] \in SaverType
                          /\ [saver[t] EXCEPT !.touched = "yes"] \in SaverType
    BY DEF ConfigTypes, SaverType
  <2> QED
    BY <2>1 DEF Edit
<1> QED
  BY <1>1, <1>2 DEF Edit, ConfigTypes

LEMMA NotLoadingTyped == NotLoading \in LoadType /\ [NotLoading EXCEPT !.at = "before"] \in LoadType
BY DEF NotLoading, LoadType, FileValues

LEMMA ReloadsTyped ==
  ASSUME ConfigTypes, Reloads \/ ProbeEnds \/ ReloaderStarts PROVE ConfigTypes'
<1>1. \A message \in {"unavailable", "invalid"} :
        Fails(message) => load' \in LoadType /\ probe' = probe /\ lastError' = message
  BY NotLoadingTyped DEF Fails
<1>2. ASSUME NEW handled, LoadFails(handled)
      PROVE  /\ load' \in LoadType /\ probe' \in {"up", "starting", "down"}
             /\ lastError' \in {"none", "unavailable", "invalid"}
  BY <1>1, <1>2, NotLoadingTyped DEF LoadFails, ConfigTypes
<1>3. Poll => ConfigTypes'
  BY <1>1, NotLoadingTyped DEF Poll, Recovers, ConfigTypes, apiVars
<1>4. CASE ReadBefore
  <2>1. [load EXCEPT !.at = "parse", !.before = file, !.changes = 0] \in LoadType
    <3>1. 0 \in 0..2
      OBVIOUS
    <3> QED
      BY <3>1 DEF ConfigTypes, LoadType
  <2> QED
    BY <1>2, <1>4, <2>1 DEF ReadBefore, ConfigTypes, apiVars
<1>5. CASE Parse
  <2>1. [load EXCEPT !.at = "after", !.engine = file] \in LoadType
    BY DEF ConfigTypes, LoadType
  <2> QED
    BY <1>2, <1>5, <2>1 DEF Parse, ConfigTypes, apiVars
<1>6. ReadAfter => ConfigTypes'
  BY <1>2, NotLoadingTyped DEF ReadAfter, ConfigTypes, apiVars
<1>7. ProbeEnds => ConfigTypes'
  BY NotLoadingTyped DEF ProbeEnds, ConfigTypes, apiVars
<1>8. ReloaderStarts => ConfigTypes'
  BY NotLoadingTyped DEF ReloaderStarts, ConfigTypes, apiVars
<1> QED
  BY <1>3, <1>4, <1>5, <1>6, <1>7, <1>8 DEF Reloads

LEMMA DeathTyped == ASSUME ConfigTypes, ApiDies \/ UNCHANGED configVars PROVE ConfigTypes'
BY RestingTyped DEF ApiDies, ConfigTypes, reloadVars, configVars

-----------------------------------------------------------------------------
(* The invariant of the savers.                                            *)

LEMMA InitSaverInv == ASSUME ConfigInit PROVE SaverInv
<1>1. /\ saver \in [Savers -> SaverType] /\ load \in LoadType
      /\ \A t \in Savers : saver[t].at = "idle"
  BY RestingTyped, NotLoadingTyped DEF ConfigInit, Resting
<1>2. file \in FileValues
  BY DEF ConfigInit, FileValues, Contents
<1> QED
  BY <1>1, <1>2 DEF ConfigInit, SaverInv, ConfigTypes, OneHolder, Holding, CheckedIsThere

\* An editor that replaces the file leaves no untouched copy behind.
LEMMA EditKeepsSavers ==
  ASSUME SaverInv, ConfigTypes', NEW content, Edit(content) PROVE SaverInv'
<1>1. \A t \in Savers :
        /\ saver'[t].at = saver[t].at
        /\ saver[t].at \in {"rechecked", "copied"} => saver'[t].touched = "yes"
  BY DEF Edit, SaverInv, ConfigTypes, SaverType
<1> QED
  BY <1>1 DEF SaverInv, OneHolder, Holding, CheckedIsThere

LEMMA StepSaverInv == ASSUME SaverInv, [ConfigNext]_configVars PROVE SaverInv'
<1>1. ConfigTypes' /\ ConfigTypes
  BY SavesTyped, EditTyped, ReloadsTyped, DeathTyped DEF ConfigNext, SaverInv
<1>2. CASE \E t \in Savers : Saves(t)
  BY <1>1, <1>2, SavesKeepSavers
<1>3. CASE \E content \in Contents \cup {Absent} : Edit(content)
  BY <1>1, <1>3, EditKeepsSavers
<1>4. CASE ApiDies
  <2>1. \A t \in Savers : saver'[t].at = "idle"
    BY <1>4 DEF ApiDies, Resting
  <2> QED
    BY <1>1, <2>1 DEF SaverInv, OneHolder, Holding, CheckedIsThere
<1>5. CASE Reloads \/ ProbeEnds \/ ReloaderStarts \/ UNCHANGED configVars
  <2>1. UNCHANGED <<file, saver>>
    BY <1>5 DEF Reloads, Poll, ReadBefore, Parse, ReadAfter, ProbeEnds, ReloaderStarts, configVars, apiVars
  <2> QED
    BY <1>1, <2>1 DEF SaverInv, OneHolder, Holding, CheckedIsThere
<1> QED
  BY <1>2, <1>3, <1>4, <1>5 DEF ConfigNext

LEMMA SaverInvHolds == ConfigSpec => []SaverInv
BY InitSaverInv, StepSaverInv, PTL DEF ConfigSpec

\* Whoever saves, edits or dies: a save replaces the version its caller saw
\* and leaves a copy of it, unless an editor outside came between.
THEOREM SavesAreAtomicHolds == ConfigSpec => SavesAreAtomic
<1>1. SaverInv => [\A t \in Savers :
        saver[t].at = "copied" /\ saver'[t].at = "replaced" /\ saver[t].touched = "no" =>
          /\ file = saver[t].expects
          /\ saver[t].copy = file]_configVars
  BY DEF SaverInv, CheckedIsThere
<1> QED
  BY <1>1, SaverInvHolds, PTL DEF SavesAreAtomic

-----------------------------------------------------------------------------
(* The reloader: how often the file changed during a load decides what its  *)
(* two digests can have missed.                                            *)

LoadIsJudged ==
  /\ load.at = "parse" /\ load.changes = 0 => file = load.before
  /\ load.at = "after" =>
       /\ load.changes = 0 => file = load.before /\ load.engine = file
       /\ load.changes = 1 => load.engine \in {load.before, file}

EngineIsNamed == mixed = "no" => engine = version

ReloadInv == ConfigTypes /\ LoadIsJudged /\ EngineIsNamed /\ lastReported = lastError /\ ReportIsStatus

LEMMA InitReloadInv == ASSUME ConfigInit PROVE ReloadInv
<1>1. ConfigTypes
  BY InitSaverInv DEF SaverInv
<1> QED
  BY <1>1 DEF ConfigInit, ReloadInv, LoadIsJudged, EngineIsNamed, ReportIsStatus, NotLoading

LEMMA ReplacedIsJudged ==
  ASSUME ReloadInv, NEW content, Replaced(content) PROVE LoadIsJudged'
<1>1. load \in LoadType
  BY DEF ReloadInv, ConfigTypes
<1>2. CASE load.at = "no" \/ load.changes = 2
  BY <1>2 DEF Replaced, LoadIsJudged
<1>3. CASE ~(load.at = "no" \/ load.changes = 2)
  <2>1. /\ load'.at = load.at /\ load'.changes = load.changes + 1
        /\ load'.before = load.before /\ load'.engine = load.engine
    BY <1>1, <1>3 DEF Replaced, LoadType
  <2>2. load.changes \in {0, 1}
    BY <1>1, <1>3 DEF LoadType
  <2> QED
    BY <2>1, <2>2 DEF ReloadInv, LoadIsJudged
<1> QED
  BY <1>2, <1>3

LEMMA FailsKeeps ==
  ASSUME ReloadInv, ConfigTypes', NEW message \in {"unavailable", "invalid"}, probe = "up",
         Fails(message)
  PROVE  ReloadInv'
BY DEF Fails, ReloadInv, LoadIsJudged, EngineIsNamed, ReportIsStatus, NotLoading

LEMMA LoadFailsKeeps ==
  ASSUME ReloadInv, ConfigTypes', NEW handled \in BOOLEAN, LoadFails(handled) PROVE ReloadInv'
<1>1. CASE probe = "up" /\ handled
  BY <1>1, FailsKeeps DEF LoadFails
<1>2. CASE ~(probe = "up" /\ handled)
  BY <1>2 DEF LoadFails, ReloadInv, LoadIsJudged, EngineIsNamed, ReportIsStatus, NotLoading
<1> QED
  BY <1>1, <1>2

LEMMA ReloadsKeep ==
  ASSUME ReloadInv, ConfigTypes', Reloads \/ ProbeEnds \/ ReloaderStarts PROVE ReloadInv'
<1>1. load \in LoadType
  BY DEF ReloadInv, ConfigTypes
<1>2. CASE Poll
  <2>1. CASE Recovers
    BY <1>2, <2>1 DEF Poll, Recovers, ReloadInv, LoadIsJudged, EngineIsNamed, ReportIsStatus, apiVars
  <2>2. CASE Fails("unavailable")
    BY <1>2, <2>2, FailsKeeps DEF Poll
  <2>3. CASE /\ load' = [NotLoading EXCEPT !.at = "before"]
             /\ UNCHANGED <<probe, engine, version, lastError, lastReported, report, mixed>>
    BY <2>3 DEF ReloadInv, LoadIsJudged, EngineIsNamed, ReportIsStatus, NotLoading
  <2> QED
    BY <1>2, <2>1, <2>2, <2>3 DEF Poll
<1>3. CASE ReadBefore
  <2>1. CASE file = Absent
    BY <1>3, <2>1, LoadFailsKeeps DEF ReadBefore
  <2>2. CASE file # Absent
    <3>1. load' = [load EXCEPT !.at = "parse", !.before = file, !.changes = 0] /\ UNCHANGED file
      BY <1>3, <2>2 DEF ReadBefore
    <3>2. load'.at = "parse" /\ load'.before = file
      BY <1>1, <3>1 DEF LoadType
    <3> QED
      BY <1>3, <2>2, <3>1, <3>2 DEF ReadBefore, ReloadInv, LoadIsJudged, EngineIsNamed, ReportIsStatus
  <2> QED
    BY <2>1, <2>2
<1>4. CASE Parse
  <2>1. CASE file \notin Good
    BY <1>4, <2>1, LoadFailsKeeps DEF Parse
  <2>2. CASE file \in Good
    <3>1. load' = [load EXCEPT !.at = "after", !.engine = file] /\ UNCHANGED file
      BY <1>4, <2>2 DEF Parse, apiVars
    <3>2. /\ load'.at = "after" /\ load'.before = load.before /\ load'.engine = file
          /\ load'.changes = load.changes
      BY <1>1, <3>1 DEF LoadType
    <3> QED
      BY <1>4, <2>2, <3>1, <3>2 DEF Parse, ReloadInv, LoadIsJudged, EngineIsNamed, ReportIsStatus
  <2> QED
    BY <2>1, <2>2
<1>5. CASE ReadAfter
  <2>1. CASE ~SameVersion
    BY <1>5, <2>1, LoadFailsKeeps DEF ReadAfter
  <2>2. CASE SameVersion
    <3>1. load.changes # 2 => load.engine = file
      BY <1>1, <1>5, <2>2 DEF ReadAfter, SameVersion, ReloadInv, LoadIsJudged, LoadType
    <3> QED
      BY <1>5, <2>2, <3>1 DEF ReadAfter, ReloadInv, LoadIsJudged, EngineIsNamed, ReportIsStatus, NotLoading
  <2> QED
    BY <2>1, <2>2
<1>6. CASE ProbeEnds \/ ReloaderStarts
  BY <1>6 DEF ProbeEnds, ReloaderStarts, ReloadInv, LoadIsJudged, EngineIsNamed, ReportIsStatus, NotLoading
<1> QED
  BY <1>2, <1>3, <1>4, <1>5, <1>6 DEF Reloads

LEMMA StepReloadInv == ASSUME ReloadInv, [ConfigNext]_configVars PROVE ReloadInv'
<1>1. ConfigTypes'
  BY SavesTyped, EditTyped, ReloadsTyped, DeathTyped DEF ConfigNext, ReloadInv
<1>2. ASSUME NEW content, Replaced(content),
             UNCHANGED <<probe, engine, version, lastError, lastReported, report, mixed>>
      PROVE  ReloadInv'
  BY <1>1, <1>2, ReplacedIsJudged DEF ReloadInv, EngineIsNamed, ReportIsStatus
<1>3. CASE UNCHANGED <<file, reloadVars>>
  BY <1>1, <1>3 DEF ReloadInv, LoadIsJudged, EngineIsNamed, ReportIsStatus, reloadVars
<1>4. CASE \E t \in Savers : Saves(t)
  BY <1>2, <1>3, <1>4 DEF Saves, Ask, CheckVersion, WriteTemporary, CheckAgain, Backup, ReplaceFile, Answer
<1>5. CASE \E content \in Contents \cup {Absent} : Edit(content)
  BY <1>2, <1>5 DEF Edit
<1>6. CASE ApiDies \/ UNCHANGED configVars
  BY <1>3, <1>6 DEF ApiDies, configVars, reloadVars
<1> QED
  BY <1>1, <1>4, <1>5, <1>6, ReloadsKeep DEF ConfigNext

\* However saves, edits, loads and restarts alternate: the zones in force are
\* those of the version that is named, but for a file put back during the
\* load, and the last report is what holds.
THEOREM EngineIsKnownHolds == ConfigSpec => []EngineIsKnown
<1>1. ReloadInv => EngineIsKnown
  BY DEF ReloadInv, EngineIsKnown, EngineIsItsVersion, EngineIsNamed
<1>2. ConfigSpec => []ReloadInv
  BY InitReloadInv, StepReloadInv, PTL DEF ConfigSpec
<1> QED
  BY <1>1, <1>2, PTL

-----------------------------------------------------------------------------
(* The records of the vision process                                       *)

Visible == 0..MaxVisible
StockType == [stable : Visible, candidate : 0..NoImage, frames : Nat]
WatchType == [frames : Nat, alerted : {"yes", "no"}, last : Visible]
FrameType == [seen : Counts, stable : Counts, people : 0..1]
Records == [life : Nat, event : Events]

EnginesOK ==
  /\ stock \in [Classes -> StockType] /\ watch \in [Classes -> WatchType]
  /\ presentFrames \in Nat /\ scene \in Counts /\ recent \in Seq(FrameType)

FilesOK ==
  /\ checkpoint \in [Classes -> 0..Torn]
  /\ lines \in Seq(Records) /\ rows \in Seq(Records)
  /\ published \in [life : Nat, counts : Counts]

LoopOK ==
  /\ pending \in Seq(Events) /\ life \in Nat \ {0}
  /\ step \in {"capture", "checkpoint", "evidence", "line", "row", "publish", "down"}
  /\ step \in {"evidence", "line", "row"} => pending # <<>>
  /\ step \in {"capture", "publish"} => pending = <<>>

ProbeTypes == EnginesOK /\ FilesOK /\ LoopOK

LEMMA Constants ==
  /\ MaxVisible \in Nat /\ NoImage = MaxVisible + 1 /\ NoCandidate = NoImage /\ Torn = MaxVisible + 2
  /\ AppearConfirm \in Nat \ {0} /\ RemoveConfirm \in Nat \ {0}
  /\ LeftConfirm \in Nat \ {0} /\ RearmPeople \in Nat \ {0}
BY InventoryAssumption DEF NoImage, NoCandidate, Torn

\* One frame of the engines.
LEMMA StockedTyped ==
  ASSUME NEW s \in StockType, NEW count \in Visible
  PROVE  Stocked(s, count) \in StockType
<1>1. FramesOf(s, count) \in Nat
  BY DEF FramesOf, StockType
<1>2. PICK n \in Nat : n = FramesOf(s, count)
  BY <1>1
<1>3. count \in 0..NoImage /\ NoCandidate \in 0..NoImage
  BY Constants DEF Visible
<1>4. [stable |-> count, candidate |-> NoCandidate, frames |-> 0] \in StockType
  BY <1>3 DEF StockType
<1>5. [s EXCEPT !.candidate = count, !.frames = n] \in StockType
  BY <1>3 DEF StockType
<1> QED
  BY <1>2, <1>4, <1>5 DEF Stocked

LEMMA WatchedTyped ==
  ASSUME NEW w \in WatchType, NEW count \in Visible, NEW n
  PROVE  Attended(w, count, n) \in WatchType /\ Unattended(w, count) \in WatchType
<1>1. Fresh(w, count) \in WatchType
  BY DEF Fresh, WatchType
<1>2. Attended(w, count, n) \in WatchType
  BY DEF Attended, WatchType
<1>3. Watchless \in WatchType
  BY Constants DEF Watchless, WatchType, Visible
<1>4. PICK f \in WatchType : f = Fresh(w, count)
  BY <1>1
<1>5. PICK a \in {"yes", "no"} : a = IF Alarms(w, count) THEN "yes" ELSE "no"
  OBVIOUS
<1>6. PICK k \in Nat : k = f.frames + 1
  BY <1>4 DEF WatchType
<1>7. [f EXCEPT !.frames = k, !.alerted = a] \in WatchType
  BY <1>4, <1>5, <1>6 DEF WatchType
<1>8. Unattended(w, count) \in {Watchless, f, [f EXCEPT !.frames = k, !.alerted = a]}
  BY <1>4, <1>5, <1>6 DEF Unattended
<1> QED
  BY <1>2, <1>3, <1>4, <1>7, <1>8

\* The events of a frame are in some order, each once.
LEMMA OrderedOnce ==
  ASSUME NEW S, IsFiniteSet(S)
  PROVE  /\ SetToSeq(S) \in [1..Cardinality(S) -> S] /\ Cardinality(S) \in Nat
         /\ \A i, j \in 1..Cardinality(S) : SetToSeq(S)[i] = SetToSeq(S)[j] => i = j
         /\ \A e \in S : \E i \in 1..Cardinality(S) : SetToSeq(S)[i] = e
<1>1. Cardinality(S) \in Nat
  BY FS_CardinalityType
<1>2. ExistsBijection(1..Cardinality(S), S)
  BY FS_CardinalityType
<1>3. PICK f \in Bijection(1..Cardinality(S), S) : TRUE
  BY <1>2 DEF ExistsBijection
<1>4. f \in [1..Cardinality(S) -> S] /\ IsInjective(f)
  BY <1>3, Fun_BijectionProperties DEF Bijection, Injection
<1>5. SetToSeq(S) \in [1..Cardinality(S) -> S] /\ IsInjective(SetToSeq(S))
  BY <1>4 DEF SetToSeq
<1>6. SetToSeq(S) \in Injection(1..Cardinality(S), S)
  BY <1>5 DEF Injection
<1>7. Cardinality(1..Cardinality(S)) = Cardinality(S)
  BY <1>1, FS_Interval
<1>8. SetToSeq(S) \in Surjection(1..Cardinality(S), S)
  BY <1>6, <1>7, FS_Injection
<1> QED
  BY <1>1, <1>5, <1>8 DEF IsInjective, Surjection

LEMMA ClassSubsets == \A D \in SUBSET Classes : IsFiniteSet(D)
BY FS_Subset, ProbeAssumption

LEMMA CountsTyped ==
  ASSUME ProbeTypes, NEW seen \in Counts
  PROVE  /\ [c \in Classes |-> Stocked(stock[c], seen[c])] \in [Classes -> StockType]
         /\ Stable([c \in Classes |-> Stocked(stock[c], seen[c])]) \in Counts
<1>1. \A c \in Classes : Stocked(stock[c], seen[c]) \in StockType
  BY StockedTyped DEF ProbeTypes, EnginesOK, Counts, Visible
<1>2. \A c \in Classes : Stocked(stock[c], seen[c]).stable \in 0..MaxVisible
  BY <1>1 DEF StockType, Visible
<1> QED
  BY <1>1, <1>2 DEF Stable, Counts

\* The changes of some classes, or their alarms, in some order.
OneEach(f) == DOMAIN f \in SUBSET Classes /\ \A c \in DOMAIN f : f[c] \in Events /\ f[c].class = c

EachIs(S, f) == \A e : e \in S <=> \E c \in DOMAIN f : e = f[c]

InOrder(told, f) ==
  /\ told \in Seq(Events)
  /\ \A i \in DOMAIN told : told[i].class \in DOMAIN f /\ told[i] = f[told[i].class]
  /\ \A i, j \in DOMAIN told : told[i].class = told[j].class => i = j
  /\ \A c \in DOMAIN f : \E i \in DOMAIN told : told[i] = f[c]

LEMMA EventsInOrder ==
  ASSUME NEW D, NEW f, f = [c \in D |-> f[c]], OneEach(f), NEW S, EachIs(S, f)
  PROVE  InOrder(SetToSeq(S), f)
<1> PICK told : told = SetToSeq(S)
  OBVIOUS
<1>0. /\ DOMAIN f = D /\ D \in SUBSET Classes /\ f \in [D -> Events]
      /\ \A c \in D : f[c].class = c
      /\ \A e : e \in S <=> \E c \in D : e = f[c]
  BY DEF OneEach, EachIs
<1>1. IsFiniteSet(S)
  <2>1. f \in Surjection(D, S)
    <3>1. f \in [D -> S] /\ \A e \in S : \E c \in D : e = f[c]
      BY <1>0
    <3> QED
      BY <3>1 DEF Surjection
  <2> QED
    BY <1>0, <2>1, ClassSubsets, FS_Surjection
<1>3. PICK n \in Nat : n = Cardinality(S)
  BY <1>1, OrderedOnce
<1>4. /\ told \in [1..n -> S]
      /\ \A i, j \in 1..n : told[i] = told[j] => i = j
      /\ \A e \in S : \E i \in 1..n : told[i] = e
  BY <1>1, <1>3, OrderedOnce
<1>5. \A i \in 1..n : \E c \in D : told[i] = f[c]
  BY <1>0, <1>4
<1>6. DOMAIN told = 1..n /\ told \in [1..n -> Events]
  BY <1>0, <1>4, <1>5
<1>7. told \in Seq(Events)
  BY <1>6, SeqDef
<1>8. \A i \in 1..n : told[i].class \in D /\ told[i] = f[told[i].class]
  BY <1>0, <1>5
<1>9. \A i, j \in 1..n : told[i].class = told[j].class => i = j
  BY <1>4, <1>8
<1>10. \A c \in D : \E i \in 1..n : told[i] = f[c]
  BY <1>0, <1>4
<1> QED
  BY <1>0, <1>6, <1>7, <1>8, <1>9, <1>10 DEF InOrder

LEMMA ChangeTyped ==
  ASSUME NEW c \in Classes, NEW s \in StockType, NEW count \in Visible
  PROVE  /\ Change(c, s, count) \in Events /\ Change(c, s, count).class = c
         /\ Alarm(c, count) \in Events /\ Alarm(c, count).class = c
BY Constants DEF Change, Alarm, Events, StockType, Visible

LEMMA StockEventsAre ==
  ASSUME ProbeTypes, NEW seen \in Counts, NEW told, told = StockEvents(seen)
  PROVE  /\ told \in Seq(Events)
         /\ \A i, j \in DOMAIN told : told[i].class = told[j].class => i = j
         /\ \A i \in DOMAIN told : \E c \in Classes :
              Confirmed(stock[c], seen[c]) /\ told[i] = Change(c, stock[c], seen[c])
         /\ \A c \in Classes : Confirmed(stock[c], seen[c]) =>
              \E i \in DOMAIN told : told[i] = Change(c, stock[c], seen[c])
<1> DEFINE D == {d \in Classes : Confirmed(stock[d], seen[d])}
           f == [c \in D |-> Change(c, stock[c], seen[c])]
<1>1. \A c \in D : Change(c, stock[c], seen[c]) \in Events /\ Change(c, stock[c], seen[c]).class = c
  BY ChangeTyped DEF ProbeTypes, EnginesOK, Counts, Visible
<1>2. OneEach(f) /\ f = [c \in D |-> f[c]] /\ DOMAIN f = D
  BY <1>1 DEF OneEach
<1>3. PICK S : S = {Change(c, stock[c], seen[c]) : c \in D}
  OBVIOUS
<1>4. told = SetToSeq(S) /\ EachIs(S, f)
  BY <1>3 DEF StockEvents, EachIs
<1>5. /\ told \in Seq(Events)
      /\ \A i \in DOMAIN told : told[i].class \in D /\ told[i] = f[told[i].class]
      /\ \A i, j \in DOMAIN told : told[i].class = told[j].class => i = j
      /\ \A c \in D : \E i \in DOMAIN told : told[i] = f[c]
  <2> HIDE DEF f, D
  <2>1. InOrder(told, f)
    BY <1>2, <1>4, EventsInOrder
  <2> QED
    BY <1>2, <2>1 DEF InOrder
<1>6. \A c \in D : f[c] = Change(c, stock[c], seen[c])
  OBVIOUS
<1>7. \A c : c \in D <=> c \in Classes /\ Confirmed(stock[c], seen[c])
  OBVIOUS
<1> HIDE DEF f, D
<1> QED
  BY <1>5, <1>6, <1>7

LEMMA AlarmEventsAre ==
  ASSUME ProbeTypes, NEW counts \in Counts, NEW crowd \in 0..1,
         NEW told, told = AlarmEvents(counts, crowd)
  PROVE  /\ told \in Seq(Events)
         /\ \A i \in DOMAIN told :
              /\ crowd = 0 /\ told[i].kind = "OBJECT_LEFT_BEHIND"
              /\ told[i].class \in Classes /\ Alarms(watch[told[i].class], counts[told[i].class])
              /\ told[i] = Alarm(told[i].class, counts[told[i].class])
         /\ crowd = 0 => \A c \in Classes : Alarms(watch[c], counts[c]) =>
              \E i \in DOMAIN told : told[i].class = c
<1>1. CASE crowd > 0
  <2>1. told = <<>>
    BY <1>1 DEF AlarmEvents
  <2> QED
    BY <1>1, <2>1
<1>2. CASE crowd = 0
  <2> DEFINE D == {d \in Classes : Alarms(watch[d], counts[d])}
             f == [c \in D |-> Alarm(c, counts[c])]
  <2>1. \A c \in D : Alarm(c, counts[c]) \in Events /\ Alarm(c, counts[c]).class = c
    BY ChangeTyped DEF ProbeTypes, EnginesOK, Counts, Visible
  <2>2. OneEach(f) /\ f = [c \in D |-> f[c]] /\ DOMAIN f = D
    BY <2>1 DEF OneEach
  <2>3. PICK S : S = {Alarm(c, counts[c]) : c \in D}
    OBVIOUS
  <2>4. told = SetToSeq(S) /\ EachIs(S, f)
    BY <1>2, <2>3 DEF AlarmEvents, EachIs
  <2>5. /\ told \in Seq(Events)
        /\ \A i \in DOMAIN told : told[i].class \in D /\ told[i] = f[told[i].class]
        /\ \A c \in D : \E i \in DOMAIN told : told[i] = f[c]
    <3> HIDE DEF f, D
    <3>1. InOrder(told, f)
      BY <2>2, <2>4, EventsInOrder
    <3> QED
      BY <2>2, <3>1 DEF InOrder
  <2>6. \A c \in D : f[c].kind = "OBJECT_LEFT_BEHIND" /\ f[c] = Alarm(c, counts[c])
    BY DEF Alarm
  <2>7. \A i \in DOMAIN told : /\ told[i].kind = "OBJECT_LEFT_BEHIND"
                               /\ told[i] = Alarm(told[i].class, counts[told[i].class])
    <3> HIDE DEF f, D
    <3> QED
      BY <2>5, <2>6
  <2>8. \A c \in D : \E i \in DOMAIN told : told[i].class = c
    <3> HIDE DEF f, D
    <3> QED
      BY <2>2, <2>5 DEF OneEach
  <2> QED
    BY <1>2, <2>5, <2>7, <2>8
<1> QED
  BY <1>1, <1>2

-----------------------------------------------------------------------------
\* The types.
LEMMA SpanIs ==
  /\ Span \in Nat \ {0} /\ Span >= AppearConfirm /\ Span >= RemoveConfirm /\ Span >= LeftConfirm
  /\ Span \in {AppearConfirm, RemoveConfirm, LeftConfirm}
<1>1. \E n \in {AppearConfirm, RemoveConfirm, LeftConfirm} :
        \A m \in {AppearConfirm, RemoveConfirm, LeftConfirm} : m <= n
  BY Constants
<1>2. /\ Span \in {AppearConfirm, RemoveConfirm, LeftConfirm}
      /\ \A m \in {AppearConfirm, RemoveConfirm, LeftConfirm} : m <= Span
  BY <1>1 DEF Span
<1> QED
  BY <1>2, Constants

\* The last frames when one more is seen.
Shifted(frame) ==
  SubSeq(<<frame>> \o recent, 1, IF Len(recent) < Span THEN Len(recent) + 1 ELSE Span)

LEMMA ShiftedIs ==
  ASSUME recent \in Seq(FrameType), Len(recent) <= Span, NEW frame \in FrameType
  PROVE  /\ Shifted(frame) \in Seq(FrameType) /\ Len(Shifted(frame)) <= Span
         /\ Len(Shifted(frame)) = (IF Len(recent) < Span THEN Len(recent) + 1 ELSE Span)
         /\ Shifted(frame)[1] = frame
         /\ \A j \in 2..Len(Shifted(frame)) : Shifted(frame)[j] = recent[j - 1]
<1> PICK n : n = IF Len(recent) < Span THEN Len(recent) + 1 ELSE Span
  OBVIOUS
<1>1. n \in 1..Len(recent) + 1 /\ n <= Span
  BY SpanIs
<1>2. PICK s : s = <<frame>> \o recent
  OBVIOUS
<1>3. /\ s \in Seq(FrameType) /\ Len(s) = Len(recent) + 1 /\ s[1] = frame
      /\ \A j \in 2..Len(s) : s[j] = recent[j - 1]
  BY <1>2
<1>4. Shifted(frame) = SubSeq(s, 1, n)
  BY <1>2 DEF Shifted
<1>5. PICK z : z = SubSeq(s, 1, n)
  OBVIOUS
<1>6. z \in Seq(FrameType) /\ Len(z) = n /\ \A j \in 1..n : z[j] = s[j]
  BY <1>1, <1>3, <1>5
<1> QED
  BY <1>1, <1>3, <1>4, <1>5, <1>6

LEMMA WindowSize == ProbeTypes /\ Len(recent) <= Span /\ [ProbeNext]_probeVars => Len(recent') <= Span
<1> SUFFICES ASSUME ProbeTypes, Len(recent) <= Span, [ProbeNext]_probeVars
             PROVE  Len(recent') <= Span
  OBVIOUS
<1>1. CASE \E seen \in Counts, n \in 0..1 : Capture(seen, n)
  <2>1. PICK seen \in Counts, n \in 0..1 : Capture(seen, n)
    BY <1>1
  <2>2. PICK counts : /\ counts = Stable([c \in Classes |-> Stocked(stock[c], seen[c])])
                      /\ recent' = Shifted([seen |-> seen, stable |-> counts, people |-> n])
    BY <2>1 DEF Capture, Shifted
  <2>3. [seen |-> seen, stable |-> counts, people |-> n] \in FrameType
    BY <2>2, CountsTyped DEF FrameType
  <2> QED
    BY <2>2, <2>3, ShiftedIs DEF ProbeTypes, EnginesOK
<1>2. CASE ProbeStarts
  BY <1>2, SpanIs DEF ProbeStarts
<1>3. CASE UNCHANGED recent
  BY <1>3
<1> QED
  BY <1>1, <1>2, <1>3 DEF ProbeNext, probeVars, engineVars, Checkpoint, SaveEvidence, AppendLine,
     AppendRow, Publish, SkipPublish, ProbeDies

\* What Capture makes of the engines, of one frame and its events.
LEMMA CaptureIs ==
  ASSUME NEW seen \in Counts, NEW n \in 0..1, Capture(seen, n), NEW next, NEW counts,
         next = [c \in Classes |-> Stocked(stock[c], seen[c])], counts = Stable(next)
  PROVE  /\ step = "capture" /\ step' = "checkpoint"
         /\ pending' = StockEvents(seen) \o AlarmEvents(counts, n)
         /\ stock' = next /\ watch' = Watched(counts, n) /\ scene' = seen
         /\ excused' = Excuses(counts, n, AlarmEvents(counts, n))
         /\ recent' = Shifted([seen |-> seen, stable |-> counts, people |-> n])
         /\ presentFrames' = PresentFrames(n)
         /\ UNCHANGED <<fileVars, life>>
BY DEF Capture, Shifted

LEMMA PresentFramesTyped ==
  ASSUME ProbeTypes, NEW n \in 0..1
  PROVE  PresentFrames(n) \in Nat
BY Constants DEF PresentFrames, ProbeTypes, EnginesOK

LEMMA WatchedIsTyped ==
  ASSUME ProbeTypes, NEW counts \in Counts, NEW n \in 0..1
  PROVE  Watched(counts, n) \in [Classes -> WatchType]
BY WatchedTyped DEF Watched, ProbeTypes, EnginesOK, Counts, Visible

LEMMA CaptureTyped ==
  ASSUME ProbeTypes, Len(recent) <= Span, NEW seen \in Counts, NEW n \in 0..1, Capture(seen, n)
  PROVE  ProbeTypes'
<1>1. PICK next, counts : /\ next = [c \in Classes |-> Stocked(stock[c], seen[c])]
                          /\ counts = Stable(next)
  OBVIOUS
<1>2. next \in [Classes -> StockType] /\ counts \in Counts
  BY <1>1, CountsTyped
<1>3. [seen |-> seen, stable |-> counts, people |-> n] \in FrameType
  BY <1>2 DEF FrameType
<1>4. StockEvents(seen) \in Seq(Events)
  BY StockEventsAre
<1>5. AlarmEvents(counts, n) \in Seq(Events)
  BY <1>2, AlarmEventsAre
<1>6. EnginesOK'
  <2>1. recent' \in Seq(FrameType)
    <3>1. PICK frame \in FrameType : frame = [seen |-> seen, stable |-> counts, people |-> n]
      BY <1>3
    <3>2. recent' = Shifted(frame)
      BY <1>1, <3>1, CaptureIs
    <3>3. recent \in Seq(FrameType)
      BY DEF ProbeTypes, EnginesOK
    <3> QED
      BY <3>2, <3>3, ShiftedIs
  <2>2. stock' \in [Classes -> StockType] /\ scene' \in Counts
    BY <1>1, <1>2, CaptureIs
  <2>3. watch' \in [Classes -> WatchType] /\ presentFrames' \in Nat
    <3>1. watch' = Watched(counts, n) /\ presentFrames' = PresentFrames(n)
      BY <1>1, CaptureIs
    <3> QED
      BY <1>2, <3>1, WatchedIsTyped, PresentFramesTyped
  <2> QED
    BY <2>1, <2>2, <2>3 DEF EnginesOK
<1>7. FilesOK'
  <2>1. UNCHANGED <<checkpoint, lines, rows, published>>
    BY DEF Capture, fileVars
  <2> QED
    BY <2>1 DEF ProbeTypes, FilesOK
<1>8. LoopOK'
  <2>1. pending' \in Seq(Events) /\ step' = "checkpoint" /\ life' = life
    <3>1. PICK a \in Seq(Events), b \in Seq(Events) : a = StockEvents(seen) /\ b = AlarmEvents(counts, n)
      BY <1>4, <1>5
    <3>2. pending' = a \o b /\ step' = "checkpoint" /\ life' = life
      BY <1>1, <3>1, CaptureIs
    <3> QED
      BY <3>1, <3>2
  <2> QED
    BY <2>1 DEF ProbeTypes, LoopOK
<1> QED
  BY <1>6, <1>7, <1>8 DEF ProbeTypes

LEMMA CheckpointTyped ==
  ASSUME ProbeTypes, NEW saved \in SUBSET Classes, NEW broken \in SUBSET Classes,
         Checkpoint(saved, broken)
  PROVE  ProbeTypes'
<1>1. \A c \in Classes : scene[c] \in 0..Torn /\ Torn \in 0..Torn
  BY Constants DEF ProbeTypes, EnginesOK, Counts
<1>2. checkpoint' \in [Classes -> 0..Torn]
  BY <1>1 DEF Checkpoint, ProbeTypes, FilesOK
<1> QED
  BY <1>2 DEF Checkpoint, ProbeTypes, EnginesOK, FilesOK, LoopOK

LEMMA IllustratedTyped ==
  ASSUME ProbeTypes, NEW e \in Events, NEW outcome
  PROVE  /\ Illustrated(e, outcome) \in Events
         /\ Illustrated(e, outcome).class = e.class /\ Illustrated(e, outcome).kind = e.kind
         /\ Illustrated(e, outcome).before = e.before /\ Illustrated(e, outcome).after = e.after
         /\ Illustrated(e, outcome).shown \in {e.shown, checkpoint[e.class]}
<1>1. PICK n \in 0..Torn : n = checkpoint[e.class]
  BY DEF ProbeTypes, FilesOK, Events
<1> QED
  BY <1>1 DEF Illustrated, Events

LEMMA EvidenceTyped ==
  ASSUME ProbeTypes, NEW outcome, SaveEvidence(outcome)
  PROVE  /\ ProbeTypes'
         /\ pending # <<>> /\ Len(pending') = Len(pending)
         /\ pending'[1] = Illustrated(pending[1], outcome)
         /\ \A i \in DOMAIN pending : i # 1 => pending'[i] = pending[i]
<1>1. pending \in Seq(Events) /\ pending # <<>> /\ pending[1] \in Events
  BY DEF SaveEvidence, ProbeTypes, LoopOK
<1>2. PICK e \in Events : e = Illustrated(pending[1], outcome)
  BY <1>1, IllustratedTyped
<1>3. pending' = [pending EXCEPT ![1] = e]
  BY <1>2 DEF SaveEvidence
<1>4. /\ pending' \in Seq(Events) /\ pending' # <<>> /\ Len(pending') = Len(pending)
      /\ pending'[1] = e /\ \A i \in DOMAIN pending : i # 1 => pending'[i] = pending[i]
  BY <1>1, <1>3
<1> QED
  BY <1>1, <1>2, <1>4 DEF SaveEvidence, engineVars, fileVars, ProbeTypes, EnginesOK, FilesOK, LoopOK

LEMMA AppendTyped ==
  ASSUME ProbeTypes,
         \E outcome \in {"appended", "raises"} :
           (\E kept \in {"kept", "part", "lost"} : AppendLine(outcome, kept)) \/ AppendRow(outcome)
  PROVE  ProbeTypes'
<1>1. /\ pending \in Seq(Events) /\ pending # <<>> /\ life \in Nat
      /\ lines \in Seq(Records) /\ rows \in Seq(Records)
  BY DEF AppendLine, AppendRow, ProbeTypes, LoopOK, FilesOK
<1>2. Head(pending) \in Events /\ Tail(pending) \in Seq(Events)
  BY <1>1
<1>3. PICK r \in Records : r = Record(Head(pending))
  BY <1>1, <1>2 DEF Record, Records
<1>4. Append(lines, r) \in Seq(Records) /\ Append(rows, r) \in Seq(Records)
  BY <1>1
<1>5. /\ lines' \in Seq(Records) /\ rows' \in Seq(Records)
      /\ UNCHANGED <<engineVars, checkpoint, published, life>>
  BY <1>1, <1>3, <1>4 DEF AppendLine, AppendRow
<1>6. LoopOK'
  <2>1. CASE step = "line" /\ pending' = pending /\ step' \in {"row", "down"}
    BY <1>1, <1>5, <2>1 DEF ProbeTypes, LoopOK
  <2>2. CASE pending' = Tail(pending)
             /\ (step' = "down" \/ (step' = "publish" /\ Tail(pending) = <<>>)
                  \/ (step' = "evidence" /\ Tail(pending) # <<>>))
    BY <1>2, <1>5, <2>2 DEF ProbeTypes, LoopOK
  <2> QED
    BY <2>1, <2>2 DEF AppendLine, AppendRow, Ends
<1> QED
  BY <1>5, <1>6 DEF engineVars, ProbeTypes, EnginesOK, FilesOK

LEMMA PublishTyped ==
  ASSUME ProbeTypes, (\E outcome \in {"appended", "raises"} : Publish(outcome)) \/ SkipPublish
  PROVE  ProbeTypes'
<1>1. Stable(stock) \in Counts
  BY DEF Stable, Counts, ProbeTypes, EnginesOK, StockType, Visible
<1>2. published' \in [life : Nat, counts : Counts]
  BY <1>1 DEF Publish, SkipPublish, fileVars, ProbeTypes, FilesOK, LoopOK
<1> QED
  BY <1>2 DEF Publish, SkipPublish, Ends, engineVars, fileVars, ProbeTypes, EnginesOK, FilesOK, LoopOK

LEMMA EnginesAreNew ==
  /\ NewEngines.stock \in [Classes -> StockType] /\ NewEngines.watch \in [Classes -> WatchType]
  /\ NewEngines.scene \in Counts
  /\ \A c \in Classes : NewEngines.stock[c] = EmptyStock /\ NewEngines.watch[c] = Watchless
<1>1. EmptyStock \in StockType
  BY Constants DEF EmptyStock, StockType, Visible
<1>2. Watchless \in WatchType
  BY Constants DEF Watchless, WatchType, Visible
<1> QED
  BY <1>1, <1>2, Constants DEF NewEngines, Counts

LEMMA StartTyped == ASSUME ProbeTypes, ProbeStarts PROVE ProbeTypes'
<1> DEFINE none == <<>>
<1>1. none \in Seq(FrameType) /\ none \in Seq(Events)
  OBVIOUS
<1>2. /\ stock' = NewEngines.stock /\ watch' = NewEngines.watch /\ scene' = NewEngines.scene
      /\ presentFrames' = 0 /\ recent' = none /\ pending' = none /\ step' = "capture"
      /\ life' = life + 1 /\ UNCHANGED <<checkpoint, lines, rows, published>>
  BY DEF ProbeStarts, fileVars
<1>3. EnginesOK' /\ FilesOK'
  BY <1>1, <1>2, EnginesAreNew DEF ProbeTypes, EnginesOK, FilesOK
<1>4. LoopOK'
  BY <1>1, <1>2 DEF ProbeTypes, LoopOK
<1> QED
  BY <1>3, <1>4 DEF ProbeTypes

LEMMA ProbeTypesStep ==
  ASSUME ProbeTypes, Len(recent) <= Span, [ProbeNext]_probeVars
  PROVE  ProbeTypes'
<1>1. CASE UNCHANGED probeVars \/ ProbeDies
  BY <1>1 DEF ProbeDies, probeVars, engineVars, fileVars, ProbeTypes, EnginesOK, FilesOK, LoopOK
<1> QED
  BY <1>1, CaptureTyped, CheckpointTyped, EvidenceTyped, AppendTyped, PublishTyped, StartTyped
     DEF ProbeNext

-----------------------------------------------------------------------------
\* The frames of a life.  A candidate was seen in the frames that are counted,
\* and whatever was seen in the last frames is counted, so that none is early
\* and none is late.
CandidateIsSeen(c) ==
  /\ stock[c].candidate # NoCandidate =>
       /\ stock[c].candidate \in Visible /\ stock[c].candidate # stock[c].stable
       /\ stock[c].frames < Needed(stock[c], stock[c].candidate)
       /\ SeenFor(stock[c].frames, c, stock[c].candidate)
  /\ \A v \in Visible, k \in 1..Len(recent) :
       v # stock[c].stable /\ SeenFor(k, c, v) => stock[c].candidate = v /\ stock[c].frames >= k

StableIsLast(c) ==
  stock[c].stable = IF recent = <<>> THEN 0 ELSE recent[1].stable[c]

WaitIsQuiet(c) ==
  /\ watch[c].last = stock[c].stable
  /\ watch[c].alerted = "no" =>
       /\ watch[c].frames < LeftConfirm
       /\ watch[c].frames > 0 => QuietFor(watch[c].frames, c)
       /\ \A k \in 1..Len(recent) : QuietFor(k, c) => watch[c].frames >= k

ChangeWasSeen(c) ==
  recent # <<>> /\ recent[1].stable[c] # StableBefore(c) =>
    SeenFor(IF recent[1].stable[c] > StableBefore(c) THEN AppearConfirm ELSE RemoveConfirm,
            c, recent[1].stable[c])

WindowInv ==
  /\ Len(recent) <= Span
  /\ \A c \in Classes :
       CandidateIsSeen(c) /\ StableIsLast(c) /\ WaitIsQuiet(c) /\ ChangeWasSeen(c)

\* One more frame is seen.
AnotherFrame(frame) ==
  /\ recent \in Seq(FrameType) /\ recent' \in Seq(FrameType) /\ frame \in FrameType
  /\ Len(recent) <= Span /\ recent'[1] = frame
  /\ Len(recent') = IF Len(recent) < Span THEN Len(recent) + 1 ELSE Span
  /\ \A j \in 2..Len(recent') : recent'[j] = recent[j - 1]

LEMMA WindowFits ==
  ASSUME NEW frame, AnotherFrame(frame)
  PROVE  /\ Len(recent') >= 1 /\ recent' # <<>> /\ Len(recent) \in Nat /\ Len(recent') \in Nat
         /\ Len(recent') <= Len(recent) + 1
         /\ \A k \in Nat : k <= Len(recent) + 1 /\ k <= Span => k <= Len(recent')
BY SpanIs DEF AnotherFrame

LEMMA SeenOnceMore ==
  ASSUME NEW c \in Classes, NEW v, NEW frame, NEW k \in Nat, NEW m, m = k + 1, AnotherFrame(frame)
  PROVE  /\ SeenFor(k, c, v) /\ frame.seen[c] = v /\ m <= Len(recent') => SeenFor(m, c, v)'
         /\ SeenFor(m, c, v)' => frame.seen[c] = v /\ SeenFor(k, c, v)
<1>0. /\ recent \in Seq(FrameType) /\ recent' \in Seq(FrameType) /\ recent'[1] = frame
      /\ Len(recent') <= Len(recent) + 1
      /\ \A j \in 2..Len(recent') : recent'[j] = recent[j - 1]
  BY WindowFits DEF AnotherFrame
<1>1. ASSUME SeenFor(k, c, v), frame.seen[c] = v, m <= Len(recent') PROVE SeenFor(m, c, v)'
  <2>1. ASSUME NEW j \in 1..k + 1 PROVE recent'[j].seen[c] = v
    <3>1. CASE j = 1
      BY <1>0, <1>1, <3>1
    <3>2. CASE j # 1
      <4>1. j - 1 \in 1..k /\ j \in 2..Len(recent')
        BY <1>1, <3>2
      <4> QED
        BY <1>0, <1>1, <4>1 DEF SeenFor
    <3> QED
      BY <3>1, <3>2
  <2> QED
    BY <1>1, <2>1 DEF SeenFor
<1>2. ASSUME SeenFor(m, c, v)' PROVE frame.seen[c] = v /\ SeenFor(k, c, v)
  <2>1. k + 1 <= Len(recent') /\ k <= Len(recent) /\ \A j \in 1..k + 1 : recent'[j].seen[c] = v
    BY <1>0, <1>2 DEF SeenFor
  <2>2. frame.seen[c] = v
    <3>1. 1 \in 1..k + 1
      OBVIOUS
    <3> QED
      BY <1>0, <2>1, <3>1
  <2>3. ASSUME NEW j \in 1..k PROVE recent[j].seen[c] = v
    <3>1. j + 1 \in 2..Len(recent') /\ j + 1 \in 1..k + 1
      BY <2>1
    <3>2. recent'[j + 1] = recent[j + 1 - 1]
      BY <1>0, <3>1
    <3> QED
      BY <2>1, <3>1, <3>2
  <2> QED
    BY <2>1, <2>2, <2>3 DEF SeenFor
<1> QED
  BY <1>1, <1>2

LEMMA SeenNow ==
  ASSUME NEW c \in Classes, NEW frame, AnotherFrame(frame)
  PROVE  \A v : SeenFor(1, c, v)' <=> frame.seen[c] = v
<1>1. Len(recent') >= 1 /\ Len(recent') \in Nat /\ recent'[1] = frame
  BY WindowFits DEF AnotherFrame
<1>2. \A j \in 1..1 : j = 1
  OBVIOUS
<1> QED
  BY <1>1, <1>2 DEF SeenFor

\* What one class was seen in goes on.
LEMMA CountedOnceMore ==
  ASSUME NEW c \in Classes, NEW frame, AnotherFrame(frame), NEW s \in StockType, s = stock[c],
         CandidateIsSeen(c), NEW n \in Visible, n = frame.seen[c], n # s.stable,
         NEW f, f = FramesOf(s, n)
  PROVE  /\ f \in Nat \ {0} /\ f <= Needed(s, n) /\ Needed(s, n) \in {AppearConfirm, RemoveConfirm}
         /\ SeenFor(f, c, n)'
         /\ \A k \in 1..Len(recent') : SeenFor(k, c, n)' => f >= k
<1>1. Needed(s, n) \in {AppearConfirm, RemoveConfirm} /\ s.frames \in Nat
  BY DEF Needed, StockType
<1>2. n # NoCandidate
  BY Constants DEF Visible
<1>3. Len(recent) \in Nat /\ Len(recent') \in Nat
  BY WindowFits
<1>4. ASSUME NEW k \in 1..Len(recent'), SeenFor(k, c, n)', k # 1
      PROVE  s.candidate = n /\ k <= s.frames + 1
  <2>1. k - 1 \in Nat /\ k - 1 \in 1..Len(recent) /\ k = k - 1 + 1
    BY <1>3, <1>4, WindowFits
  <2>2. SeenFor(k - 1, c, n)
    BY <1>4, <2>1, SeenOnceMore
  <2>3. s.candidate = n /\ s.frames >= k - 1
    BY <2>1, <2>2 DEF CandidateIsSeen
  <2> QED
    BY <1>1, <2>1, <2>3
<1>5. CASE s.candidate = n
  <2>1. f = s.frames + 1 /\ s.frames < Needed(s, n) /\ SeenFor(s.frames, c, n)
    BY <1>2, <1>5 DEF FramesOf, CandidateIsSeen
  <2>2. s.frames <= Len(recent)
    BY <1>3, <2>1 DEF SeenFor
  <2>3. f <= Span /\ f <= Needed(s, n)
    BY <1>1, <2>1, Constants, SpanIs
  <2>4. f <= Len(recent')
    BY <1>1, <1>3, <2>1, <2>2, <2>3, WindowFits
  <2>5. SeenFor(f, c, n)'
    <3>1. PICK g \in Nat : g = s.frames
      BY <1>1
    <3>2. SeenFor(g, c, n) /\ f = g + 1
      BY <2>1, <3>1
    <3> QED
      BY <2>4, <3>2, SeenOnceMore
  <2>6. \A k \in 1..Len(recent') : SeenFor(k, c, n)' => f >= k
    BY <1>1, <1>4, <2>1
  <2>7. f \in Nat \ {0}
    BY <1>1, <2>1
  <2> QED
    BY <1>1, <2>3, <2>5, <2>6, <2>7
<1>6. CASE s.candidate # n
  <2>1. f = 1
    BY <1>6 DEF FramesOf
  <2>2. SeenFor(1, c, n)'
    BY SeenNow
  <2>3. \A k \in 1..Len(recent') : SeenFor(k, c, n)' => k = 1
    BY <1>4, <1>6
  <2>4. Needed(s, n) >= 1
    BY <1>1, Constants
  <2>5. \A k \in 1..Len(recent') : SeenFor(k, c, n)' => f >= k
    BY <2>1, <2>3
  <2>6. SeenFor(f, c, n)'
    BY <2>1, <2>2
  <2> QED
    BY <1>1, <2>1, <2>4, <2>5, <2>6
<1> QED
  BY <1>5, <1>6

LEMMA CandidateKept ==
  ASSUME NEW c \in Classes, NEW frame, AnotherFrame(frame), NEW s \in StockType, s = stock[c],
         CandidateIsSeen(c),
         NEW n \in Visible, n = frame.seen[c], NEW t, t = Stocked(s, n), t = stock'[c]
  PROVE  CandidateIsSeen(c)'
<1> PICK f : f = FramesOf(s, n)
  OBVIOUS
<1>0. /\ \A v \in Visible, k \in 1..Len(recent') : SeenFor(k, c, v)' => v = n
      /\ n # NoCandidate
  <2>1. ASSUME NEW v \in Visible, NEW k \in 1..Len(recent'), SeenFor(k, c, v)' PROVE v = n
    <3>1. k - 1 \in Nat /\ k = k - 1 + 1
      BY WindowFits
    <3> QED
      BY <2>1, <3>1, SeenOnceMore
  <2> QED
    BY <2>1, Constants DEF Visible
<1>1. CASE n = s.stable \/ Confirmed(s, n)
  <2>1. t.stable = n /\ t.candidate = NoCandidate
    BY <1>1 DEF Stocked
  <2>2. /\ stock'[c].stable = n /\ stock'[c].candidate = NoCandidate
        /\ \A v \in Visible, k \in 1..Len(recent') : SeenFor(k, c, v)' => v = n
    BY <1>0, <2>1
  <2> QED
    BY <2>2 DEF CandidateIsSeen, Visible
<1>2. CASE n # s.stable /\ ~Confirmed(s, n)
  <2>1. t.stable = s.stable /\ t.candidate = n /\ t.frames = f
    BY <1>2 DEF Stocked, StockType
  <2>2. /\ f \in Nat \ {0} /\ f <= Needed(s, n) /\ Needed(s, n) \in {AppearConfirm, RemoveConfirm}
        /\ SeenFor(f, c, n)'
        /\ \A k \in 1..Len(recent') : SeenFor(k, c, n)' => f >= k
    BY <1>2, CountedOnceMore
  <2>3. f < Needed(s, n)
    BY <1>2, <2>2, Constants DEF Confirmed
  <2>4. Needed(t, n) = Needed(s, n)
    BY <2>1 DEF Needed
  <2>5. /\ stock'[c].candidate = n /\ n # stock'[c].stable /\ stock'[c].frames = f
        /\ f < Needed(stock'[c], n)
    BY <1>2, <2>1, <2>3, <2>4
  <2>6. stock'[c].candidate # NoCandidate' =>
          /\ stock'[c].candidate \in Visible' /\ stock'[c].candidate # stock'[c].stable
          /\ stock'[c].frames < Needed(stock'[c], stock'[c].candidate)
          /\ SeenFor(stock[c].frames, c, stock[c].candidate)'
    BY <2>2, <2>5 DEF SeenFor, Visible
  <2>7. \A v \in Visible, k \in 1..Len(recent') :
          v # stock'[c].stable /\ SeenFor(k, c, v)' => stock'[c].candidate = v /\ stock'[c].frames >= k
    BY <1>0, <2>2, <2>5
  <2> QED
    BY <2>6, <2>7 DEF CandidateIsSeen, Visible, Needed
<1> QED
  BY <1>1, <1>2

LEMMA ChangeKept ==
  ASSUME NEW c \in Classes, NEW frame, AnotherFrame(frame), NEW s \in StockType, s = stock[c],
         CandidateIsSeen(c), StableIsLast(c),
         NEW n \in Visible, n = frame.seen[c], NEW t, t = Stocked(s, n),
         NEW v, v = t.stable, v = frame.stable[c]
  PROVE  ChangeWasSeen(c)'
<1>0. /\ recent'[1] = frame /\ recent' # <<>> /\ Len(recent') \in Nat /\ Len(recent) \in Nat
      /\ s.stable \in Nat /\ n \in Nat
  BY WindowFits DEF AnotherFrame, StockType, Visible
<1> PICK f : f = FramesOf(s, n)
  OBVIOUS
<1> PICK before : before = IF Len(recent') < 2 THEN 0 ELSE recent'[2].stable[c]
  OBVIOUS
<1> PICK needed : needed = IF v > before THEN AppearConfirm ELSE RemoveConfirm
  OBVIOUS
<1>9. v # before => SeenFor(needed, c, v)'
  <2> SUFFICES ASSUME v # before PROVE SeenFor(needed, c, v)'
    OBVIOUS
  <2>1. n # s.stable =>
          /\ f \in Nat \ {0} /\ f <= Needed(s, n)
          /\ Needed(s, n) \in {AppearConfirm, RemoveConfirm}
          /\ SeenFor(f, c, n)'
    BY CountedOnceMore
  <2>2. CASE before = s.stable
    <3>1. Confirmed(s, n) /\ v = n /\ n # s.stable
      BY <2>2 DEF Stocked
    <3>2. f = Needed(s, n)
      BY <2>1, <3>1, Constants DEF Confirmed
    <3>3. Needed(s, n) = IF n > s.stable THEN AppearConfirm ELSE RemoveConfirm
      BY DEF Needed
    <3> QED
      BY <2>1, <2>2, <3>1, <3>2, <3>3
  <2>3. CASE before # s.stable
    <3>1. Span = 1
      <4>1. CASE recent = <<>>
        <5>1. Len(recent) = 0 /\ s.stable = 0
          BY <4>1 DEF StableIsLast
        <5>2. Len(recent') < 2
          BY <1>0, <5>1, WindowFits
        <5> QED
          BY <2>3, <5>1, <5>2
      <4>2. CASE recent # <<>> /\ Span # 1
        <5>1. Len(recent) >= 1 /\ Len(recent') >= 2
          BY <1>0, <4>2, SpanIs DEF AnotherFrame
        <5>2. recent'[2] = recent[2 - 1]
          BY <1>0, <5>1 DEF AnotherFrame
        <5>3. before = recent[1].stable[c]
          BY <1>0, <5>1, <5>2
        <5> QED
          BY <2>3, <4>2, <5>3 DEF StableIsLast
      <4> QED
        BY <4>1, <4>2
    <3>2. AppearConfirm = 1 /\ RemoveConfirm = 1
      BY <3>1, SpanIs, Constants
    <3>3. v = n
      <4>1. n # s.stable => Confirmed(s, n)
        BY <2>1, <3>2 DEF Confirmed
      <4> QED
        BY <4>1 DEF Stocked
    <3> QED
      BY <3>2, <3>3, SeenNow
  <2> QED
    BY <2>2, <2>3
<1> QED
  BY <1>0, <1>9 DEF ChangeWasSeen, SeenFor, StableBefore

\* The wait of one class goes on.
LEMMA QuietOnceMore ==
  ASSUME NEW c \in Classes, NEW frame, AnotherFrame(frame), NEW k \in Nat \ {0}, NEW m, m = k + 1
  PROVE  /\ QuietFor(k, c) /\ frame.people = 0 /\ frame.stable[c] = recent[1].stable[c]
              /\ m <= Len(recent') => QuietFor(m, c)'
         /\ QuietFor(m, c)' => /\ recent # <<>> /\ frame.stable[c] = recent[1].stable[c]
                               /\ QuietFor(k, c)
<1>0. /\ recent \in Seq(FrameType) /\ recent' \in Seq(FrameType) /\ recent'[1] = frame
      /\ Len(recent') <= Len(recent) + 1
      /\ \A j \in 2..Len(recent') : recent'[j] = recent[j - 1]
  BY WindowFits DEF AnotherFrame
<1>1. ASSUME QuietFor(k, c), frame.people = 0, frame.stable[c] = recent[1].stable[c], m <= Len(recent')
      PROVE  QuietFor(m, c)'
  <2>1. ASSUME NEW j \in 1..m
        PROVE  recent'[j].people = 0 /\ recent'[j].stable[c] = recent'[1].stable[c]
    <3>1. CASE j = 1
      BY <1>0, <1>1, <3>1
    <3>2. CASE j # 1
      <4>1. j - 1 \in 1..k /\ j \in 2..Len(recent')
        BY <1>1, <3>2
      <4> QED
        BY <1>0, <1>1, <4>1 DEF QuietFor
    <3> QED
      BY <3>1, <3>2
  <2>2. recent'[1].stable[c] > 0
    BY <1>0, <1>1 DEF QuietFor
  <2> QED
    BY <1>1, <2>1, <2>2 DEF QuietFor
<1>2. ASSUME QuietFor(m, c)'
      PROVE  recent # <<>> /\ frame.stable[c] = recent[1].stable[c] /\ QuietFor(k, c)
  <2>1. /\ m <= Len(recent') /\ k <= Len(recent) /\ recent'[1].stable[c] > 0
        /\ \A j \in 1..m : recent'[j].people = 0 /\ recent'[j].stable[c] = recent'[1].stable[c]
    BY <1>0, <1>2 DEF QuietFor
  <2>2. ASSUME NEW j \in 1..k PROVE recent[j].people = 0 /\ recent[j].stable[c] = frame.stable[c]
    <3>1. j + 1 \in 2..Len(recent') /\ j + 1 \in 1..m
      BY <2>1
    <3>2. recent'[j + 1] = recent[j + 1 - 1]
      BY <1>0, <3>1
    <3> QED
      BY <1>0, <2>1, <3>1, <3>2
  <2>3. 1 \in 1..k /\ recent # <<>>
    BY <1>0, <2>1
  <2>4. frame.stable[c] > 0 /\ recent[1].stable[c] = frame.stable[c]
    BY <1>0, <2>1, <2>2, <2>3
  <2> QED
    BY <2>1, <2>2, <2>3, <2>4 DEF QuietFor
<1> QED
  BY <1>1, <1>2

LEMMA QuietNow ==
  ASSUME NEW c \in Classes, NEW frame, AnotherFrame(frame)
  PROVE  /\ QuietFor(1, c)' <=> frame.people = 0 /\ frame.stable[c] > 0
         /\ \A k \in Nat \ {0} : QuietFor(k, c)' => frame.people = 0 /\ frame.stable[c] > 0
<1>1. Len(recent') >= 1 /\ Len(recent') \in Nat /\ recent'[1] = frame
  BY WindowFits DEF AnotherFrame
<1>2. (\A j \in 1..1 : j = 1) /\ \A k \in Nat \ {0} : 1 \in 1..k
  OBVIOUS
<1> QED
  BY <1>1, <1>2 DEF QuietFor

Waits(c, frame, w, s, count, f) ==
  /\ AnotherFrame(frame) /\ StableIsLast(c) /\ WaitIsQuiet(c)
  /\ w \in WatchType /\ w = watch[c] /\ s \in StockType /\ s = stock[c]
  /\ count \in Visible /\ count = frame.stable[c] /\ count > 0 /\ frame.people = 0
  /\ Fresh(w, count).alerted = "no" /\ f = Fresh(w, count).frames + 1

LEMMA WaitedOnceMore ==
  ASSUME NEW c \in Classes, NEW frame, NEW w, NEW s, NEW count, NEW f,
         Waits(c, frame, w, s, count, f)
  PROVE  /\ f \in Nat \ {0} /\ f <= LeftConfirm /\ QuietFor(f, c)'
         /\ \A k \in 1..Len(recent') : QuietFor(k, c)' => f >= k
         /\ count # s.stable \/ w.alerted = "no"
<1> USE DEF Waits
<1>0. /\ QuietFor(1, c)' /\ w.last = s.stable /\ w.frames \in Nat
      /\ Len(recent) \in Nat /\ Len(recent') \in Nat /\ Len(recent') <= Len(recent) + 1
      /\ LeftConfirm \in Nat \ {0} /\ LeftConfirm <= Span
  BY QuietNow, WindowFits, Constants, SpanIs DEF WaitIsQuiet, WatchType
<1>1. CASE count # w.last
  <2>1. f = 1
    BY <1>1 DEF Fresh
  <2>2. ASSUME NEW k \in 1..Len(recent'), QuietFor(k, c)' PROVE k = 1
    <3>1. CASE k # 1
      <4>1. k - 1 \in Nat \ {0} /\ k = k - 1 + 1
        BY <1>0, <3>1
      <4>2. recent # <<>> /\ frame.stable[c] = recent[1].stable[c]
        BY <2>2, <4>1, QuietOnceMore
      <4> QED
        BY <1>0, <1>1, <4>2 DEF StableIsLast
    <3> QED
      BY <3>1
  <2>3. QuietFor(f, c)'
    BY <1>0, <2>1
  <2>4. \A k \in 1..Len(recent') : QuietFor(k, c)' => f >= k
    BY <2>1, <2>2
  <2> QED
    BY <1>0, <1>1, <2>1, <2>3, <2>4
<1>2. CASE count = w.last
  <2>1. w.alerted = "no" /\ f = w.frames + 1
    BY <1>2 DEF Fresh
  <2>2. PICK h \in Nat : h = w.frames
    BY <1>0
  <2>3. /\ h < LeftConfirm
        /\ h > 0 => QuietFor(h, c)
        /\ \A k \in 1..Len(recent) : QuietFor(k, c) => h >= k
    BY <2>1, <2>2 DEF WaitIsQuiet
  <2>4. QuietFor(f, c)'
    <3>1. CASE h = 0
      BY <1>0, <2>1, <2>2, <3>1
    <3>2. CASE h > 0
      <4>1. QuietFor(h, c) /\ h <= Len(recent)
        BY <2>3, <3>2 DEF QuietFor
      <4>2. recent # <<>>
        BY <3>2, <4>1
      <4>3. frame.stable[c] = recent[1].stable[c]
        BY <1>0, <1>2, <4>2 DEF StableIsLast
      <4>4. f <= Len(recent')
        BY <1>0, <2>1, <2>2, <2>3, <4>1, WindowFits, SpanIs
      <4> QED
        BY <2>1, <2>2, <3>2, <4>1, <4>3, <4>4, QuietOnceMore
    <3> QED
      BY <3>1, <3>2
  <2>5. ASSUME NEW k \in 1..Len(recent'), QuietFor(k, c)' PROVE f >= k
    <3>1. CASE k # 1
      <4>1. k - 1 \in Nat \ {0} /\ k = k - 1 + 1 /\ k - 1 \in 1..Len(recent)
        BY <1>0, <3>1
      <4>2. QuietFor(k - 1, c)
        BY <2>5, <4>1, QuietOnceMore
      <4>3. h >= k - 1
        BY <2>3, <4>1, <4>2
      <4> QED
        BY <2>1, <2>2, <4>1, <4>3
    <3> QED
      BY <2>1, <2>2, <3>1
  <2> QED
    BY <1>0, <2>1, <2>2, <2>3, <2>4, <2>5
<1> QED
  BY <1>1, <1>2

\* What the watch of a class becomes with one more frame.
NextWatch(w, count, crowd, n) ==
  IF crowd > 0 THEN Attended(w, count, n) ELSE Unattended(w, count)

LEMMA WaitKept ==
  ASSUME NEW c \in Classes, NEW frame, AnotherFrame(frame), StableIsLast(c), WaitIsQuiet(c),
         NEW w \in WatchType, w = watch[c], NEW s \in StockType, s = stock[c],
         NEW count \in Visible, count = frame.stable[c], count = stock'[c].stable,
         NEW n, NEW z, z = NextWatch(w, count, frame.people, n), z = watch'[c]
  PROVE  WaitIsQuiet(c)'
<1>0. LeftConfirm \in Nat \ {0} /\ frame.people \in 0..1 /\ count \in Nat
      /\ \A k \in 1..Len(recent') : k \in Nat \ {0}
  BY Constants, WindowFits DEF AnotherFrame, FrameType, Visible
<1>1. /\ z.last = count
      /\ z.alerted = "no" =>
           /\ z.frames < LeftConfirm
           /\ z.frames > 0 => QuietFor(watch[c].frames, c)'
           /\ \A k \in 1..Len(recent') : QuietFor(k, c)' => z.frames >= k
  <2>1. CASE frame.people > 0 \/ count = 0
    <3>1. z.last = count /\ z.frames = 0
      BY <1>0, <2>1 DEF NextWatch, Attended, Unattended, Watchless
    <3>2. ASSUME NEW k \in 1..Len(recent'), QuietFor(k, c)' PROVE FALSE
      <4>1. frame.people = 0 /\ frame.stable[c] > 0
        BY <1>0, <3>2, QuietNow
      <4> QED
        BY <1>0, <2>1, <4>1
    <3> QED
      BY <1>0, <3>1, <3>2
  <2>2. CASE frame.people = 0 /\ count > 0
    <3>1. PICK g : g = Fresh(w, count)
      OBVIOUS
    <3>2. g \in WatchType /\ g.last = count
      BY <3>1 DEF Fresh, WatchType
    <3>3. PICK f : f = g.frames + 1
      OBVIOUS
    <3>4. CASE g.alerted = "yes"
      <4>1. z = g
        BY <1>0, <2>2, <3>1, <3>4 DEF NextWatch, Unattended
      <4> QED
        BY <3>2, <3>4, <4>1
    <3>5. CASE g.alerted = "no"
      <4>1. /\ f \in Nat \ {0} /\ f <= LeftConfirm /\ QuietFor(f, c)'
            /\ \A k \in 1..Len(recent') : QuietFor(k, c)' => f >= k
        <5>1. Waits(c, frame, w, s, count, f)
          BY <2>2, <3>1, <3>3, <3>5 DEF Waits
        <5> QED
          BY <5>1, WaitedOnceMore
      <4>2. PICK a \in {"yes", "no"} : a = IF Alarms(w, count) THEN "yes" ELSE "no"
        OBVIOUS
      <4>3. z = [g EXCEPT !.frames = f, !.alerted = a]
        BY <1>0, <2>2, <3>1, <3>3, <3>5, <4>2 DEF NextWatch, Unattended
      <4>4. z.last = count /\ z.frames = f /\ z.alerted = a
        BY <3>2, <4>3 DEF WatchType
      <4>5. a = "no" => f < LeftConfirm
        BY <1>0, <2>2, <3>1, <3>3, <3>5, <4>1, <4>2 DEF Alarms
      <4>6. QuietFor(watch[c].frames, c)'
        BY <4>1, <4>4 DEF QuietFor
      <4> QED
        BY <4>1, <4>4, <4>5, <4>6
    <3> QED
      BY <3>2, <3>4, <3>5 DEF WatchType
  <2> QED
    BY <1>0, <2>1, <2>2
<1> QED
  BY <1>1 DEF WaitIsQuiet, QuietFor

-----------------------------------------------------------------------------
\* A class is excused while its alarm can go off.
Excused(c) == (watch[c].alerted = "no" \/ stock[c].stable = 0) => c \in excused

EnginesInv == ProbeTypes /\ WindowInv /\ \A c \in Classes : Excused(c)

\* One frame, one class.
OneFrame(seen, counts, crowd) == [seen |-> seen, stable |-> counts, people |-> crowd]

LEMMA CaptureOfClass ==
  ASSUME EnginesInv, NEW seen \in Counts, NEW crowd \in 0..1, Capture(seen, crowd),
         NEW counts, counts = Stable([c \in Classes |-> Stocked(stock[c], seen[c])]),
         NEW frame, frame = OneFrame(seen, counts, crowd)
  PROVE  /\ AnotherFrame(frame) /\ counts \in Counts /\ frame.people = crowd
         /\ \A c \in Classes :
              /\ stock[c] \in StockType /\ watch[c] \in WatchType
              /\ seen[c] \in Visible /\ counts[c] \in Visible
              /\ frame.seen[c] = seen[c] /\ frame.stable[c] = counts[c]
              /\ stock'[c] = Stocked(stock[c], seen[c]) /\ stock'[c].stable = counts[c]
              /\ watch'[c] = NextWatch(watch[c], counts[c], crowd, PresentFrames(crowd))
<1>1. PICK next : next = [c \in Classes |-> Stocked(stock[c], seen[c])]
  OBVIOUS
<1>2. /\ stock' = next /\ watch' = Watched(counts, crowd)
      /\ recent' = Shifted([seen |-> seen, stable |-> counts, people |-> crowd])
  BY <1>1, CaptureIs
<1>3. counts \in Counts /\ counts = Stable(next)
  BY <1>1, CountsTyped DEF EnginesInv
<1>4. frame \in FrameType /\ frame.seen = seen /\ frame.stable = counts /\ frame.people = crowd
  BY <1>3 DEF OneFrame, FrameType
<1>5. AnotherFrame(frame)
  <2>1. recent \in Seq(FrameType) /\ Len(recent) <= Span
    BY DEF EnginesInv, ProbeTypes, EnginesOK, WindowInv
  <2>2. recent' = Shifted(frame)
    BY <1>2 DEF OneFrame
  <2> QED
    BY <1>4, <2>1, <2>2, ShiftedIs DEF AnotherFrame
<1>6. ASSUME NEW c \in Classes
      PROVE  /\ stock[c] \in StockType /\ watch[c] \in WatchType
             /\ seen[c] \in Visible /\ counts[c] \in Visible
             /\ stock'[c] = Stocked(stock[c], seen[c]) /\ stock'[c].stable = counts[c]
             /\ watch'[c] = NextWatch(watch[c], counts[c], crowd, PresentFrames(crowd))
  <2>1. stock[c] \in StockType /\ watch[c] \in WatchType /\ seen[c] \in Visible /\ counts[c] \in Visible
    BY <1>3 DEF EnginesInv, ProbeTypes, EnginesOK, Counts, Visible
  <2>2. stock'[c] = Stocked(stock[c], seen[c]) /\ stock'[c].stable = counts[c]
    BY <1>1, <1>2, <1>3 DEF Stable
  <2>3. watch'[c] = NextWatch(watch[c], counts[c], crowd, PresentFrames(crowd))
    BY <1>2 DEF Watched, NextWatch
  <2> QED
    BY <2>1, <2>2, <2>3
<1> QED
  BY <1>3, <1>4, <1>5, <1>6

\* An alarm goes off when the wait is complete.
LEMMA AlarmOfClass ==
  ASSUME EnginesInv, NEW c \in Classes, NEW frame, AnotherFrame(frame),
         NEW count \in Visible, count = frame.stable[c], frame.people = 0, Alarms(watch[c], count)
  PROVE  QuietFor(LeftConfirm, c)' /\ (c \in excused \/ count # stock[c].stable)
<1>1. PICK w \in WatchType, s \in StockType : w = watch[c] /\ s = stock[c]
  BY DEF EnginesInv, ProbeTypes, EnginesOK
<1>2. PICK f : f = Fresh(w, count).frames + 1
  OBVIOUS
<1>3. count > 0 /\ Fresh(w, count).alerted = "no" /\ f >= LeftConfirm
  BY <1>1, <1>2 DEF Alarms
<1>4. Waits(c, frame, w, s, count, f)
  BY <1>1, <1>2, <1>3 DEF Waits, EnginesInv, WindowInv
<1>5. f \in Nat \ {0} /\ f <= LeftConfirm /\ QuietFor(f, c)' /\ (count # s.stable \/ w.alerted = "no")
  BY <1>4, WaitedOnceMore
<1>6. f = LeftConfirm
  BY <1>3, <1>5, Constants
<1> QED
  BY <1>1, <1>5, <1>6 DEF EnginesInv, Excused, QuietFor

LEMMA ExcusedKept ==
  ASSUME EnginesInv, NEW seen \in Counts, NEW crowd \in 0..1, Capture(seen, crowd), NEW c \in Classes
  PROVE  Excused(c)'
<1>1. PICK counts : counts = Stable([d \in Classes |-> Stocked(stock[d], seen[d])])
  OBVIOUS
<1>2. PICK frame : frame = OneFrame(seen, counts, crowd)
  OBVIOUS
<1>3. /\ AnotherFrame(frame) /\ counts \in Counts /\ frame.people = crowd
      /\ stock[c] \in StockType /\ watch[c] \in WatchType
      /\ counts[c] \in Visible /\ frame.stable[c] = counts[c] /\ stock'[c].stable = counts[c]
      /\ watch'[c] = NextWatch(watch[c], counts[c], crowd, PresentFrames(crowd))
  BY <1>1, <1>2, CaptureOfClass
<1>4. PICK told : told = AlarmEvents(counts, crowd)
  OBVIOUS
<1>5. \A i \in DOMAIN told : crowd = 0 /\ Alarms(watch[told[i].class], counts[told[i].class])
  BY <1>3, <1>4, AlarmEventsAre DEF EnginesInv
<1>6. excused' = {d \in Classes :
                    /\ \A i \in DOMAIN told : told[i].class # d
                    /\ d \in excused \/ counts[d] # stock[d].stable \/ PresentFrames(crowd) >= RearmPeople}
  <2>1. PICK next : next = [d \in Classes |-> Stocked(stock[d], seen[d])] /\ counts = Stable(next)
    BY <1>1
  <2>2. excused' = Excuses(counts, crowd, told)
    BY <1>4, <2>1, CaptureIs
  <2> QED
    BY <2>2 DEF Excuses
<1> PICK n, z : n = PresentFrames(crowd) /\ z = watch'[c]
  OBVIOUS
<1>7. PICK w \in WatchType, s \in StockType, count \in Visible :
        w = watch[c] /\ s = stock[c] /\ count = counts[c]
  BY <1>3
<1>8. z = NextWatch(w, count, crowd, n) /\ stock'[c].stable = count
  BY <1>3, <1>7
<1>9. w.last = s.stable /\ (w.alerted = "no" \/ s.stable = 0 => c \in excused)
  BY <1>7 DEF EnginesInv, WindowInv, WaitIsQuiet, Excused
<1>10. /\ c \in excused \/ count # s.stable \/ n >= RearmPeople
       /\ crowd > 0 \/ ~ Alarms(w, count)
       => c \in excused'
  BY <1>5, <1>6, <1>7
<1>11. CASE crowd > 0
  <2>1. z.alerted = IF n >= RearmPeople THEN "no" ELSE w.alerted
    BY <1>8, <1>11 DEF NextWatch, Attended
  <2> QED
    BY <1>7, <1>8, <1>9, <1>10, <1>11, <2>1 DEF Excused
<1>12. CASE ~ (crowd > 0) /\ count = 0
  <2>1. ~ Alarms(w, count)
    BY <1>12 DEF Alarms
  <2>2. c \in excused \/ count # s.stable
    BY <1>9, <1>12
  <2> QED
    BY <1>10, <2>1, <2>2 DEF Excused
<1>13. CASE ~ (crowd > 0) /\ count # 0
  <2>1. ASSUME z.alerted = "no" PROVE c \in excused'
    <3>1. PICK g : g = Fresh(w, count)
      OBVIOUS
    <3>2. g \in WatchType
      BY <1>7, <3>1 DEF Fresh, WatchType
    <3>3. g.alerted = "no" /\ ~ Alarms(w, count)
      <4>1. CASE g.alerted = "yes"
        <5>1. z = g
          BY <1>8, <1>13, <3>1, <4>1 DEF NextWatch, Unattended
        <5> QED
          BY <2>1, <4>1, <5>1
      <4>2. CASE g.alerted = "no"
        <5>1. PICK k, a : k = g.frames + 1 /\ a = IF Alarms(w, count) THEN "yes" ELSE "no"
          OBVIOUS
        <5>2. z = [g EXCEPT !.frames = k, !.alerted = a]
          BY <1>8, <1>13, <3>1, <4>2, <5>1 DEF NextWatch, Unattended
        <5>3. z.alerted = a
          BY <3>2, <5>2 DEF WatchType
        <5> QED
          BY <2>1, <4>2, <5>1, <5>3
      <4> QED
        BY <3>2, <4>1, <4>2 DEF WatchType
    <3>4. count # s.stable \/ w.alerted = "no"
      BY <1>9, <3>1, <3>3 DEF Fresh
    <3> QED
      BY <1>9, <1>10, <3>3, <3>4
  <2> QED
    BY <1>7, <1>8, <1>13, <2>1 DEF Excused
<1> QED
  BY <1>11, <1>12, <1>13

LEMMA CaptureKeeps ==
  ASSUME EnginesInv, NEW seen \in Counts, NEW crowd \in 0..1, Capture(seen, crowd)
  PROVE  EnginesInv'
<1>1. PICK counts : counts = Stable([d \in Classes |-> Stocked(stock[d], seen[d])])
  OBVIOUS
<1>2. PICK frame : frame = OneFrame(seen, counts, crowd)
  OBVIOUS
<1>3. Len(recent) <= Span /\ AnotherFrame(frame) /\ frame.people = crowd
  BY <1>1, <1>2, CaptureOfClass DEF EnginesInv, WindowInv
<1>4. ProbeTypes'
  BY <1>3, CaptureTyped DEF EnginesInv
<1>5. Len(recent') <= Span
  BY <1>3, SpanIs, WindowFits DEF AnotherFrame
<1>6. ASSUME NEW c \in Classes
      PROVE  (CandidateIsSeen(c) /\ StableIsLast(c) /\ WaitIsQuiet(c) /\ ChangeWasSeen(c))'
  <2>1. /\ stock[c] \in StockType /\ watch[c] \in WatchType
        /\ seen[c] \in Visible /\ counts[c] \in Visible
        /\ frame.seen[c] = seen[c] /\ frame.stable[c] = counts[c]
        /\ stock'[c] = Stocked(stock[c], seen[c]) /\ stock'[c].stable = counts[c]
        /\ watch'[c] = NextWatch(watch[c], counts[c], crowd, PresentFrames(crowd))
    BY <1>1, <1>2, CaptureOfClass
  <2> PICK t, z, p : t = stock'[c] /\ z = watch'[c] /\ p = PresentFrames(crowd)
    OBVIOUS
  <2>2. PICK s \in StockType, w \in WatchType, n \in Visible, count \in Visible :
          s = stock[c] /\ w = watch[c] /\ n = seen[c] /\ count = counts[c]
    BY <2>1
  <2>3. /\ n = frame.seen[c] /\ count = frame.stable[c] /\ t = Stocked(s, n) /\ t.stable = count
        /\ z = NextWatch(w, count, frame.people, p) /\ count = stock'[c].stable
    BY <1>3, <2>1, <2>2
  <2>4. CandidateIsSeen(c) /\ StableIsLast(c) /\ WaitIsQuiet(c)
    BY DEF EnginesInv, WindowInv
  <2>5. CandidateIsSeen(c)'
    BY <1>3, <2>2, <2>3, <2>4, CandidateKept
  <2>6. ChangeWasSeen(c)'
    BY <1>3, <2>2, <2>3, <2>4, ChangeKept
  <2>7. WaitIsQuiet(c)'
    BY <1>3, <2>2, <2>3, <2>4, WaitKept
  <2>8. StableIsLast(c)'
    <3>1. recent' # <<>> /\ recent'[1].stable[c] = stock'[c].stable
      BY <1>3, <2>3, WindowFits DEF AnotherFrame
    <3> QED
      BY <3>1 DEF StableIsLast
  <2> QED
    BY <2>5, <2>6, <2>7, <2>8
<1>7. \A c \in Classes : Excused(c)'
  BY ExcusedKept
<1> QED
  BY <1>4, <1>5, <1>6, <1>7 DEF EnginesInv, WindowInv

LEMMA NewIsQuiet ==
  ASSUME NEW c \in Classes, stock[c] = EmptyStock, watch[c] = Watchless, recent = <<>>, excused = Classes
  PROVE  CandidateIsSeen(c) /\ StableIsLast(c) /\ WaitIsQuiet(c) /\ ChangeWasSeen(c) /\ Excused(c)
<1>1. Len(recent) = 0 /\ \A k \in 1..Len(recent) : FALSE
  OBVIOUS
<1>2. CandidateIsSeen(c)
  BY <1>1 DEF EmptyStock, CandidateIsSeen
<1>3. StableIsLast(c) /\ ChangeWasSeen(c) /\ Excused(c)
  BY DEF EmptyStock, StableIsLast, ChangeWasSeen, Excused
<1>4. WaitIsQuiet(c)
  BY <1>1, Constants DEF EmptyStock, Watchless, WaitIsQuiet
<1> QED
  BY <1>2, <1>3, <1>4

LEMMA ProbeInitTyped == ProbeInit => ProbeTypes
<1> SUFFICES ASSUME ProbeInit PROVE ProbeTypes
  OBVIOUS
<1> DEFINE none == <<>>
<1>1. none \in Seq(FrameType) /\ none \in Seq(Events) /\ none \in Seq(Records)
  OBVIOUS
<1>2. /\ stock = NewEngines.stock /\ watch = NewEngines.watch /\ scene = NewEngines.scene
      /\ presentFrames = 0 /\ recent = none /\ pending = none /\ step = "capture" /\ life = 1
      /\ lines = none /\ rows = none
  BY DEF ProbeInit
<1>3. checkpoint \in [Classes -> 0..Torn] /\ published \in [life : Nat, counts : Counts]
  BY Constants DEF ProbeInit, Counts
<1>4. EnginesOK
  BY <1>1, <1>2, EnginesAreNew DEF EnginesOK
<1>5. FilesOK /\ LoopOK
  BY <1>1, <1>2, <1>3 DEF FilesOK, LoopOK
<1> QED
  BY <1>4, <1>5 DEF ProbeTypes

LEMMA EnginesStart == ProbeInit => EnginesInv
<1> SUFFICES ASSUME ProbeInit PROVE EnginesInv
  OBVIOUS
<1>1. /\ \A c \in Classes : stock[c] = EmptyStock /\ watch[c] = Watchless
      /\ recent = <<>> /\ excused = Classes
  BY EnginesAreNew DEF ProbeInit
<1>2. Len(recent) <= Span
  BY <1>1, SpanIs
<1>3. \A c \in Classes :
        CandidateIsSeen(c) /\ StableIsLast(c) /\ WaitIsQuiet(c) /\ ChangeWasSeen(c) /\ Excused(c)
  BY <1>1, NewIsQuiet
<1> QED
  BY <1>2, <1>3, ProbeInitTyped DEF EnginesInv, WindowInv

LEMMA EnginesStep == EnginesInv /\ [ProbeNext]_probeVars => EnginesInv'
<1> SUFFICES ASSUME EnginesInv, [ProbeNext]_probeVars PROVE EnginesInv'
  OBVIOUS
<1>1. ProbeTypes'
  BY ProbeTypesStep DEF EnginesInv, WindowInv
<1>2. CASE \E seen \in Counts, n \in 0..1 : Capture(seen, n)
  BY <1>2, CaptureKeeps
<1>3. CASE ProbeStarts
  <2>1. stock' = NewEngines.stock /\ watch' = NewEngines.watch /\ recent' = <<>> /\ excused' = Classes
    BY <1>3 DEF ProbeStarts
  <2>2. \A c \in Classes : stock'[c] = EmptyStock /\ watch'[c] = Watchless
    BY <2>1, EnginesAreNew
  <2>3. Len(recent') <= Span
    BY <2>1, SpanIs
  <2>4. ASSUME NEW c \in Classes
        PROVE  (CandidateIsSeen(c) /\ StableIsLast(c) /\ WaitIsQuiet(c) /\ ChangeWasSeen(c) /\ Excused(c))'
    <3>1. Len(recent') = 0 /\ \A k \in 1..Len(recent') : FALSE
      BY <2>1
    <3>2. stock'[c] = EmptyStock /\ watch'[c] = Watchless
      BY <2>2
    <3>3. CandidateIsSeen(c)'
      BY <3>1, <3>2 DEF EmptyStock, CandidateIsSeen, NoCandidate
    <3>4. StableIsLast(c)' /\ ChangeWasSeen(c)' /\ Excused(c)'
      BY <2>1, <3>2 DEF EmptyStock, StableIsLast, ChangeWasSeen, Excused
    <3>5. WaitIsQuiet(c)'
      BY <3>1, <3>2, Constants DEF EmptyStock, Watchless, WaitIsQuiet
    <3> QED
      BY <3>3, <3>4, <3>5
  <2> QED
    BY <1>1, <2>3, <2>4 DEF EnginesInv, WindowInv
<1>4. CASE UNCHANGED <<stock, watch, recent, excused>>
  <2>1. \A c \in Classes : CandidateIsSeen(c)' /\ StableIsLast(c)' /\ WaitIsQuiet(c)' /\ ChangeWasSeen(c)'
    BY <1>4 DEF EnginesInv, WindowInv, CandidateIsSeen, StableIsLast, WaitIsQuiet, ChangeWasSeen,
       SeenFor, QuietFor, StableBefore
  <2>2. Len(recent') <= Span /\ \A c \in Classes : Excused(c)'
    BY <1>4 DEF EnginesInv, WindowInv, Excused
  <2> QED
    BY <1>1, <2>1, <2>2 DEF EnginesInv, WindowInv
<1> QED
  BY <1>2, <1>3, <1>4 DEF ProbeNext, probeVars, engineVars, Checkpoint, SaveEvidence, AppendLine,
     AppendRow, Publish, SkipPublish, ProbeDies

LEMMA EnginesHold == ProbeSpec => []EnginesInv
<1> QED
  BY EnginesStart, EnginesStep, PTL DEF ProbeSpec

\* What the counters of the engines say is what was seen.
LEMMA CountersExact == EnginesInv => CountersAreExact
<1> SUFFICES ASSUME EnginesInv, NEW c \in Classes
             PROVE  /\ ChangeWasSeen(c)
                    /\ \A v \in 0..MaxVisible :
                         SeenFor(IF AppearConfirm > RemoveConfirm THEN AppearConfirm ELSE RemoveConfirm, c, v)
                           => stock[c].stable = v
                    /\ QuietFor(LeftConfirm, c) => watch[c].alerted = "yes"
  BY DEF CountersAreExact, ChangeWasSeen
<1>1. ChangeWasSeen(c) /\ CandidateIsSeen(c) /\ WaitIsQuiet(c)
  BY DEF EnginesInv, WindowInv
<1>2. /\ stock[c] \in StockType /\ watch[c] \in WatchType /\ Len(recent) \in Nat
  BY DEF EnginesInv, ProbeTypes, EnginesOK
<1>3. PICK k : k = IF AppearConfirm > RemoveConfirm THEN AppearConfirm ELSE RemoveConfirm
  OBVIOUS
<1>4. k \in Nat \ {0} /\ k >= AppearConfirm /\ k >= RemoveConfirm
  BY <1>3, Constants
<1>5. ASSUME NEW v \in 0..MaxVisible, SeenFor(k, c, v), stock[c].stable # v PROVE FALSE
  <2>1. k \in 1..Len(recent)
    BY <1>2, <1>4, <1>5 DEF SeenFor
  <2>2. stock[c].candidate = v /\ stock[c].frames >= k
    BY <1>1, <1>5, <2>1 DEF CandidateIsSeen, Visible
  <2>3. stock[c].frames < Needed(stock[c], v)
    BY <1>1, <1>5, <2>2, Constants DEF CandidateIsSeen
  <2> QED
    BY <1>2, <1>4, <2>2, <2>3, Constants DEF Needed, StockType
<1>6. QuietFor(LeftConfirm, c) => watch[c].alerted = "yes"
  <2>1. ASSUME QuietFor(LeftConfirm, c), watch[c].alerted # "yes" PROVE FALSE
    <3>1. LeftConfirm \in 1..Len(recent)
      BY <1>2, <2>1, Constants DEF QuietFor
    <3>2. watch[c].alerted = "no"
      BY <1>2, <2>1 DEF WatchType
    <3> QED
      BY <1>1, <1>2, <2>1, <3>1, <3>2, Constants DEF WaitIsQuiet, WatchType
  <2> QED
    BY <2>1
<1> QED
  BY <1>1, <1>3, <1>5, <1>6

LEMMA AlarmedIs ==
  ASSUME EnginesInv, NEW seen \in Counts, NEW crowd \in 0..1, Capture(seen, crowd),
         NEW c \in Classes, Alarmed(c)',
         NEW counts, counts = Stable([d \in Classes |-> Stocked(stock[d], seen[d])])
  PROVE  crowd = 0 /\ Alarms(watch[c], counts[c])
<1>1. PICK next : next = [d \in Classes |-> Stocked(stock[d], seen[d])] /\ counts = Stable(next)
  OBVIOUS
<1>2. PICK a, b : a = StockEvents(seen) /\ b = AlarmEvents(counts, crowd)
  OBVIOUS
<1>3. pending' = a \o b
  BY <1>1, <1>2, CaptureIs
<1>4. /\ a \in Seq(Events)
      /\ \A i \in DOMAIN a : \E d \in Classes : a[i] = Change(d, stock[d], seen[d])
  BY <1>2, StockEventsAre DEF EnginesInv
<1>5. \A i \in DOMAIN a : a[i].kind # "OBJECT_LEFT_BEHIND"
  <2>1. \A d \in Classes : Change(d, stock[d], seen[d]).kind # "OBJECT_LEFT_BEHIND"
    BY DEF Change
  <2> QED
    BY <1>4, <2>1
<1>0. ProbeTypes
  BY DEF EnginesInv
<1>6. counts \in Counts
  BY <1>0, CountsTyped
<1>7. /\ b \in Seq(Events)
      /\ \A i \in DOMAIN b : crowd = 0 /\ Alarms(watch[b[i].class], counts[b[i].class])
  <2>1. /\ b \in Seq(Events)
        /\ \A i \in DOMAIN b :
             /\ crowd = 0 /\ b[i].kind = "OBJECT_LEFT_BEHIND"
             /\ b[i].class \in Classes /\ Alarms(watch[b[i].class], counts[b[i].class])
             /\ b[i] = Alarm(b[i].class, counts[b[i].class])
    BY <1>0, <1>2, <1>6, AlarmEventsAre
  <2> QED
    BY <2>1
<1>8. PICK i \in DOMAIN pending' : pending'[i].class = c /\ pending'[i].kind = "OBJECT_LEFT_BEHIND"
  BY DEF Alarmed
<1>9. i \in 1..(Len(a) + Len(b)) /\ Len(a) \in Nat /\ Len(b) \in Nat
      /\ pending'[i] = IF i <= Len(a) THEN a[i] ELSE b[i - Len(a)]
  BY <1>3, <1>4, <1>7, <1>8
<1>10. ~ (i <= Len(a))
  BY <1>5, <1>8, <1>9
<1>11. i - Len(a) \in DOMAIN b /\ pending'[i] = b[i - Len(a)]
  BY <1>7, <1>9, <1>10
<1> QED
  BY <1>7, <1>8, <1>11

LEMMA AlarmEarned ==
  ASSUME EnginesInv, [ProbeNext]_probeVars, NEW c \in Classes,
         step = "capture", step' = "checkpoint", Alarmed(c)'
  PROVE  QuietFor(LeftConfirm, c)' /\ (c \in excused \/ stock'[c].stable # stock[c].stable)
<1>1. PICK seen \in Counts, crowd \in 0..1 : Capture(seen, crowd)
  BY DEF ProbeNext, probeVars, Checkpoint, SaveEvidence, AppendLine, AppendRow, Publish, SkipPublish,
     ProbeDies, ProbeStarts
<1>2. PICK counts : counts = Stable([d \in Classes |-> Stocked(stock[d], seen[d])])
  OBVIOUS
<1>3. PICK frame : frame = OneFrame(seen, counts, crowd)
  OBVIOUS
<1>4. /\ AnotherFrame(frame) /\ frame.people = crowd
      /\ counts[c] \in Visible /\ frame.stable[c] = counts[c] /\ stock'[c].stable = counts[c]
  BY <1>1, <1>2, <1>3, CaptureOfClass
<1>5. crowd = 0 /\ Alarms(watch[c], counts[c])
  BY <1>1, <1>2, AlarmedIs
<1>6. PICK count \in Visible : count = counts[c]
  BY <1>4
<1>7. count = frame.stable[c] /\ frame.people = 0 /\ Alarms(watch[c], count)
  BY <1>4, <1>5, <1>6
<1> QED
  BY <1>4, <1>6, <1>7, AlarmOfClass

\* A left-behind alarm is earned, in every life of the vision process and for
\* every setting of the confirmation frames: its wait was complete, nobody was
\* there, the count did not change in it, and the class was armed.
THEOREM AlarmsAreEarnedHolds == ProbeSpec => AlarmsAreEarned
<1>1. EnginesInv /\ [ProbeNext]_probeVars =>
        [\A c \in Classes :
           step = "capture" /\ step' = "checkpoint" /\ Alarmed(c)' =>
             QuietFor(LeftConfirm, c)' /\ (c \in excused \/ stock'[c].stable # stock[c].stable)]_probeVars
  BY AlarmEarned
<1> QED
  BY <1>1, EnginesHold, PTL DEF ProbeSpec, AlarmsAreEarned

-----------------------------------------------------------------------------
(* Records, picked from the files                                          *)

FoundNext(before, r, wanted) == IF r \in wanted THEN Append(before, r) ELSE before

FoundAlong(found, records, wanted, n) ==
  found = [i \in 0..n |-> IF i = 0 THEN <<>> ELSE FoundNext(found[i - 1], records[i], wanted)]

\* The function that Among defines by recursion exists, for any records.
LEMMA FoundExists ==
  ASSUME NEW records, NEW wanted
  PROVE  \A n \in Nat : \E found : FoundAlong(found, records, wanted, n)
<1> DEFINE S == {n \in Nat : \E found : FoundAlong(found, records, wanted, n)}
<1>1. 0 \in S
  <2>1. FoundAlong([i \in 0..0 |-> <<>>], records, wanted, 0)
    BY DEF FoundAlong
  <2> QED
    BY <2>1
<1>2. ASSUME NEW n \in Nat, n \in S PROVE n + 1 \in S
  <2>1. PICK found : FoundAlong(found, records, wanted, n)
    BY <1>2
  <2> DEFINE more == [i \in 0..n + 1 |-> IF i = n + 1 THEN FoundNext(found[n], records[n + 1], wanted)
                                         ELSE found[i]]
  <2>2. \A i \in 0..n : more[i] = found[i]
    OBVIOUS
  <2>3. \A i \in 0..n :
          found[i] = IF i = 0 THEN <<>> ELSE FoundNext(found[i - 1], records[i], wanted)
    BY <2>1 DEF FoundAlong
  <2>4. ASSUME NEW i \in 0..n + 1
        PROVE  more[i] = IF i = 0 THEN <<>> ELSE FoundNext(more[i - 1], records[i], wanted)
    <3>1. CASE i = n + 1
      BY <3>1, <2>2
    <3>2. CASE i # n + 1
      BY <3>2, <2>2, <2>3
    <3> QED
      BY <3>1, <3>2
  <2>5. FoundAlong(more, records, wanted, n + 1)
    BY <2>4 DEF FoundAlong
  <2> QED
    BY <2>5
<1> HIDE DEF S
<1>3. Nat \subseteq S
  BY <1>1, <1>2, SetInduction
<1> QED
  BY <1>3 DEF S

LEMMA AmongIs ==
  ASSUME NEW R, NEW records \in Seq(R), NEW wanted
  PROVE  \E found : /\ Among(records, wanted) = found[Len(records)] /\ found[0] = <<>>
                    /\ \A i \in 1..Len(records) : found[i] = FoundNext(found[i - 1], records[i], wanted)
<1> DEFINE found == CHOOSE found : FoundAlong(found, records, wanted, Len(records))
<1>1. FoundAlong(found, records, wanted, Len(records))
  <2>1. Len(records) \in Nat
    OBVIOUS
  <2>2. \E f : FoundAlong(f, records, wanted, Len(records))
    BY <2>1, FoundExists
  <2> QED
    BY <2>2
<1>2. Among(records, wanted) = found[Len(records)]
  BY DEF Among, FoundAlong, FoundNext
<1> HIDE DEF found
<1>3. \A i \in 0..Len(records) :
        found[i] = IF i = 0 THEN <<>> ELSE FoundNext(found[i - 1], records[i], wanted)
  BY <1>1 DEF FoundAlong
<1>4. found[0] = <<>> /\ \A i \in 1..Len(records) : found[i] = FoundNext(found[i - 1], records[i], wanted)
  <2>1. 0 \in 0..Len(records) /\ \A i \in 1..Len(records) : i \in 0..Len(records) /\ i # 0
    OBVIOUS
  <2> QED
    BY <1>3, <2>1
<1> QED
  BY <1>2, <1>4

LEMMA AmongTyped ==
  ASSUME NEW R, NEW records \in Seq(R), NEW wanted
  PROVE  Among(records, wanted) \in Seq(R)
<1>1. PICK found : /\ Among(records, wanted) = found[Len(records)] /\ found[0] = <<>>
                   /\ \A i \in 1..Len(records) : found[i] = FoundNext(found[i - 1], records[i], wanted)
  BY AmongIs
<1> DEFINE S == {n \in Nat : n <= Len(records) => found[n] \in Seq(R)}
<1>2. 0 \in S
  <2> DEFINE none == <<>>
  <2>1. none \in Seq(R) /\ found[0] = none
    BY <1>1
  <2> HIDE DEF none
  <2> QED
    BY <2>1
<1>3. ASSUME NEW n \in Nat, n \in S PROVE n + 1 \in S
  <2> SUFFICES ASSUME n + 1 <= Len(records) PROVE found[n + 1] \in Seq(R)
    OBVIOUS
  <2>1. found[n] \in Seq(R) /\ records[n + 1] \in R
    BY <1>3
  <2>2. found[n + 1] = FoundNext(found[n], records[n + 1], wanted)
    <3>1. n + 1 \in 1..Len(records)
      OBVIOUS
    <3> QED
      BY <1>1, <3>1
  <2> QED
    BY <2>1, <2>2 DEF FoundNext
<1> HIDE DEF S
<1>4. Nat \subseteq S
  BY <1>2, <1>3, SetInduction
<1>5. Len(records) \in S
  BY <1>4
<1> QED
  BY <1>1, <1>5 DEF S

LEMMA AmongNone == ASSUME NEW wanted PROVE Among(<<>>, wanted) = <<>>
<1> DEFINE none == <<>>
<1>1. none \in Seq({}) /\ Len(none) = 0
  OBVIOUS
<1> HIDE DEF none
<1>2. PICK found : Among(none, wanted) = found[Len(none)] /\ found[0] = <<>>
  BY <1>1, AmongIs
<1> QED
  BY <1>1, <1>2 DEF none

\* One record more is picked or it is not, and nothing else changes.
LEMMA AmongOneMore ==
  ASSUME NEW R, NEW records \in Seq(R), NEW r \in R, NEW wanted
  PROVE  Among(Append(records, r), wanted) = FoundNext(Among(records, wanted), r, wanted)
<1>1. PICK more : more = Append(records, r) /\ more \in Seq(R)
  <2>1. Append(records, r) \in Seq(R)
    OBVIOUS
  <2> QED
    BY <2>1
<1>2. /\ Len(more) = Len(records) + 1 /\ Len(records) \in Nat
      /\ more[Len(records) + 1] = r /\ \A i \in 1..Len(records) : more[i] = records[i]
  BY <1>1
<1>3. PICK f : /\ Among(records, wanted) = f[Len(records)] /\ f[0] = <<>>
               /\ \A i \in 1..Len(records) : f[i] = FoundNext(f[i - 1], records[i], wanted)
  BY AmongIs
<1>4. PICK g : /\ Among(more, wanted) = g[Len(more)] /\ g[0] = <<>>
               /\ \A i \in 1..Len(more) : g[i] = FoundNext(g[i - 1], more[i], wanted)
  <2>1. more \in Seq(R)
    BY <1>1
  <2> QED
    BY <2>1, AmongIs
<1> DEFINE S == {n \in Nat : n <= Len(records) => f[n] = g[n]}
<1>5. 0 \in S
  BY <1>3, <1>4
<1>6. ASSUME NEW n \in Nat, n \in S PROVE n + 1 \in S
  <2> SUFFICES ASSUME n + 1 <= Len(records) PROVE f[n + 1] = g[n + 1]
    OBVIOUS
  <2>1. f[n] = g[n] /\ n + 1 \in 1..Len(records) /\ n + 1 \in 1..Len(more) /\ n + 1 - 1 = n
    BY <1>2, <1>6
  <2>2. f[n + 1] = FoundNext(f[n], records[n + 1], wanted)
    BY <1>3, <2>1
  <2>3. g[n + 1] = FoundNext(g[n], more[n + 1], wanted)
    BY <1>4, <2>1
  <2> QED
    BY <1>2, <2>1, <2>2, <2>3
<1> HIDE DEF S
<1>7. f[Len(records)] = g[Len(records)]
  <2>1. Nat \subseteq S
    BY <1>5, <1>6, SetInduction
  <2>2. Len(records) \in S
    BY <1>2, <2>1
  <2> QED
    BY <1>2, <2>2 DEF S
<1>8. g[Len(more)] = FoundNext(g[Len(records)], r, wanted)
  <2>1. Len(more) \in 1..Len(more) /\ Len(more) - 1 = Len(records) /\ more[Len(more)] = r
    BY <1>2
  <2> QED
    BY <1>4, <2>1
<1> QED
  BY <1>1, <1>3, <1>4, <1>7, <1>8

-----------------------------------------------------------------------------
(* What the files say                                                      *)

\* Images show an object.
ImagesShow ==
  /\ \A c \in Classes : checkpoint[c] > 0
  /\ \A i \in DOMAIN pending : pending[i].shown > 0
  /\ \A i \in DOMAIN lines : lines[i].event.shown > 0

LEMMA CaptureShows ==
  ASSUME ProbeTypes, NEW seen \in Counts, NEW crowd \in 0..1, Capture(seen, crowd)
  PROVE  \A i \in DOMAIN pending' : pending'[i].shown > 0
<1>1. PICK next, counts : next = [d \in Classes |-> Stocked(stock[d], seen[d])] /\ counts = Stable(next)
  OBVIOUS
<1>2. PICK a, b : a = StockEvents(seen) /\ b = AlarmEvents(counts, crowd)
  OBVIOUS
<1>3. counts \in Counts
  BY <1>1, CountsTyped
<1>4. a \in Seq(Events) /\ \A i \in DOMAIN a : a[i].shown > 0
  <2>1. \A c \in Classes : Change(c, stock[c], seen[c]).shown > 0
    BY Constants DEF Change
  <2> QED
    BY <1>2, <2>1, StockEventsAre
<1>5. b \in Seq(Events) /\ \A i \in DOMAIN b : b[i].shown > 0
  <2>1. \A c \in Classes : Alarm(c, counts[c]).shown > 0
    BY Constants DEF Alarm
  <2> QED
    BY <1>2, <1>3, <2>1, AlarmEventsAre
<1>6. pending' = a \o b
  BY <1>1, <1>2, CaptureIs
<1>7. \A i \in DOMAIN pending' :
        \/ i \in DOMAIN a /\ pending'[i] = a[i]
        \/ i - Len(a) \in DOMAIN b /\ pending'[i] = b[i - Len(a)]
  BY <1>4, <1>5, <1>6
<1> QED
  BY <1>4, <1>5, <1>7

LEMMA ImagesStep == ASSUME ProbeTypes, ImagesShow, [ProbeNext]_probeVars PROVE ImagesShow'
<1>1. CASE \E seen \in Counts, n \in 0..1 : Capture(seen, n)
  <2>1. UNCHANGED <<checkpoint, lines>>
    BY <1>1 DEF Capture, fileVars
  <2>2. \A i \in DOMAIN pending' : pending'[i].shown > 0
    BY <1>1, CaptureShows
  <2> QED
    BY <2>1, <2>2 DEF ImagesShow
<1>2. CASE \E saved, broken \in SUBSET Classes : Checkpoint(saved, broken)
  <2>1. PICK saved, broken \in SUBSET Classes : Checkpoint(saved, broken)
    BY <1>2
  <2>2. \A c \in saved : c \in Classes /\ scene[c] > 0
    BY <2>1 DEF Checkpoint, Due, InSight
  <2>3. \A c \in Classes : checkpoint'[c] > 0
    <3>1. Torn > 0 /\ \A c \in Classes : checkpoint[c] > 0
      BY Constants DEF ImagesShow
    <3>2. \A c \in Classes : checkpoint'[c] = IF c \in saved THEN scene[c]
                                            ELSE IF c \in broken THEN Torn ELSE checkpoint[c]
      BY <2>1 DEF Checkpoint
    <3> QED
      BY <2>2, <3>1, <3>2
  <2>4. UNCHANGED <<pending, lines>>
    BY <2>1 DEF Checkpoint
  <2> QED
    BY <2>3, <2>4 DEF ImagesShow
<1>3. CASE \E outcome \in {"saved", "failed"} : SaveEvidence(outcome)
  <2>1. PICK outcome : SaveEvidence(outcome)
    BY <1>3
  <2>2. /\ pending # <<>> /\ Len(pending') = Len(pending) /\ pending'[1] = Illustrated(pending[1], outcome)
        /\ \A i \in DOMAIN pending : i # 1 => pending'[i] = pending[i]
        /\ pending \in Seq(Events) /\ pending' \in Seq(Events)
    BY <2>1, EvidenceTyped DEF ProbeTypes, LoopOK
  <2>3. pending[1] \in Events /\ 1 \in DOMAIN pending /\ pending[1].class \in Classes
    <3>1. pending[1] \in Events /\ 1 \in DOMAIN pending
      BY <2>2
    <3> QED
      BY <3>1 DEF Events
  <2>4. pending'[1].shown > 0
    BY <2>2, <2>3, IllustratedTyped DEF ImagesShow
  <2>5. \A i \in DOMAIN pending' : i \in DOMAIN pending
    BY <2>2
  <2>6. \A i \in DOMAIN pending' : pending'[i].shown > 0
    BY <2>2, <2>4, <2>5 DEF ImagesShow
  <2>7. UNCHANGED <<checkpoint, lines>>
    BY <2>1 DEF SaveEvidence, fileVars
  <2> QED
    BY <2>6, <2>7 DEF ImagesShow
<1>4. CASE \E outcome \in {"appended", "raises"}, kept \in {"kept", "part", "lost"} : AppendLine(outcome, kept)
  <2>1. /\ pending \in Seq(Events) /\ pending # <<>> /\ life \in Nat /\ lines \in Seq(Records)
    BY <1>4 DEF AppendLine, ProbeTypes, LoopOK, FilesOK
  <2>2. Head(pending) = pending[1] /\ pending[1] \in Events /\ 1 \in DOMAIN pending
    BY <2>1
  <2>3. PICK r \in Records : r = Record(Head(pending)) /\ r.event.shown > 0
    <3>1. PICK e \in Events : e = Head(pending) /\ e.shown > 0
      BY <2>2 DEF ImagesShow
    <3>2. [life |-> life, event |-> e] \in Records
      BY <2>1 DEF Records
    <3> QED
      BY <3>1, <3>2 DEF Record
  <2>4. PICK more : more = Append(lines, r) /\ more \in Seq(Records)
    <3>1. Append(lines, r) \in Seq(Records)
      BY <2>1
    <3> QED
      BY <3>1
  <2>5. \A i \in DOMAIN more : more[i].event.shown > 0
    <3>1. \A i \in DOMAIN more : (i \in DOMAIN lines /\ more[i] = lines[i]) \/ more[i] = r
      BY <2>1, <2>4
    <3> QED
      BY <2>3, <3>1 DEF ImagesShow
  <2>6. UNCHANGED <<checkpoint, pending>> /\ lines' \in {lines, more}
    BY <1>4, <2>3, <2>4 DEF AppendLine
  <2> QED
    BY <2>5, <2>6 DEF ImagesShow
<1>5. CASE \E outcome \in {"appended", "raises"} : AppendRow(outcome)
  <2>1. pending \in Seq(Events) /\ pending # <<>>
    BY <1>5 DEF AppendRow, ProbeTypes, LoopOK
  <2>2. UNCHANGED <<checkpoint, lines>> /\ pending' = Tail(pending)
    BY <1>5 DEF AppendRow
  <2>3. \A i \in DOMAIN pending' : i + 1 \in DOMAIN pending /\ pending'[i] = pending[i + 1]
    BY <2>1, <2>2
  <2> QED
    BY <2>2, <2>3 DEF ImagesShow
<1>6. CASE ProbeStarts
  <2>1. UNCHANGED <<checkpoint, lines>> /\ pending' = <<>>
    BY <1>6 DEF ProbeStarts, fileVars
  <2> QED
    BY <2>1 DEF ImagesShow
<1>7. CASE UNCHANGED <<checkpoint, pending, lines>>
  BY <1>7 DEF ImagesShow
<1> QED
  BY <1>1, <1>2, <1>3, <1>4, <1>5, <1>6, <1>7 DEF ProbeNext, probeVars, fileVars, Publish, SkipPublish, ProbeDies

\* What a life says in a file, of some events.
Of(records, n, wanted) == Among(records, [life : {n}, event : wanted])

LEMMA OfTyped ==
  ASSUME ProbeTypes, NEW n, NEW wanted
  PROVE  Of(lines, n, wanted) \in Seq(Records) /\ Of(rows, n, wanted) \in Seq(Records)
BY AmongTyped DEF Of, ProbeTypes, FilesOK

LEMMA OfOneMore ==
  ASSUME ProbeTypes, NEW records \in Seq(Records), NEW e \in Events, NEW n \in Nat,
         NEW wanted \in SUBSET Events
  PROVE  Of(Append(records, Record(e)), n, wanted)
           = IF n = life /\ e \in wanted THEN Append(Of(records, n, wanted), Record(e))
             ELSE Of(records, n, wanted)
<1>1. PICK r \in Records : r = Record(e) /\ r = [life |-> life, event |-> e]
  BY DEF Record, Records, ProbeTypes, LoopOK
<1>2. PICK W : W = [life : {n}, event : wanted]
  OBVIOUS
<1>3. r \in W <=> n = life /\ e \in wanted
  BY <1>1, <1>2
<1>4. Among(Append(records, r), W) = FoundNext(Among(records, W), r, W)
  BY AmongOneMore
<1> QED
  BY <1>1, <1>2, <1>3, <1>4 DEF Of, FoundNext

NothingLater ==
  \A n \in Nat, wanted \in SUBSET Events :
    n > life => Of(lines, n, wanted) = <<>> /\ Of(rows, n, wanted) = <<>>

\* What a step does to the files: nothing, one line more or one row more.
LineMore == /\ pending # <<>> /\ lines' = Append(lines, Record(Head(pending))) /\ rows' = rows
            /\ UNCHANGED <<stock, life, pending, published>>
            /\ step = "line" /\ step' \in {"row", "down"}
RowMore == /\ pending # <<>> /\ rows' = Append(rows, Record(Head(pending))) /\ lines' = lines
           /\ UNCHANGED <<stock, life, published>> /\ pending' = Tail(pending)
           /\ step = "row" /\ step' \in {"publish", "evidence", "down"}

LEMMA LaterStep ==
  ASSUME ProbeTypes, NothingLater,
         (UNCHANGED <<lines, rows>> /\ life' \in {life, life + 1}) \/ LineMore \/ RowMore
  PROVE  NothingLater'
<1>1. CASE UNCHANGED <<lines, rows>> /\ life' \in {life, life + 1}
  <2>1. life \in Nat /\ life' \in Nat /\ life <= life'
    BY <1>1 DEF ProbeTypes, LoopOK
  <2>2. \A n \in Nat, wanted \in SUBSET Events : n > life' =>
          Of(lines, n, wanted) = <<>> /\ Of(rows, n, wanted) = <<>>
    BY <2>1 DEF NothingLater
  <2> QED
    BY <1>1, <2>2 DEF NothingLater, Of
<1>2. CASE LineMore \/ RowMore
  <2>1. /\ pending \in Seq(Events) /\ pending # <<>> /\ life \in Nat /\ life' = life
        /\ lines \in Seq(Records) /\ rows \in Seq(Records)
    BY <1>2 DEF LineMore, RowMore, ProbeTypes, LoopOK, FilesOK
  <2>2. PICK e \in Events : e = Head(pending)
    BY <2>1
  <2>3. lines' \in {lines, Append(lines, Record(e))} /\ rows' \in {rows, Append(rows, Record(e))}
    BY <1>2, <2>2 DEF LineMore, RowMore
  <2>4. ASSUME NEW n \in Nat, NEW wanted \in SUBSET Events, n > life
        PROVE  Of(lines', n, wanted) = <<>> /\ Of(rows', n, wanted) = <<>>
    <3>1. n # life /\ Of(lines, n, wanted) = <<>> /\ Of(rows, n, wanted) = <<>>
      BY <2>1, <2>4 DEF NothingLater
    <3>2. /\ Of(Append(lines, Record(e)), n, wanted) = Of(lines, n, wanted)
          /\ Of(Append(rows, Record(e)), n, wanted) = Of(rows, n, wanted)
      BY <2>1, <2>2, <3>1, OfOneMore
    <3> QED
      BY <2>3, <3>1, <3>2
  <2> QED
    BY <2>1, <2>4 DEF NothingLater, Of
<1> QED
  BY <1>1, <1>2

\* No record is written.
NoRecord ==
  /\ UNCHANGED <<lines, rows, life>>
  /\ \/ step' = "down"
     \/ step \notin {"row", "down"} /\ step' \notin {"row", "down"}
     \/ UNCHANGED <<step, pending>>

LEMMA StepRecords ==
  ASSUME ProbeTypes, [ProbeNext]_probeVars
  PROVE  NoRecord \/ LineMore \/ RowMore \/ ProbeStarts
<1>1. CASE \E outcome \in {"appended", "raises"}, kept \in {"kept", "part", "lost"} : AppendLine(outcome, kept)
  <2>1. PICK outcome \in {"appended", "raises"}, kept \in {"kept", "part", "lost"} : AppendLine(outcome, kept)
    BY <1>1
  <2>2. CASE kept = "kept"
    BY <2>1, <2>2 DEF AppendLine, LineMore, Ends, engineVars, ProbeTypes, LoopOK
  <2>3. CASE kept \in {"part", "lost"}
    BY <2>1, <2>3 DEF AppendLine, NoRecord, Ends
  <2> QED
    BY <2>2, <2>3
<1>2. CASE \E outcome \in {"appended", "raises"} : AppendRow(outcome)
  <2>1. PICK outcome \in {"appended", "raises"} : AppendRow(outcome)
    BY <1>2
  <2>2. CASE outcome = "appended"
    BY <2>1, <2>2 DEF AppendRow, RowMore, Ends, engineVars, ProbeTypes, LoopOK
  <2>3. CASE outcome = "raises"
    BY <2>1, <2>3 DEF AppendRow, NoRecord, Ends
  <2> QED
    BY <2>2, <2>3
<1>3. CASE (\E seen \in Counts, n \in 0..1 : Capture(seen, n)) \/ (\E saved, broken \in SUBSET Classes : Checkpoint(saved, broken))
  BY <1>3 DEF Capture, Checkpoint, NoRecord, fileVars
<1>4. CASE (\E outcome \in {"saved", "failed"} : SaveEvidence(outcome))
           \/ (\E outcome \in {"appended", "raises"} : Publish(outcome)) \/ SkipPublish \/ ProbeDies
  BY <1>4 DEF SaveEvidence, Publish, SkipPublish, ProbeDies, NoRecord, fileVars
<1>5. CASE UNCHANGED probeVars
  BY <1>5 DEF NoRecord, probeVars, fileVars
<1> QED
  BY <1>1, <1>2, <1>3, <1>4, <1>5 DEF ProbeNext

\* The rows of a life are its lines, short of at most the last.
RowsAre ==
  /\ \A n \in 1..life :
       \/ OfLife(rows, n) = OfLife(lines, n)
       \/ \E last \in Records : OfLife(lines, n) = Append(OfLife(rows, n), last)
  /\ step \notin {"row", "down"} => OfLife(rows, life) = OfLife(lines, life)
  /\ step = "row" => OfLife(lines, life) = Append(OfLife(rows, life), Record(Head(pending)))

LEMMA OfLifeIs == \A records, n : OfLife(records, n) = Of(records, n, Events)
BY DEF OfLife, Of

LEMMA LineRows == ASSUME ProbeTypes, RowsAre, LineMore PROVE RowsAre'
<1>1. /\ pending \in Seq(Events) /\ pending # <<>> /\ life \in Nat \ {0}
      /\ lines \in Seq(Records) /\ rows \in Seq(Records)
  BY DEF LineMore, ProbeTypes, LoopOK, FilesOK
<1>2. PICK e \in Events : e = Head(pending)
  BY <1>1
<1>3. PICK r \in Records : r = Record(e)
  BY <1>1 DEF Record, Records
<1>4. lines' = Append(lines, r) /\ rows' = rows /\ life' = life /\ pending' = pending /\ step = "line"
      /\ step' \in {"row", "down"}
  BY <1>2, <1>3 DEF LineMore
<1>5. \A n \in 1..life : OfLife(lines', n) = IF n = life THEN Append(OfLife(lines, n), r) ELSE OfLife(lines, n)
  BY <1>1, <1>2, <1>3, <1>4, OfOneMore, OfLifeIs
<1>6. OfLife(rows, life) = OfLife(lines, life)
  BY <1>4 DEF RowsAre
<1>7. \A n \in 1..life :
        \/ OfLife(rows', n) = OfLife(lines', n)
        \/ \E last \in Records : OfLife(lines', n) = Append(OfLife(rows', n), last)
  BY <1>3, <1>4, <1>5, <1>6 DEF RowsAre
<1>8. OfLife(lines', life') = Append(OfLife(rows', life'), r) /\ r = Record(Head(pending))'
  BY <1>1, <1>2, <1>3, <1>4, <1>5, <1>6 DEF Record
<1> QED
  BY <1>1, <1>4, <1>7, <1>8 DEF RowsAre, OfLife

LEMMA RowRows == ASSUME ProbeTypes, RowsAre, RowMore PROVE RowsAre'
<1>1. /\ pending \in Seq(Events) /\ pending # <<>> /\ life \in Nat \ {0}
      /\ lines \in Seq(Records) /\ rows \in Seq(Records)
  BY DEF RowMore, ProbeTypes, LoopOK, FilesOK
<1>2. PICK e \in Events : e = Head(pending)
  BY <1>1
<1>3. PICK r \in Records : r = Record(e)
  BY <1>1 DEF Record, Records
<1>4. rows' = Append(rows, r) /\ lines' = lines /\ life' = life /\ step = "row" /\ step' # "row"
  BY <1>2, <1>3 DEF RowMore
<1>5. \A n \in 1..life : OfLife(rows', n) = IF n = life THEN Append(OfLife(rows, n), r) ELSE OfLife(rows, n)
  BY <1>1, <1>2, <1>3, <1>4, OfOneMore, OfLifeIs
<1>6. OfLife(lines, life) = Append(OfLife(rows, life), r)
  BY <1>2, <1>3, <1>4 DEF RowsAre
<1>7. OfLife(rows', life') = OfLife(lines', life')
  BY <1>1, <1>4, <1>5, <1>6
<1>8. \A n \in 1..life :
        \/ OfLife(rows', n) = OfLife(lines', n)
        \/ \E last \in Records : OfLife(lines', n) = Append(OfLife(rows', n), last)
  BY <1>4, <1>5, <1>6 DEF RowsAre
<1> QED
  BY <1>1, <1>4, <1>7, <1>8 DEF RowsAre, OfLife

LEMMA StartRows == ASSUME ProbeTypes, RowsAre, NothingLater, ProbeStarts PROVE RowsAre'
<1>1. /\ life' = life + 1 /\ UNCHANGED <<lines, rows>> /\ step' = "capture" /\ life \in Nat \ {0}
  BY DEF ProbeStarts, fileVars, ProbeTypes, LoopOK
<1>2. life + 1 \in Nat /\ life + 1 > life /\ Events \in SUBSET Events
  BY <1>1
<1>3. OfLife(lines, life + 1) = <<>> /\ OfLife(rows, life + 1) = <<>>
  BY <1>2, OfLifeIs DEF NothingLater
<1>4. \A n \in 1..life + 1 : n \in 1..life \/ n = life + 1
  BY <1>1
<1>5. \A n \in 1..life + 1 :
        \/ OfLife(rows, n) = OfLife(lines, n)
        \/ \E last \in Records : OfLife(lines, n) = Append(OfLife(rows, n), last)
  BY <1>3, <1>4 DEF RowsAre
<1> QED
  BY <1>1, <1>3, <1>5 DEF RowsAre, OfLife

LEMMA RowsStep ==
  ASSUME ProbeTypes, RowsAre, NothingLater, [ProbeNext]_probeVars
  PROVE  RowsAre' /\ NothingLater'
<1>1. CASE NoRecord
  <2>1. RowsAre'
    BY <1>1 DEF NoRecord, RowsAre, OfLife, Record
  <2> QED
    BY <1>1, <2>1, LaterStep DEF NoRecord
<1>2. CASE ProbeStarts
  <2>1. UNCHANGED <<lines, rows>> /\ life' = life + 1
    BY <1>2 DEF ProbeStarts, fileVars
  <2> QED
    BY <1>2, <2>1, StartRows, LaterStep
<1> QED
  BY <1>1, <1>2, StepRecords, LineRows, RowRows, LaterStep

LEMMA RowsFollow == ASSUME ProbeTypes, RowsAre PROVE RowsFollowLines
<1> SUFFICES ASSUME NEW n \in 1..life, NEW l, NEW r, l = OfLife(lines, n), r = OfLife(rows, n)
             PROVE  /\ Len(r) \in {Len(l), Len(l) - 1}
                    /\ r = SubSeq(l, 1, Len(r))
                    /\ n = life /\ step \in {"capture", "checkpoint"} => Len(r) = Len(l)
  BY DEF RowsFollowLines
<1>1. l \in Seq(Records) /\ r \in Seq(Records)
  BY OfTyped, OfLifeIs
<1>2. CASE r = l
  BY <1>1, <1>2
<1>3. CASE r # l
  <2>1. PICK last \in Records : l = Append(r, last)
    BY <1>3 DEF RowsAre
  <2>2. Len(l) = Len(r) + 1 /\ Len(r) \in Nat /\ r = SubSeq(l, 1, Len(r))
    BY <1>1, <2>1
  <2>3. ~ (n = life /\ step \in {"capture", "checkpoint"})
    BY <1>3 DEF RowsAre
  <2>4. Len(r) = Len(l) - 1
    BY <2>2
  <2> QED
    BY <2>2, <2>3, <2>4
<1> QED
  BY <1>2, <1>3

-----------------------------------------------------------------------------
(* What the changes in the files add up to                                 *)

\* Of what is not recorded yet, one event at most changes the count of a class,
\* and it takes the count to what is stable.
Told(c, p, count, stable) ==
  /\ \A i \in DOMAIN p : p[i] \in ChangesOf(c) =>
       p[i].before = count /\ p[i].after = stable /\ p[i].before # p[i].after
  /\ \A i, j \in DOMAIN p : p[i] \in ChangesOf(c) /\ p[j] \in ChangesOf(c) => i = j
  /\ (\A i \in DOMAIN p : p[i] \notin ChangesOf(c)) => count = stable

Account(records, n, c) == CountAfter(Changes(records, n, c))

Unwritten == IF step = "row" THEN Tail(pending) ELSE pending

AccountsAre ==
  step # "down" => \A c \in Classes :
    /\ Told(c, Unwritten, Account(lines, life, c), stock[c].stable)
    /\ Told(c, pending, Account(rows, life, c), stock[c].stable)

LEMMA ToldNone == ASSUME NEW c, NEW count, NEW stable PROVE Told(c, <<>>, count, stable) <=> count = stable
BY DEF Told

LEMMA ToldTail ==
  ASSUME NEW c, NEW count, NEW stable, NEW p \in Seq(Events), p # <<>>, Told(c, p, count, stable)
  PROVE  Told(c, Tail(p), IF Head(p) \in ChangesOf(c) THEN Head(p).after ELSE count, stable)
<1>0. Tail(p) \in Seq(Events)
  OBVIOUS
<1>1. PICK t \in Seq(Events) : t = Tail(p)
  BY <1>0
<1>2. /\ \A i \in DOMAIN t : i + 1 \in DOMAIN p /\ t[i] = p[i + 1]
      /\ \A i \in DOMAIN p : i # 1 => i - 1 \in DOMAIN t /\ t[i - 1] = p[i]
      /\ 1 \in DOMAIN p /\ Head(p) = p[1] /\ \A i \in DOMAIN t : i \in Nat \ {0}
  BY <1>1
<1>3. CASE p[1] \in ChangesOf(c)
  <2>1. \A i \in DOMAIN t : t[i] \notin ChangesOf(c)
    BY <1>2, <1>3 DEF Told
  <2>2. p[1].after = stable
    BY <1>2, <1>3 DEF Told
  <2> QED
    BY <1>1, <1>2, <1>3, <2>1, <2>2 DEF Told
<1>4. CASE p[1] \notin ChangesOf(c)
  <2>1. \A i \in DOMAIN t : t[i] \in ChangesOf(c) =>
          t[i].before = count /\ t[i].after = stable /\ t[i].before # t[i].after
    BY <1>2 DEF Told
  <2>2. ASSUME NEW i \in DOMAIN t, NEW j \in DOMAIN t, t[i] \in ChangesOf(c), t[j] \in ChangesOf(c)
        PROVE  i = j
    <3>1. i + 1 = j + 1
      BY <1>2, <2>2 DEF Told
    <3> QED
      BY <1>2, <3>1
  <2>3. (\A i \in DOMAIN t : t[i] \notin ChangesOf(c)) => count = stable
    BY <1>2, <1>4 DEF Told
  <2> QED
    BY <1>1, <1>2, <1>4, <2>1, <2>2, <2>3 DEF Told
<1> QED
  BY <1>3, <1>4

LEMMA ToldAlike ==
  ASSUME NEW c, NEW count, NEW stable, NEW p \in Seq(Events), NEW q \in Seq(Events),
         Told(c, p, count, stable), Len(q) = Len(p),
         \A i \in DOMAIN p : /\ q[i].class = p[i].class /\ q[i].kind = p[i].kind
                             /\ q[i].before = p[i].before /\ q[i].after = p[i].after
  PROVE  Told(c, q, count, stable)
<1>1. DOMAIN q = DOMAIN p /\ \A i \in DOMAIN p : p[i] \in Events /\ q[i] \in Events
  OBVIOUS
<1>2. \A i \in DOMAIN p : q[i] \in ChangesOf(c) <=> p[i] \in ChangesOf(c)
  BY <1>1 DEF ChangesOf
<1> QED
  BY <1>1, <1>2 DEF Told

LEMMA ChangesAre ==
  ASSUME NEW c
  PROVE  /\ ChangesOf(c) \in SUBSET Events
         /\ \A records, n : Changes(records, n, c) = Of(records, n, ChangesOf(c))
BY DEF ChangesOf, Changes, Of

LEMMA ChangesOneMore ==
  ASSUME ProbeTypes, NEW records \in Seq(Records), NEW e \in Events, NEW n \in Nat, NEW c
  PROVE  /\ Changes(records, n, c) \in Seq(Records)
         /\ Changes(Append(records, Record(e)), n, c)
              = IF n = life /\ e \in ChangesOf(c) THEN Append(Changes(records, n, c), Record(e))
                ELSE Changes(records, n, c)
<1>1. PICK W \in SUBSET Events : W = ChangesOf(c)
  BY ChangesAre
<1>2. /\ Changes(records, n, c) = Of(records, n, W)
      /\ Changes(Append(records, Record(e)), n, c) = Of(Append(records, Record(e)), n, W)
  BY <1>1, ChangesAre
<1>3. Of(records, n, W) \in Seq(Records)
  BY AmongTyped DEF Of
<1>4. Of(Append(records, Record(e)), n, W)
        = IF n = life /\ e \in W THEN Append(Of(records, n, W), Record(e)) ELSE Of(records, n, W)
  BY OfOneMore
<1> QED
  BY <1>1, <1>2, <1>3, <1>4

LEMMA AccountOneMore ==
  ASSUME ProbeTypes, NEW records \in Seq(Records), NEW e \in Events, NEW n \in Nat, NEW c
  PROVE  Account(Append(records, Record(e)), n, c)
           = IF n = life /\ e \in ChangesOf(c) THEN e.after ELSE Account(records, n, c)
<1>1. PICK story \in Seq(Records) : story = Changes(records, n, c)
  BY ChangesOneMore
<1>2. PICK r \in Records : r = Record(e) /\ r.event = e
  <2>1. [life |-> life, event |-> e] \in Records
    BY DEF Records, ProbeTypes, LoopOK
  <2> QED
    BY <2>1 DEF Record
<1>3. PICK more : more = Append(story, r)
  OBVIOUS
<1>4. more # <<>> /\ more[Len(more)] = r
  BY <1>3
<1>5. CountAfter(more) = e.after
  BY <1>2, <1>4 DEF CountAfter
<1>6. Changes(Append(records, r), n, c) = IF n = life /\ e \in ChangesOf(c) THEN more ELSE story
  <2>1. Changes(Append(records, Record(e)), n, c)
          = IF n = life /\ e \in ChangesOf(c) THEN Append(Changes(records, n, c), Record(e))
            ELSE Changes(records, n, c)
    BY ChangesOneMore
  <2> QED
    BY <1>1, <1>2, <1>3, <2>1
<1> QED
  BY <1>1, <1>2, <1>5, <1>6 DEF Account

\* What a frame confirms is told once.
LEMMA CaptureTold ==
  ASSUME EnginesInv, NEW seen \in Counts, NEW crowd \in 0..1, Capture(seen, crowd), NEW c \in Classes,
         NEW s \in StockType, s = stock[c], NEW t, t = stock'[c]
  PROVE  Told(c, pending', s.stable, t.stable)
<1>1. PICK next, counts : next = [d \in Classes |-> Stocked(stock[d], seen[d])] /\ counts = Stable(next)
  OBVIOUS
<1>2. PICK a, b : a = StockEvents(seen) /\ b = AlarmEvents(counts, crowd)
  OBVIOUS
<1>3. PICK p : p = pending' /\ p = a \o b
  BY <1>1, <1>2, CaptureIs
<1>4. PICK v \in Visible : v = seen[c]
  BY DEF Counts, Visible
<1>5. t = Stocked(s, v)
  <2>1. stock' = next
    BY <1>1, CaptureIs
  <2> QED
    BY <1>1, <1>4, <2>1
<1>6. /\ a \in Seq(Events)
      /\ \A i, j \in DOMAIN a : a[i].class = a[j].class => i = j
      /\ \A i \in DOMAIN a : \E d \in Classes :
           Confirmed(stock[d], seen[d]) /\ a[i] = Change(d, stock[d], seen[d])
      /\ \A d \in Classes : Confirmed(stock[d], seen[d]) =>
           \E i \in DOMAIN a : a[i] = Change(d, stock[d], seen[d])
  BY <1>2, StockEventsAre DEF EnginesInv
<1>7. b \in Seq(Events) /\ \A i \in DOMAIN b : b[i].kind = "OBJECT_LEFT_BEHIND"
  <2>1. counts \in Counts
    BY <1>1, CountsTyped DEF EnginesInv
  <2> QED
    BY <1>2, <2>1, AlarmEventsAre DEF EnginesInv
<1>8. /\ \A i \in DOMAIN p : \/ i \in DOMAIN a /\ p[i] = a[i]
                             \/ i - Len(a) \in DOMAIN b /\ p[i] = b[i - Len(a)]
      /\ \A i \in DOMAIN a : i \in DOMAIN p /\ p[i] = a[i]
  BY <1>3, <1>6, <1>7
<1>9. \A i \in DOMAIN p : p[i] \in ChangesOf(c) =>
        i \in DOMAIN a /\ p[i] = a[i] /\ p[i].class = c /\ Confirmed(s, v) /\ p[i] = Change(c, s, v)
  <2> SUFFICES ASSUME NEW i \in DOMAIN p, p[i] \in ChangesOf(c)
               PROVE  i \in DOMAIN a /\ p[i] = a[i] /\ p[i].class = c /\ Confirmed(s, v) /\ p[i] = Change(c, s, v)
    OBVIOUS
  <2>1. p[i].class = c /\ p[i].kind # "OBJECT_LEFT_BEHIND"
    BY DEF ChangesOf
  <2>2. i \in DOMAIN a /\ p[i] = a[i]
    BY <1>7, <1>8, <2>1
  <2>3. PICK d \in Classes : Confirmed(stock[d], seen[d]) /\ a[i] = Change(d, stock[d], seen[d])
    BY <1>6, <2>2
  <2>4. d = c
    BY <2>1, <2>2, <2>3 DEF Change
  <2> QED
    BY <1>4, <2>1, <2>2, <2>3, <2>4
<1>10. Confirmed(s, v) => t.stable = v /\ v # s.stable
  BY <1>5 DEF Stocked, Confirmed
<1>11. ~ Confirmed(s, v) => t.stable = s.stable
  BY <1>5 DEF Stocked, StockType
<1>12. Confirmed(s, v) => \E i \in DOMAIN p : p[i] \in ChangesOf(c)
  <2> SUFFICES ASSUME Confirmed(s, v) PROVE \E i \in DOMAIN p : p[i] \in ChangesOf(c)
    OBVIOUS
  <2>1. PICK i \in DOMAIN a : a[i] = Change(c, s, v)
    BY <1>4, <1>6
  <2>2. Change(c, s, v) \in Events /\ Change(c, s, v).class = c
    BY ChangeTyped
  <2>3. Change(c, s, v).kind # "OBJECT_LEFT_BEHIND"
    BY DEF Change
  <2> QED
    BY <1>8, <2>1, <2>2, <2>3 DEF ChangesOf
<1>13. Change(c, s, v).before = s.stable /\ Change(c, s, v).after = v
  BY DEF Change
<1>14. Told(c, p, s.stable, t.stable)
  <2>1. \A i \in DOMAIN p : p[i] \in ChangesOf(c) =>
          p[i].before = s.stable /\ p[i].after = t.stable /\ p[i].before # p[i].after
    BY <1>9, <1>10, <1>13
  <2>2. \A i, j \in DOMAIN p : p[i] \in ChangesOf(c) /\ p[j] \in ChangesOf(c) => i = j
    BY <1>6, <1>9
  <2>3. (\A i \in DOMAIN p : p[i] \notin ChangesOf(c)) => s.stable = t.stable
    BY <1>11, <1>12
  <2> QED
    BY <2>1, <2>2, <2>3 DEF Told
<1> QED
  BY <1>3, <1>14 DEF Told, ChangesOf, Events

LEMMA AccountOfNone ==
  ASSUME ProbeTypes, NothingLater, NEW c
  PROVE  /\ Changes(lines, life + 1, c) = <<>>
         /\ Account(lines, life + 1, c) = 0 /\ Account(rows, life + 1, c) = 0
<1>1. life + 1 \in Nat /\ life + 1 > life
  BY DEF ProbeTypes, LoopOK
<1>2. Changes(lines, life + 1, c) = <<>> /\ Changes(rows, life + 1, c) = <<>>
  BY <1>1, ChangesAre DEF NothingLater
<1> QED
  BY <1>2 DEF Account, CountAfter

LEMMA AccountLine == ASSUME ProbeTypes, AccountsAre, LineMore PROVE AccountsAre'
<1>1. /\ pending \in Seq(Events) /\ pending # <<>> /\ life \in Nat
      /\ lines \in Seq(Records) /\ rows \in Seq(Records)
  BY DEF LineMore, ProbeTypes, LoopOK, FilesOK
<1>2. PICK e \in Events : e = Head(pending)
  BY <1>1
<1>3. /\ lines' = Append(lines, Record(e)) /\ UNCHANGED <<rows, life, pending, stock>>
      /\ step = "line" /\ step' \in {"row", "down"}
  BY <1>2 DEF LineMore
<1>4. ASSUME NEW c \in Classes, step' = "row"
      PROVE  /\ Told(c, Tail(pending), Account(lines', life, c), stock[c].stable)
             /\ Told(c, pending, Account(rows, life, c), stock[c].stable)
  <2>1. /\ Told(c, pending, Account(lines, life, c), stock[c].stable)
        /\ Told(c, pending, Account(rows, life, c), stock[c].stable)
    BY <1>3 DEF AccountsAre, Unwritten
  <2>2. Account(lines', life, c) = IF e \in ChangesOf(c) THEN e.after ELSE Account(lines, life, c)
    BY <1>1, <1>3, AccountOneMore
  <2>3. Told(c, Tail(pending), IF e \in ChangesOf(c) THEN e.after ELSE Account(lines, life, c), stock[c].stable)
    BY <1>1, <1>2, <2>1, ToldTail
  <2> QED
    BY <2>1, <2>2, <2>3
<1>5. step' # "down" => \A c \in Classes :
        /\ Told(c, Tail(pending'), Account(lines', life', c), stock'[c].stable)
        /\ Told(c, pending', Account(rows', life', c), stock'[c].stable)
  BY <1>3, <1>4
<1> QED
  BY <1>3, <1>5 DEF AccountsAre, Unwritten

LEMMA AccountRow == ASSUME ProbeTypes, AccountsAre, RowMore PROVE AccountsAre'
<1>1. /\ pending \in Seq(Events) /\ pending # <<>> /\ life \in Nat
      /\ lines \in Seq(Records) /\ rows \in Seq(Records)
  BY DEF RowMore, ProbeTypes, LoopOK, FilesOK
<1>2. PICK e \in Events : e = Head(pending)
  BY <1>1
<1>3. /\ rows' = Append(rows, Record(e)) /\ UNCHANGED <<lines, life, stock>> /\ pending' = Tail(pending)
      /\ step = "row" /\ step' # "row"
  BY <1>2 DEF RowMore
<1>4. ASSUME NEW c \in Classes
      PROVE  /\ Told(c, pending', Account(lines, life, c), stock[c].stable)
             /\ Told(c, pending', Account(rows', life, c), stock[c].stable)
  <2>1. /\ Told(c, Tail(pending), Account(lines, life, c), stock[c].stable)
        /\ Told(c, pending, Account(rows, life, c), stock[c].stable)
    BY <1>3 DEF AccountsAre, Unwritten
  <2>2. Account(rows', life, c) = IF e \in ChangesOf(c) THEN e.after ELSE Account(rows, life, c)
    BY <1>1, <1>3, AccountOneMore
  <2>3. Told(c, Tail(pending), IF e \in ChangesOf(c) THEN e.after ELSE Account(rows, life, c), stock[c].stable)
    BY <1>1, <1>2, <2>1, ToldTail
  <2> QED
    BY <1>3, <2>1, <2>2, <2>3
<1>5. \A c \in Classes :
        /\ Told(c, pending', Account(lines', life', c), stock'[c].stable)
        /\ Told(c, pending', Account(rows', life', c), stock'[c].stable)
  BY <1>3, <1>4
<1> QED
  BY <1>3, <1>5 DEF AccountsAre, Unwritten

LEMMA AccountCapture ==
  ASSUME EnginesInv, AccountsAre, NEW seen \in Counts, NEW crowd \in 0..1, Capture(seen, crowd)
  PROVE  AccountsAre'
<1>1. /\ step = "capture" /\ step' = "checkpoint" /\ pending = <<>>
      /\ UNCHANGED <<lines, rows, life>>
  BY DEF Capture, fileVars, EnginesInv, ProbeTypes, LoopOK
<1>2. ASSUME NEW c \in Classes
      PROVE  /\ Told(c, pending', Account(lines, life, c), stock'[c].stable)
             /\ Told(c, pending', Account(rows, life, c), stock'[c].stable)
  <2>1. Account(lines, life, c) = stock[c].stable /\ Account(rows, life, c) = stock[c].stable
    BY <1>1, ToldNone DEF AccountsAre, Unwritten
  <2>2. PICK s \in StockType : s = stock[c]
    BY DEF EnginesInv, ProbeTypes, EnginesOK
  <2>3. PICK t : t = stock'[c]
    OBVIOUS
  <2>4. Told(c, pending', s.stable, t.stable)
    BY <2>2, <2>3, CaptureTold
  <2> QED
    BY <2>1, <2>2, <2>3, <2>4
<1>3. \A c \in Classes :
        /\ Told(c, pending', Account(lines', life', c), stock'[c].stable)
        /\ Told(c, pending', Account(rows', life', c), stock'[c].stable)
  BY <1>1, <1>2
<1> QED
  BY <1>1, <1>3 DEF AccountsAre, Unwritten

LEMMA AccountEvidence ==
  ASSUME ProbeTypes, AccountsAre, NEW outcome, SaveEvidence(outcome)
  PROVE  AccountsAre'
<1>1. /\ step = "evidence" /\ step' = "line" /\ UNCHANGED <<lines, rows, life, stock>>
  BY DEF SaveEvidence, engineVars, fileVars
<1>2. PICK p \in Seq(Events), q \in Seq(Events) : p = pending /\ q = pending'
  BY EvidenceTyped DEF ProbeTypes, LoopOK
<1>3. /\ p # <<>> /\ Len(q) = Len(p) /\ q[1] = Illustrated(p[1], outcome)
      /\ \A i \in DOMAIN p : i # 1 => q[i] = p[i]
  BY <1>2, EvidenceTyped
<1>4. \A i \in DOMAIN p : /\ q[i].class = p[i].class /\ q[i].kind = p[i].kind
                          /\ q[i].before = p[i].before /\ q[i].after = p[i].after
  <2>1. p[1] \in Events
    BY <1>2, <1>3
  <2> QED
    BY <1>3, <2>1, IllustratedTyped
<1>5. \A c \in Classes :
        /\ Told(c, p, Account(lines, life, c), stock[c].stable)
        /\ Told(c, p, Account(rows, life, c), stock[c].stable)
  BY <1>1, <1>2 DEF AccountsAre, Unwritten
<1>6. \A c \in Classes :
        /\ Told(c, q, Account(lines, life, c), stock[c].stable)
        /\ Told(c, q, Account(rows, life, c), stock[c].stable)
  BY <1>3, <1>4, <1>5, ToldAlike
<1>7. \A c \in Classes :
        /\ Told(c, pending', Account(lines', life', c), stock'[c].stable)
        /\ Told(c, pending', Account(rows', life', c), stock'[c].stable)
  BY <1>1, <1>2, <1>6
<1> QED
  BY <1>1, <1>7 DEF AccountsAre, Unwritten

LEMMA AccountStart == ASSUME ProbeTypes, NothingLater, ProbeStarts PROVE AccountsAre'
<1>1. /\ step' = "capture" /\ pending' = <<>> /\ life' = life + 1 /\ UNCHANGED <<lines, rows>>
      /\ \A c \in Classes : stock'[c].stable = 0
  BY EnginesAreNew DEF ProbeStarts, fileVars, EmptyStock
<1>2. \A c \in Classes :
        /\ Told(c, pending', Account(lines', life', c), stock'[c].stable)
        /\ Told(c, pending', Account(rows', life', c), stock'[c].stable)
  BY <1>1, AccountOfNone, ToldNone
<1> QED
  BY <1>1, <1>2 DEF AccountsAre, Unwritten

LEMMA AccountStays ==
  ASSUME AccountsAre, \/ step' = "down"
                      \/ step \notin {"row", "down"} /\ step' # "row" /\ UNCHANGED <<lines, rows, life, stock, pending>>
                      \/ UNCHANGED probeVars
  PROVE  AccountsAre'
BY DEF probeVars, engineVars, fileVars, AccountsAre, Unwritten

LEMMA AccountsStep ==
  ASSUME EnginesInv, NothingLater, AccountsAre, [ProbeNext]_probeVars
  PROVE  AccountsAre'
<1>0. ProbeTypes
  BY DEF EnginesInv
<1>1. CASE \E seen \in Counts, n \in 0..1 : Capture(seen, n)
  BY <1>1, AccountCapture
<1>2. CASE \E outcome \in {"saved", "failed"} : SaveEvidence(outcome)
  BY <1>0, <1>2, AccountEvidence
<1>3. CASE \E outcome \in {"appended", "raises"}, kept \in {"kept", "part", "lost"} : AppendLine(outcome, kept)
  <2>1. LineMore \/ step' = "down"
    <3>1. PICK outcome \in {"appended", "raises"}, kept \in {"kept", "part", "lost"} : AppendLine(outcome, kept)
      BY <1>3
    <3> QED
      BY <1>0, <3>1 DEF AppendLine, LineMore, Ends, engineVars, ProbeTypes, LoopOK
  <2> QED
    BY <1>0, <2>1, AccountLine, AccountStays
<1>4. CASE \E outcome \in {"appended", "raises"} : AppendRow(outcome)
  <2>1. RowMore \/ step' = "down"
    BY <1>0, <1>4 DEF AppendRow, RowMore, Ends, engineVars, ProbeTypes, LoopOK
  <2> QED
    BY <1>0, <2>1, AccountRow, AccountStays
<1>5. CASE ProbeStarts
  BY <1>0, <1>5, AccountStart
<1>6. CASE (\E saved, broken \in SUBSET Classes : Checkpoint(saved, broken))
           \/ (\E outcome \in {"appended", "raises"} : Publish(outcome)) \/ SkipPublish \/ ProbeDies
  BY <1>6, AccountStays DEF Checkpoint, Publish, SkipPublish, ProbeDies, engineVars, fileVars
<1>7. CASE UNCHANGED probeVars
  BY <1>7, AccountStays
<1> QED
  BY <1>1, <1>2, <1>3, <1>4, <1>5, <1>6, <1>7 DEF ProbeNext

\* A story whose changes begin where the one before ended.
Chained(story) ==
  \A i \in DOMAIN story :
    /\ story[i].event.before = CountAfter(SubSeq(story, 1, i - 1))
    /\ story[i].event.before # story[i].event.after

LEMMA ChainedIs == CountsAreChained <=> \A n \in 1..life, c \in Classes : Chained(Changes(lines, n, c))
BY DEF CountsAreChained, Chained

LEMMA ChainedMore ==
  ASSUME NEW story \in Seq(Records), Chained(story), NEW r \in Records,
         r.event.before = CountAfter(story), r.event.before # r.event.after
  PROVE  Chained(Append(story, r))
<1>1. Append(story, r) \in Seq(Records)
  OBVIOUS
<1>2. PICK more \in Seq(Records) : more = Append(story, r)
  BY <1>1
<1>3. /\ Len(more) = Len(story) + 1 /\ Len(story) \in Nat
      /\ more[Len(story) + 1] = r /\ \A i \in 1..Len(story) : more[i] = story[i]
  BY <1>2
<1>4. ASSUME NEW i \in 1..Len(more)
      PROVE  more[i].event.before = CountAfter(SubSeq(more, 1, i - 1)) /\ more[i].event.before # more[i].event.after
  <2>1. CASE i \in 1..Len(story)
    <3> PICK before : before = SubSeq(story, 1, i - 1)
      OBVIOUS
    <3>1. SubSeq(more, 1, i - 1) = before
      BY <1>2, <1>3, <2>1
    <3>2. story[i].event.before = CountAfter(before) /\ story[i].event.before # story[i].event.after
      BY <2>1 DEF Chained
    <3>3. more[i] = story[i]
      BY <1>3, <2>1
    <3> QED
      BY <3>1, <3>2, <3>3
  <2>2. CASE i = Len(story) + 1
    <3>1. SubSeq(more, 1, i - 1) = story
      BY <1>2, <1>3, <2>2
    <3> QED
      BY <1>3, <2>2, <3>1
  <2> QED
    BY <1>3, <2>1, <2>2
<1> QED
  BY <1>2, <1>4 DEF Chained

LEMMA ChainLine ==
  ASSUME ProbeTypes, AccountsAre, CountsAreChained, LineMore
  PROVE  CountsAreChained'
<1>1. /\ pending \in Seq(Events) /\ pending # <<>> /\ life \in Nat \ {0} /\ lines \in Seq(Records)
  BY DEF LineMore, ProbeTypes, LoopOK, FilesOK
<1>2. PICK e \in Events : e = Head(pending) /\ e = pending[1] /\ 1 \in DOMAIN pending
  BY <1>1
<1>3. PICK r \in Records : r = Record(e) /\ r.event = e
  <2>1. [life |-> life, event |-> e] \in Records
    BY <1>1 DEF Records
  <2> QED
    BY <2>1 DEF Record
<1>4. lines' = Append(lines, Record(e)) /\ life' = life /\ step = "line"
  BY <1>2 DEF LineMore
<1>5. ASSUME NEW n \in 1..life, NEW c \in Classes PROVE Chained(Changes(lines', n, c))
  <2>1. PICK story \in Seq(Records) : story = Changes(lines, n, c)
    BY <1>1, <1>2, ChangesOneMore
  <2>2. Chained(story)
    BY <2>1, ChainedIs
  <2>3. Changes(lines', n, c) = IF n = life /\ e \in ChangesOf(c) THEN Append(story, r) ELSE story
    <3>1. Changes(Append(lines, Record(e)), n, c)
            = IF n = life /\ e \in ChangesOf(c) THEN Append(Changes(lines, n, c), Record(e))
              ELSE Changes(lines, n, c)
      BY <1>1, ChangesOneMore
    <3> QED
      BY <1>3, <1>4, <2>1, <3>1
  <2>4. CASE n = life /\ e \in ChangesOf(c)
    <3>1. Told(c, pending, Account(lines, life, c), stock[c].stable)
      BY <1>4 DEF AccountsAre, Unwritten
    <3>2. e.before = Account(lines, life, c) /\ e.before # e.after
      BY <1>2, <2>4, <3>1 DEF Told
    <3>3. Chained(Append(story, r))
      BY <1>3, <2>1, <2>2, <2>4, <3>2, ChainedMore DEF Account
    <3> QED
      BY <2>3, <2>4, <3>3
  <2>5. CASE ~ (n = life /\ e \in ChangesOf(c))
    BY <2>2, <2>3, <2>5
  <2> QED
    BY <2>4, <2>5
<1>6. \A n \in 1..life', c \in Classes : Chained(Changes(lines', n, c))
  BY <1>4, <1>5
<1> QED
  BY <1>6 DEF CountsAreChained, Chained

LEMMA ChainStep ==
  ASSUME ProbeTypes, AccountsAre, NothingLater, CountsAreChained, [ProbeNext]_probeVars
  PROVE  CountsAreChained'
<1>1. CASE LineMore
  BY <1>1, ChainLine
<1>2. CASE NoRecord \/ RowMore
  BY <1>2 DEF NoRecord, RowMore, CountsAreChained
<1>3. CASE ProbeStarts
  <2>1. life' = life + 1 /\ lines' = lines /\ life \in Nat
    BY <1>3 DEF ProbeStarts, fileVars, ProbeTypes, LoopOK
  <2>2. ASSUME NEW n \in 1..life + 1, NEW c \in Classes PROVE Chained(Changes(lines, n, c))
    <3>1. CASE n \in 1..life
      BY <3>1, ChainedIs
    <3>2. CASE n = life + 1
      <4>1. Changes(lines, n, c) = <<>>
        BY <3>2, AccountOfNone
      <4> QED
        BY <4>1 DEF Chained
    <3> QED
      BY <2>1, <3>1, <3>2
  <2>3. \A n \in 1..life', c \in Classes : Chained(Changes(lines', n, c))
    BY <2>1, <2>2
  <2> QED
    BY <2>3 DEF CountsAreChained, Chained
<1> QED
  BY <1>1, <1>2, <1>3, StepRecords

\* What is published was recorded.
RecordedBy(records, state) ==
  \E n \in 0..Len(records) :
    \A c \in Classes : state.counts[c] = Account(SubSeq(records, 1, n), state.life, c)

LEMMA PublishedIs == PublishedIsRecorded <=> published.life = 0 \/ RecordedBy(rows, published)
BY DEF PublishedIsRecorded, RecordedBy, Account

LEMMA RecordedMore ==
  ASSUME NEW records \in Seq(Records), NEW r \in Records, NEW state, RecordedBy(records, state)
  PROVE  RecordedBy(Append(records, r), state)
<1>1. PICK n \in 0..Len(records) :
        \A c \in Classes : state.counts[c] = Account(SubSeq(records, 1, n), state.life, c)
  BY DEF RecordedBy
<1>2. /\ SubSeq(Append(records, r), 1, n) = SubSeq(records, 1, n)
      /\ n \in 0..Len(Append(records, r))
  OBVIOUS
<1> QED
  BY <1>1, <1>2 DEF RecordedBy

LEMMA PublishedStep ==
  ASSUME ProbeTypes, AccountsAre, PublishedIsRecorded, [ProbeNext]_probeVars
  PROVE  PublishedIsRecorded'
<1>1. CASE RowMore
  <2>1. /\ pending \in Seq(Events) /\ pending # <<>> /\ life \in Nat /\ rows \in Seq(Records)
    BY <1>1 DEF RowMore, ProbeTypes, LoopOK, FilesOK
  <2>2. PICK e \in Events : e = Head(pending)
    BY <2>1
  <2>3. PICK r \in Records : r = Record(e)
    <3>1. [life |-> life, event |-> e] \in Records
      BY <2>1 DEF Records
    <3> QED
      BY <3>1 DEF Record
  <2>4. rows' = Append(rows, r) /\ published' = published
    BY <1>1, <2>2, <2>3 DEF RowMore
  <2>5. published'.life = 0 \/ RecordedBy(rows', published')
    BY <2>1, <2>3, <2>4, PublishedIs, RecordedMore
  <2> QED
    BY <2>5 DEF PublishedIsRecorded, RecordedBy, Account
<1>2. CASE \E outcome \in {"appended", "raises"} : Publish(outcome)
  <2>1. /\ step = "publish" /\ pending = <<>> /\ rows' = rows /\ rows \in Seq(Records)
        /\ published' \in {published, [life |-> life, counts |-> Stable(stock)]}
    BY <1>2 DEF Publish, engineVars, ProbeTypes, LoopOK, FilesOK
  <2>2. \A c \in Classes : stock[c].stable = Account(rows, life, c)
    BY <2>1, ToldNone DEF AccountsAre
  <2>3. SubSeq(rows, 1, Len(rows)) = rows /\ Len(rows) \in 0..Len(rows)
    BY <2>1
  <2>4. PICK state : /\ state = [life |-> life, counts |-> Stable(stock)] /\ state.life = life
                     /\ \A c \in Classes : state.counts[c] = stock[c].stable
    <3> PICK state : state = [life |-> life, counts |-> Stable(stock)]
      OBVIOUS
    <3>1. state.life = life /\ state.counts = Stable(stock)
      OBVIOUS
    <3>2. \A c \in Classes : Stable(stock)[c] = stock[c].stable
      BY DEF Stable
    <3> QED
      BY <3>1, <3>2
  <2>5. RecordedBy(rows, state)
    BY <2>2, <2>3, <2>4 DEF RecordedBy
  <2>6. published'.life = 0 \/ RecordedBy(rows', published')
    BY <2>1, <2>4, <2>5, PublishedIs
  <2> QED
    BY <2>6 DEF PublishedIsRecorded, RecordedBy, Account
<1>3. CASE UNCHANGED <<rows, published>>
  BY <1>3 DEF PublishedIsRecorded
<1> QED
  <2>1. CASE \E outcome \in {"appended", "raises"} : AppendRow(outcome)
    BY <1>1, <1>3, <2>1 DEF AppendRow, RowMore, Ends, engineVars, ProbeTypes, LoopOK
  <2> QED
    BY <1>2, <1>3, <2>1 DEF ProbeNext, probeVars, fileVars, Capture, Checkpoint, SaveEvidence, AppendLine,
       SkipPublish, ProbeDies, ProbeStarts

-----------------------------------------------------------------------------
(* Images and torn lines                                                   *)

SitType == [frames : 0..CheckpointEvery, taken : Visible, owed : Visible]

LEMMA Interval == CheckpointEvery \in Nat \ {0} /\ MaxVisible \in Nat /\ 0 \in Visible
BY ProbeAssumption, InventoryAssumption DEF Visible

\* What the checkpoint of a class shows: the stable count when it is younger
\* than the count, the count that is known to be pictured, and for a change the
\* count before or the count after it.
PictureIs(c) ==
  /\ sitting[c] \in SitType /\ age[c] \in 0..CheckpointEvery
  /\ age[c] < sitting[c].frames => checkpoint[c] = stock[c].stable
  /\ sitting[c].taken # 0 => sitting[c].taken = stock[c].stable /\ checkpoint[c] = stock[c].stable
  /\ sitting[c].owed # 0 => checkpoint[c] \in {sitting[c].owed, stock[c].stable}

\* What an event on its way to the stores says of the image.
PictureTold(e) ==
  /\ e.kind # "OBJECT_LEFT_BEHIND" /\ sitting[e.class].owed # 0 =>
       e.before = sitting[e.class].owed /\ e.after = stock[e.class].stable
  /\ e.kind = "OBJECT_REMOVED" =>
       e.shown = NoImage \/ (step # "checkpoint" /\ e.shown = checkpoint[e.class])

InHand == {pending[i] : i \in DOMAIN pending}

PicturesAre == (\A c \in Classes : PictureIs(c)) /\ (\A e \in InHand : PictureTold(e))

LEMMA SitsTyped ==
  ASSUME NEW k \in SitType, NEW changed \in BOOLEAN
  PROVE  /\ Sits(k, changed) \in SitType
         /\ changed => Sits(k, changed) = [frames |-> 1, taken |-> 0, owed |-> k.taken]
         /\ ~changed => /\ Sits(k, changed).taken = k.taken /\ Sits(k, changed).owed = 0
                        /\ Sits(k, changed).frames = IF k.frames < CheckpointEvery THEN k.frames + 1
                                                     ELSE k.frames
<1>1. CASE changed
  <2>1. Sits(k, changed) = [frames |-> 1, taken |-> 0, owed |-> k.taken]
    BY <1>1 DEF Sits
  <2>2. 1 \in 0..CheckpointEvery /\ k.taken \in Visible
    BY Interval DEF SitType
  <2>3. [frames |-> 1, taken |-> 0, owed |-> k.taken] \in SitType
    BY <2>2, Interval DEF SitType
  <2> QED
    BY <1>1, <2>1, <2>3
<1>2. CASE ~changed
  <2>1. PICK f \in 0..CheckpointEvery : f = IF k.frames < CheckpointEvery THEN k.frames + 1 ELSE k.frames
    BY Interval DEF SitType
  <2>2. k.taken \in Visible /\ k = [frames |-> k.frames, taken |-> k.taken, owed |-> k.owed]
    BY DEF SitType
  <2>3. Sits(k, changed) = [k EXCEPT !.frames = f, !.owed = 0]
    BY <1>2, <2>1 DEF Sits, SitType
  <2>4. Sits(k, changed) = [frames |-> f, taken |-> k.taken, owed |-> 0]
    BY <2>2, <2>3
  <2>5. Sits(k, changed) \in SitType
    BY <2>1, <2>2, <2>4, Interval DEF SitType
  <2> QED
    BY <1>2, <2>1, <2>4, <2>5
<1> QED
  BY <1>1, <1>2

LEMMA CapturePictures ==
  ASSUME EnginesInv, PicturesAre, NEW seen \in Counts, NEW crowd \in 0..1, Capture(seen, crowd)
  PROVE  PicturesAre'
<1>1. PICK next, counts : next = [d \in Classes |-> Stocked(stock[d], seen[d])] /\ counts = Stable(next)
  OBVIOUS
<1>2. /\ \A c \in Classes : /\ stock'[c].stable = counts[c] /\ counts[c] \in Visible
                            /\ stock'[c] = Stocked(stock[c], seen[c])
                            /\ seen[c] \in Visible /\ stock[c].stable \in Visible
      /\ counts \in Counts
  <2>1. PICK frame : frame = OneFrame(seen, counts, crowd)
    OBVIOUS
  <2> QED
    BY <1>1, <2>1, CaptureOfClass DEF StockType
<1>3. checkpoint' = checkpoint /\ step' = "checkpoint"
  BY DEF Capture, fileVars
<1>4. /\ sitting' = [c \in Classes |-> Sits(sitting[c], counts[c] # stock[c].stable)]
      /\ age' = [c \in Classes |-> IF age[c] < CheckpointEvery THEN age[c] + 1 ELSE age[c]]
  BY <1>1 DEF Capture
<1>5. ASSUME NEW c \in Classes
      PROVE  /\ PictureIs(c)'
             /\ sitting'[c].owed # 0 =>
                  counts[c] # stock[c].stable /\ sitting'[c].owed = stock[c].stable
  <2>1. PictureIs(c)
    BY DEF PicturesAre
  <2>2. PICK k \in SitType : k = sitting[c]
    BY <2>1 DEF PictureIs
  <2>3. PICK changed \in BOOLEAN : changed = (counts[c] # stock[c].stable)
    OBVIOUS
  <2>4. PICK m \in SitType : m = Sits(k, changed)
    BY SitsTyped
  <2>5. sitting'[c] = m
    BY <1>4, <2>2, <2>3, <2>4
  <2>6. PICK a \in 0..CheckpointEvery : a = age[c]
    BY <2>1 DEF PictureIs
  <2>7. PICK b \in 0..CheckpointEvery : b = (IF a < CheckpointEvery THEN a + 1 ELSE a)
    BY Interval
  <2>8. age'[c] = b /\ checkpoint'[c] = checkpoint[c] /\ stock'[c].stable = counts[c]
    BY <1>2, <1>3, <1>4, <2>6, <2>7
  <2>9. CASE changed
    <3>1. m = [frames |-> 1, taken |-> 0, owed |-> k.taken]
      BY <2>4, <2>9, SitsTyped
    <3>2. m.frames = 1 /\ m.taken = 0 /\ m.owed = k.taken
      BY <3>1
    <3>3. b >= 1
      BY <2>7, Interval
    <3>4. k.taken # 0 => k.taken = stock[c].stable /\ checkpoint[c] = stock[c].stable
      BY <2>1, <2>2 DEF PictureIs
    <3>5. m.owed # 0 => m.owed = stock[c].stable /\ checkpoint[c] = m.owed
      BY <3>2, <3>4
    <3>6. ~(b < m.frames)
      BY <2>7, <3>2, <3>3, Interval
    <3>7. PictureIs(c)'
      BY <2>5, <2>8, <3>2, <3>5, <3>6 DEF PictureIs
    <3>8. counts[c] # stock[c].stable
      BY <2>3, <2>9
    <3> QED
      BY <2>5, <3>5, <3>7, <3>8
  <2>10. CASE ~changed
    <3>1. /\ m.taken = k.taken /\ m.owed = 0
          /\ m.frames = IF k.frames < CheckpointEvery THEN k.frames + 1 ELSE k.frames
      BY <2>4, <2>10, SitsTyped
    <3>2. k.frames \in 0..CheckpointEvery
      BY DEF SitType
    <3>3. b < m.frames => a < k.frames
      BY <2>7, <3>1, <3>2, Interval
    <3>4. /\ a < k.frames => checkpoint[c] = stock[c].stable
          /\ k.taken # 0 => k.taken = stock[c].stable /\ checkpoint[c] = stock[c].stable
      BY <2>1, <2>2, <2>6 DEF PictureIs
    <3> QED
      BY <2>3, <2>5, <2>8, <2>10, <3>1, <3>3, <3>4 DEF PictureIs
  <2> QED
    BY <2>9, <2>10
<1>6. PICK a, b : a = StockEvents(seen) /\ b = AlarmEvents(counts, crowd)
  OBVIOUS
<1>7. ProbeTypes
  BY DEF EnginesInv
<1>8. a \in Seq(Events) /\ \A i \in DOMAIN a : PictureTold(a[i])'
  <2>1. /\ a \in Seq(Events)
        /\ \A i \in DOMAIN a : \E c \in Classes :
             Confirmed(stock[c], seen[c]) /\ a[i] = Change(c, stock[c], seen[c])
    BY <1>6, <1>7, StockEventsAre
  <2>2. ASSUME NEW c \in Classes, Confirmed(stock[c], seen[c]), NEW e, e = Change(c, stock[c], seen[c])
        PROVE  PictureTold(e)'
    <3>1. Stocked(stock[c], seen[c]) = [stable |-> seen[c], candidate |-> NoCandidate, frames |-> 0]
      BY <2>2 DEF Stocked
    <3>2. counts[c] = seen[c]
      BY <1>2, <3>1
    <3>3. PICK k : k = IF seen[c] > stock[c].stable THEN "OBJECT_APPEARED" ELSE "OBJECT_REMOVED"
      OBVIOUS
    <3>4. e = [class |-> c, before |-> stock[c].stable, after |-> seen[c], shown |-> MaxVisible + 1, kind |-> k]
      BY <2>2, <3>3 DEF Change
    <3>5. e.class = c /\ e.before = stock[c].stable /\ e.after = seen[c] /\ e.shown = NoImage
      BY <3>4, Constants
    <3>6. sitting'[c].owed # 0 => sitting'[c].owed = stock[c].stable
      BY <1>5
    <3>7. stock'[c].stable = seen[c]
      BY <1>2, <3>2
    <3> QED
      BY <3>5, <3>6, <3>7 DEF PictureTold
  <2>3. \A i \in DOMAIN a : \E c \in Classes : \E e :
          Confirmed(stock[c], seen[c]) /\ e = Change(c, stock[c], seen[c]) /\ a[i] = e
    BY <2>1
  <2> QED
    BY <2>1, <2>2, <2>3
<1>9. b \in Seq(Events) /\ \A i \in DOMAIN b : PictureTold(b[i])'
  <2>1. b \in Seq(Events) /\ \A i \in DOMAIN b : b[i].kind = "OBJECT_LEFT_BEHIND"
    BY <1>2, <1>6, <1>7, AlarmEventsAre
  <2> QED
    BY <2>1 DEF PictureTold
<1>10. pending' = a \o b
  BY <1>1, <1>6, CaptureIs
<1>11. \A i \in DOMAIN pending' :
        \/ i \in DOMAIN a /\ pending'[i] = a[i]
        \/ i - Len(a) \in DOMAIN b /\ pending'[i] = b[i - Len(a)]
  BY <1>8, <1>9, <1>10
<1>12. \A e \in InHand' : PictureTold(e)'
  <2>1. \A e \in InHand' : (\E i \in DOMAIN a : e = a[i]) \/ (\E i \in DOMAIN b : e = b[i])
    BY <1>11 DEF InHand
  <2> QED
    BY <1>8, <1>9, <2>1
<1> QED
  BY <1>5, <1>12 DEF PicturesAre

LEMMA CheckpointPictures ==
  ASSUME ProbeTypes, PicturesAre, NEW saved \in SUBSET Classes, NEW broken \in SUBSET Classes,
         Checkpoint(saved, broken)
  PROVE  PicturesAre'
<1>1. /\ step = "checkpoint" /\ step' # "checkpoint"
      /\ UNCHANGED <<stock, pending, scene>>
      /\ \A c \in saved \cup broken : Due(c)
      /\ saved \cap broken = {}
  BY DEF Checkpoint
<1>2. ASSUME NEW c \in Classes
      PROVE  /\ PictureIs(c)'
             /\ sitting'[c].owed # 0 => sitting'[c].owed = sitting[c].owed
  <2>1. PICK k \in SitType, a \in 0..CheckpointEvery : k = sitting[c] /\ a = age[c]
    BY DEF PicturesAre, PictureIs
  <2>2. PICK n \in Visible : n = stock[c].stable
    BY DEF ProbeTypes, EnginesOK, StockType
  <2>3. /\ a < k.frames => checkpoint[c] = n
        /\ k.taken # 0 => k.taken = n /\ checkpoint[c] = n
        /\ k.owed # 0 => checkpoint[c] \in {k.owed, n}
    BY <2>1, <2>2 DEF PicturesAre, PictureIs
  <2>4. k.frames \in 0..CheckpointEvery /\ k.taken \in Visible /\ k.owed \in Visible
    BY DEF SitType
  <2>5. PICK taken \in SitType : taken = [k EXCEPT !.taken = n]
    BY DEF SitType
  <2>6. taken.frames = k.frames /\ taken.taken = n /\ taken.owed = k.owed
    BY <2>5 DEF SitType
  <2>7. PICK none \in SitType : none = [k EXCEPT !.taken = 0, !.owed = 0]
    BY Interval DEF SitType
  <2>8. none.frames = k.frames /\ none.taken = 0 /\ none.owed = 0
    BY <2>7 DEF SitType
  <2>9. Pictured(c) = IF InSight(c) /\ k.frames >= CheckpointEvery THEN taken ELSE k
    BY <2>1, <2>2, <2>5 DEF Pictured
  <2>10. CASE c \in saved
    <3>1. scene[c] = n
      BY <1>1, <2>2, <2>10 DEF Due, InSight
    <3>2. checkpoint'[c] = n /\ age'[c] = 0 /\ sitting'[c] \in {taken, k} /\ stock'[c].stable = n
      BY <1>1, <2>2, <2>9, <2>10, <3>1 DEF Checkpoint
    <3> QED
      BY <2>1, <2>2, <2>3, <2>4, <2>6, <3>2, Interval DEF PictureIs
  <2>11. CASE c \in broken
    <3>1. c \notin saved /\ Due(c)
      BY <1>1, <2>11
    <3>2. a >= CheckpointEvery
      BY <2>1, <3>1 DEF Due
    <3>3. checkpoint'[c] = Torn /\ age'[c] = a /\ sitting'[c] = none
      BY <2>1, <2>7, <2>11, <3>1 DEF Checkpoint
    <3> QED
      BY <2>4, <2>8, <3>2, <3>3, Interval DEF PictureIs
  <2>12. CASE c \notin saved /\ c \notin broken
    <3>1. checkpoint'[c] = checkpoint[c] /\ age'[c] = a /\ stock'[c].stable = n
      BY <1>1, <2>1, <2>2, <2>12 DEF Checkpoint
    <3>2. sitting'[c] = IF ~Due(c) THEN Pictured(c) ELSE k
      BY <2>1, <2>12 DEF Checkpoint
    <3>3. CASE sitting'[c] = k
      BY <2>1, <2>3, <3>1, <3>3 DEF PictureIs
    <3>4. CASE ~Due(c) /\ InSight(c) /\ k.frames >= CheckpointEvery /\ sitting'[c] = taken
      <4>1. a < CheckpointEvery
        BY <2>1, <3>4, Interval DEF Due
      <4>2. checkpoint[c] = n
        BY <2>3, <2>4, <3>4, <4>1, Interval
      <4> QED
        BY <2>1, <2>6, <3>1, <3>4, <4>2 DEF PictureIs
    <3> QED
      BY <2>9, <3>2, <3>3, <3>4
  <2> QED
    BY <2>10, <2>11, <2>12
<1>3. ASSUME NEW e \in InHand'
      PROVE  PictureTold(e)'
  <2>1. pending \in Seq(Events) /\ e \in InHand
    BY <1>1 DEF ProbeTypes, LoopOK, InHand
  <2>2. e \in Events /\ PictureTold(e)
    BY <2>1 DEF InHand, PicturesAre
  <2>3. e.class \in Classes
    BY <2>2 DEF Events
  <2> QED
    BY <1>1, <1>2, <2>2, <2>3 DEF PictureTold
<1> QED
  BY <1>2, <1>3 DEF PicturesAre

LEMMA EvidencePictures ==
  ASSUME ProbeTypes, PicturesAre, NEW outcome, SaveEvidence(outcome)
  PROVE  PicturesAre'
<1>1. /\ pending # <<>> /\ Len(pending') = Len(pending) /\ pending'[1] = Illustrated(pending[1], outcome)
      /\ \A i \in DOMAIN pending : i # 1 => pending'[i] = pending[i]
      /\ pending \in Seq(Events) /\ pending' \in Seq(Events)
  BY EvidenceTyped DEF ProbeTypes, LoopOK
<1>2. UNCHANGED <<stock, age, sitting, checkpoint>> /\ step' = "line"
  BY DEF SaveEvidence, engineVars, fileVars
<1>3. \A e : PictureTold(e) => PictureTold(e)'
  BY <1>2 DEF PictureTold
<1>4. PICK e \in Events : e = pending[1] /\ PictureTold(e)
  <2>1. 1 \in DOMAIN pending /\ pending[1] \in Events
    BY <1>1
  <2>2. pending[1] \in InHand
    BY <2>1 DEF InHand
  <2> QED
    BY <2>1, <2>2 DEF PicturesAre
<1>5. PICK x : x = Illustrated(e, outcome)
  OBVIOUS
<1>6. PictureTold(x)'
  <2>1. /\ x.class = e.class /\ x.kind = e.kind /\ x.before = e.before /\ x.after = e.after
        /\ x.shown \in {e.shown, checkpoint[e.class]}
    BY <1>5, IllustratedTyped
  <2> QED
    BY <1>2, <1>4, <2>1 DEF PictureTold
<1>7. \A d \in InHand' : d = x \/ d \in InHand
  <2>1. \A i \in DOMAIN pending' : i \in DOMAIN pending
    BY <1>1
  <2>2. pending'[1] = x
    BY <1>1, <1>4, <1>5
  <2> QED
    BY <1>1, <2>1, <2>2 DEF InHand
<1>8. \A d \in InHand' : PictureTold(d)'
  BY <1>3, <1>6, <1>7 DEF PicturesAre
<1>9. \A c \in Classes : PictureIs(c)'
  BY <1>2 DEF PicturesAre, PictureIs
<1> QED
  BY <1>8, <1>9 DEF PicturesAre

\* Steps that leave the engines and the images alone.
LEMMA StoresPicture ==
  ASSUME ProbeTypes, PicturesAre, UNCHANGED <<stock, age, sitting, checkpoint>>,
         pending' = pending \/ (pending # <<>> /\ pending' = Tail(pending)),
         step' = "checkpoint" => step = "checkpoint"
  PROVE  PicturesAre'
<1>1. \A c \in Classes : PictureIs(c)'
  BY DEF PicturesAre, PictureIs
<1>2. \A e : PictureTold(e) => PictureTold(e)'
  BY DEF PictureTold
<1>3. pending \in Seq(Events)
  BY DEF ProbeTypes, LoopOK
<1>4. \A e \in InHand' : e \in InHand
  <2>1. CASE pending # <<>> /\ pending' = Tail(pending)
    <3>1. \A i \in DOMAIN pending' : i + 1 \in DOMAIN pending /\ pending'[i] = pending[i + 1]
      BY <1>3, <2>1
    <3> QED
      BY <3>1 DEF InHand
  <2>2. CASE pending' = pending
    BY <2>2 DEF InHand
  <2> QED
    BY <2>1, <2>2
<1> QED
  BY <1>1, <1>2, <1>4 DEF PicturesAre

LEMMA NewPictures ==
  ASSUME ProbeInit
  PROVE  PicturesAre
<1>1. /\ pending = <<>> /\ age = NewEngines.age /\ sitting = [c \in Classes |-> NobodySat]
  BY DEF ProbeInit
<1>2. ASSUME NEW c \in Classes
      PROVE  PictureIs(c)
  <2>1. age[c] = CheckpointEvery /\ sitting[c] = NobodySat
    BY <1>1 DEF NewEngines
  <2>2. /\ NobodySat \in SitType /\ NobodySat.frames = 0 /\ NobodySat.taken = 0 /\ NobodySat.owed = 0
    BY Interval DEF NobodySat, SitType
  <2> QED
    BY <2>1, <2>2, Interval DEF PictureIs
<1> QED
  BY <1>1, <1>2 DEF PicturesAre, InHand

LEMMA StartPictures ==
  ASSUME ProbeStarts
  PROVE  PicturesAre'
<1>1. /\ pending' = <<>> /\ age' = NewEngines.age /\ sitting' = [c \in Classes |-> NobodySat]
  BY DEF ProbeStarts
<1>2. ASSUME NEW c \in Classes
      PROVE  PictureIs(c)'
  <2>1. age'[c] = CheckpointEvery /\ sitting'[c] = NobodySat
    BY <1>1 DEF NewEngines
  <2>2. /\ NobodySat \in SitType /\ NobodySat.frames = 0 /\ NobodySat.taken = 0 /\ NobodySat.owed = 0
    BY Interval DEF NobodySat, SitType
  <2> QED
    BY <2>1, <2>2, Interval DEF PictureIs
<1> QED
  BY <1>1, <1>2 DEF PicturesAre, InHand

LEMMA PicturesStep ==
  ASSUME EnginesInv, PicturesAre, [ProbeNext]_probeVars
  PROVE  PicturesAre'
<1>0. ProbeTypes
  BY DEF EnginesInv
<1>1. CASE \E seen \in Counts, n \in 0..1 : Capture(seen, n)
  BY <1>1, CapturePictures
<1>2. CASE \E saved, broken \in SUBSET Classes : Checkpoint(saved, broken)
  BY <1>0, <1>2, CheckpointPictures
<1>3. CASE \E outcome \in {"saved", "failed"} : SaveEvidence(outcome)
  BY <1>0, <1>3, EvidencePictures
<1>4. CASE \E outcome \in {"appended", "raises"}, kept \in {"kept", "part", "lost"} : AppendLine(outcome, kept)
  <2>1. /\ UNCHANGED <<stock, age, sitting, checkpoint, pending>> /\ step' \in {"down", "row"}
    BY <1>4 DEF AppendLine, Ends, engineVars
  <2> QED
    BY <1>0, <2>1, StoresPicture
<1>5. CASE \E outcome \in {"appended", "raises"} : AppendRow(outcome)
  <2>1. /\ UNCHANGED <<stock, age, sitting, checkpoint>> /\ pending' = Tail(pending)
        /\ step' \in {"down", "publish", "evidence"} /\ step = "row"
    BY <1>5 DEF AppendRow, Ends, engineVars
  <2>2. pending # <<>>
    BY <1>0, <2>1 DEF ProbeTypes, LoopOK
  <2> QED
    BY <1>0, <2>1, <2>2, StoresPicture
<1>6. CASE ProbeStarts
  BY <1>6, StartPictures
<1>7. CASE (\E outcome \in {"appended", "raises"} : Publish(outcome)) \/ SkipPublish \/ ProbeDies
           \/ UNCHANGED probeVars
  <2>1. /\ UNCHANGED <<stock, age, sitting, checkpoint, pending>>
        /\ step' \in {"down", "capture", step}
    BY <1>7 DEF Publish, SkipPublish, ProbeDies, Ends, probeVars, engineVars, fileVars
  <2> QED
    BY <1>0, <2>1, StoresPicture
<1> QED
  BY <1>1, <1>2, <1>3, <1>4, <1>5, <1>6, <1>7 DEF ProbeNext

\* An image before a removal is one of the two counts when one was owed.
LEMMA ImageIsRecent ==
  ASSUME ProbeTypes, PicturesAre, ImagesShow
  PROVE  ImageBeforeIsRecent
<1>1. \A i \in DOMAIN lines : lines[i].event.shown # 0
  BY DEF ImagesShow
<1>2. ASSUME Removing, NEW e, e = Head(pending), Owed(e)
      PROVE  e.shown = e.before \/ (e.shown = e.after /\ e.after > 0)
  <2>1. pending \in Seq(Events) /\ pending # <<>> /\ step # "checkpoint"
    BY <1>2 DEF Removing, ProbeTypes, LoopOK
  <2>2. 1 \in DOMAIN pending /\ e = pending[1] /\ e \in Events
    BY <1>2, <2>1
  <2>3. e.kind = "OBJECT_REMOVED" /\ e.shown # NoImage /\ e.class \in Classes /\ e.shown > 0
    BY <1>2, <2>2 DEF Removing, Events, ImagesShow
  <2>4. PictureTold(e) /\ PictureIs(e.class)
    BY <2>2, <2>3 DEF PicturesAre, InHand
  <2>5. sitting[e.class].owed # 0
    BY <1>2, <2>4 DEF Owed, PictureIs, SitType, Visible
  <2>6. e.shown = checkpoint[e.class] /\ e.before = sitting[e.class].owed /\ e.after = stock[e.class].stable
    BY <2>3, <2>4, <2>5 DEF PictureTold
  <2>7. checkpoint[e.class] \in {sitting[e.class].owed, stock[e.class].stable}
    BY <2>4, <2>5 DEF PictureIs
  <2> QED
    BY <2>3, <2>6, <2>7
<1> QED
  BY <1>1, <1>2 DEF ImageBeforeIsRecent

\* What is written behind a part of a line is the first line of its life.
TornAre ==
  /\ \A j \in DOMAIN lines : lines[j].life <= life
  /\ tornTail = "yes" /\ step # "down" => life > 1 /\ \A j \in DOMAIN lines : lines[j].life < life
  /\ TornLinesCostOne

LEMMA TornLine ==
  ASSUME ProbeTypes, TornAre, NEW outcome \in {"appended", "raises"},
         NEW kept \in {"kept", "part", "lost"}, AppendLine(outcome, kept)
  PROVE  TornAre'
<1>1. /\ pending \in Seq(Events) /\ pending # <<>> /\ life \in Nat \ {0} /\ life' = life
      /\ lines \in Seq(Records) /\ step = "line"
  BY DEF AppendLine, ProbeTypes, LoopOK, FilesOK
<1>2. Head(pending) \in Events
  BY <1>1
<1>3. CASE kept = "kept"
  <2>1. PICK r \in Records : r = Record(Head(pending)) /\ r.life = life
    <3>1. PICK e \in Events : e = Head(pending)
      BY <1>2
    <3>2. [life |-> life, event |-> e] \in Records
      BY <1>1 DEF Records
    <3> QED
      BY <3>1, <3>2 DEF Record
  <2>2. /\ lines' = Append(lines, r) /\ tornTail' = "no"
        /\ glued' = IF tornTail = "yes" THEN glued \cup {Len(lines) + 1} ELSE glued
    BY <1>3, <2>1 DEF AppendLine
  <2>3. PICK n \in Nat : n = Len(lines) /\ DOMAIN lines = 1..n
    BY <1>1
  <2>4. DOMAIN lines' = 1..(n + 1) /\ lines'[n + 1] = r /\ \A j \in 1..n : lines'[j] = lines[j]
    BY <1>1, <2>1, <2>2, <2>3
  <2>5. \A j \in 1..n : lines[j].life \in Nat /\ lines[j].life <= life
    <3>1. \A j \in 1..n : lines[j] \in Records
      BY <1>1, <2>3
    <3> QED
      BY <2>3, <3>1 DEF TornAre, Records
  <2>6. \A j \in DOMAIN lines' : lines'[j].life <= life'
    BY <1>1, <2>1, <2>4, <2>5
  <2>7. ASSUME NEW i \in glued'
        PROVE  /\ i \in DOMAIN lines' /\ lines'[i].life > 1
               /\ \A j \in DOMAIN lines' : lines'[j].life = lines'[i].life => j >= i
    <3>1. CASE i \in glued
      <4>1. /\ i \in 1..n /\ lines[i].life > 1
            /\ \A j \in 1..n : lines[j].life = lines[i].life => j >= i
        BY <2>3, <3>1 DEF TornAre, TornLinesCostOne
      <4> QED
        BY <2>3, <2>4, <4>1
    <3>2. CASE i \notin glued
      <4>1. i = n + 1 /\ tornTail = "yes"
        BY <2>2, <2>3, <2>7, <3>2
      <4>2. life > 1 /\ \A j \in 1..n : lines[j].life < life
        BY <1>1, <2>3, <4>1 DEF TornAre
      <4> QED
        BY <1>1, <2>1, <2>3, <2>4, <2>5, <4>1, <4>2
    <3> QED
      BY <3>1, <3>2
  <2>8. TornLinesCostOne'
    BY <2>7 DEF TornLinesCostOne
  <2> QED
    BY <2>2, <2>6, <2>8 DEF TornAre
<1>4. CASE kept # "kept"
  <2>1. UNCHANGED <<lines, glued>> /\ step' = "down"
    BY <1>4 DEF AppendLine, Ends
  <2>2. TornLinesCostOne'
    BY <2>1 DEF TornAre, TornLinesCostOne
  <2> QED
    BY <1>1, <2>1, <2>2 DEF TornAre
<1> QED
  BY <1>3, <1>4

LEMMA TornStep == ASSUME ProbeTypes, TornAre, [ProbeNext]_probeVars PROVE TornAre'
<1>0. /\ life \in Nat \ {0} /\ lines \in Seq(Records)
      /\ \A j \in DOMAIN lines : lines[j].life \in Nat /\ lines[j].life <= life
  <2>1. life \in Nat \ {0} /\ lines \in Seq(Records)
    BY DEF ProbeTypes, LoopOK, FilesOK
  <2>2. \A j \in DOMAIN lines : lines[j] \in Records
    BY <2>1
  <2> QED
    BY <2>1, <2>2 DEF TornAre, Records
<1>1. CASE \E outcome \in {"appended", "raises"}, kept \in {"kept", "part", "lost"} : AppendLine(outcome, kept)
  BY <1>1, TornLine
<1>2. CASE ProbeStarts
  <2>1. UNCHANGED <<lines, glued>> /\ life' = life + 1
    BY <1>2 DEF ProbeStarts, fileVars
  <2>2. life' > 1 /\ \A j \in DOMAIN lines' : lines'[j].life < life' /\ lines'[j].life <= life'
    BY <1>0, <2>1
  <2>3. TornLinesCostOne'
    BY <2>1 DEF TornAre, TornLinesCostOne
  <2> QED
    BY <2>2, <2>3 DEF TornAre
<1>3. CASE UNCHANGED <<lines, glued, tornTail, life>> /\ (step' = "down" \/ step # "down" \/ step' = step)
  <2>1. TornLinesCostOne'
    BY <1>3 DEF TornAre, TornLinesCostOne
  <2> QED
    BY <1>3, <2>1 DEF TornAre
<1> QED
  BY <1>1, <1>2, <1>3 DEF ProbeNext, probeVars, engineVars, fileVars, Capture, Checkpoint, SaveEvidence,
     AppendRow, Publish, SkipPublish, ProbeDies

-----------------------------------------------------------------------------
FilesInv ==
  /\ ImagesShow /\ PicturesAre /\ TornAre /\ NothingLater /\ RowsAre /\ AccountsAre /\ CountsAreChained /\ PublishedIsRecorded

LEMMA FilesStart == ProbeInit => FilesInv
<1> SUFFICES ASSUME ProbeInit PROVE FilesInv
  OBVIOUS
<1>0. ProbeTypes
  BY ProbeInitTyped
<1>1. /\ pending = <<>> /\ step = "capture" /\ life = 1 /\ lines = <<>> /\ rows = <<>>
      /\ checkpoint = [c \in Classes |-> NoImage] /\ published.life = 0
      /\ \A c \in Classes : stock[c].stable = 0
  BY EnginesAreNew DEF ProbeInit, EmptyStock
<1>2. \A n, wanted : Of(lines, n, wanted) = <<>> /\ Of(rows, n, wanted) = <<>>
  BY <1>1, AmongNone DEF Of
<1>3. \A n, c : Changes(lines, n, c) = <<>> /\ Account(lines, n, c) = 0 /\ Account(rows, n, c) = 0
  BY <1>2, ChangesAre DEF Account, CountAfter
<1>4. ImagesShow
  BY <1>1, Constants DEF ImagesShow
<1>5. NothingLater /\ RowsAre
  BY <1>1, <1>2, OfLifeIs DEF NothingLater, RowsAre
<1>6. AccountsAre
  BY <1>1, <1>3, ToldNone DEF AccountsAre, Unwritten
<1>7. CountsAreChained /\ PublishedIsRecorded
  BY <1>1, <1>3 DEF CountsAreChained, PublishedIsRecorded
<1>8. TornAre
  BY <1>1 DEF TornAre, TornLinesCostOne, ProbeInit
<1> QED
  BY <1>4, <1>5, <1>6, <1>7, <1>8, NewPictures DEF FilesInv

LEMMA FilesStep == EnginesInv /\ FilesInv /\ [ProbeNext]_probeVars => FilesInv'
BY ImagesStep, PicturesStep, TornStep, RowsStep, AccountsStep, ChainStep, PublishedStep DEF FilesInv, EnginesInv

LEMMA FilesSound == EnginesInv /\ FilesInv => RecordsAreSound
BY CountersExact, RowsFollow, ImageIsRecent DEF FilesInv, EnginesInv, RecordsAreSound, TornAre

\* What the event file, the table, the images and the state file say fits
\* together after every failure and every start of the vision process, for any
\* classes, counts and confirmation frames: rows follow lines, the changes add
\* up, what is published was recorded, a line torn by a death costs the reader
\* the first line of one later life at most, the image before a removal shows
\* the count before or the frame that confirms the change once the count was in
\* sight for an interval, and the counts are those the debounce defines.
THEOREM RecordsAreSoundHolds == ProbeSpec => []RecordsAreSound
<1> QED
  BY EnginesStart, EnginesStep, FilesStart, FilesStep, FilesSound, PTL DEF ProbeSpec
================================================================================
