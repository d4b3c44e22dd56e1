------------------------------ MODULE Tracking ------------------------------
(***************************************************************************)
(* The identities of packages/tracking/iou_tracker.py: a frame's           *)
(* detections are given to the known tracks greedily by overlap, what is   *)
(* not matched is missed or becomes a new track.  Boxes are integer        *)
(* rectangles <<x1, y1, x2, y2>>, an overlap is the fraction               *)
(* <<intersection, union>>; confidence, age and the drawn trajectory       *)
(* decide nothing here and are left out.                                   *)
(***************************************************************************)
EXTENDS Integers, FiniteSets, Sequences

CONSTANTS Threshold,   \* iou_threshold, as a fraction <<p, q>>
          MaxMissed,   \* max_missed_frames of the tracker
          HitsBound    \* bound: hits are counted up to here

ASSUME TrackingAssumption ==
  /\ Threshold \in Nat \X (Nat \ {0})
  /\ MaxMissed \in Nat /\ HitsBound \in Nat \ {0}

Lesser(a, b) == IF a <= b THEN a ELSE b
Greater(a, b) == IF a <= b THEN b ELSE a

Side(low, high) == Greater(0, high - low)

Area(b) == Side(b[1], b[3]) * Side(b[2], b[4])

Overlap(l, r) ==
  Side(Greater(l[1], r[1]), Lesser(l[3], r[3]))
    * Side(Greater(l[2], r[2]), Lesser(l[4], r[4]))

IoU(l, r) ==
  LET union == Area(l) + Area(r) - Overlap(l, r)
  IN  IF union <= 0 THEN <<0, 1>> ELSE <<Overlap(l, r), union>>

Exceeds(f, g) == f[1] * g[2] > g[1] * f[2]

\* A track and a detection (by its index in the frame) that may be matched.
Candidates(known, dets) ==
  {c \in known \X (DOMAIN dets) :
     /\ c[1].class = dets[c[2]].class
     /\ ~Exceeds(Threshold, IoU(c[1].box, dets[c[2]].box))}

\* The order the candidates are tried in: better overlap, older track, index.
Sooner(dets, c, d) ==
  LET f == IoU(c[1].box, dets[c[2]].box)
      g == IoU(d[1].box, dets[d[2]].box)
  IN  \/ Exceeds(f, g)
      \/ ~Exceeds(g, f) /\ (c[1].id < d[1].id \/ (c[1] = d[1] /\ c[2] < d[2]))

Disjoint(c, d) == c[1] # d[1] /\ c[2] # d[2]

FaultyLeft(rest, c) == {d \in rest : c # d /\ c[2] # d[2]}

\* What a matched pair leaves to the rest of the loop.
Left(rest, c) == {d \in rest : Disjoint(c, d)}

\* The loop over the sorted candidates: the first that is left is matched.
Matching(known, dets) ==
  LET First(rest) == CHOOSE c \in rest :
                       \A d \in rest \ {c} : Sooner(dets, c, d)
      greedy[rest \in SUBSET Candidates(known, dets)] ==
        IF rest = {} THEN {} ELSE {First(rest)} \cup greedy[Left(rest, First(rest))]
  IN  greedy[Candidates(known, dets)]

NewTrack(i, det) ==
  [id |-> i, class |-> det.class, box |-> det.box, hits |-> 1, missed |-> 0]

Matched(track, det) ==
  [track EXCEPT !.box = det.box, !.hits = Lesser(@ + 1, HitsBound), !.missed = 0]

Lost(track) == track.missed + 1 > MaxMissed

\* IoUTracker.update after the matching: the tracks of the frame, the new
\* ones numbered from next in the order of their detections.
AfterFrame(known, pairs, next, dets) ==
  LET unmatched == known \ {c[1] : c \in pairs}
      extra == (DOMAIN dets) \ {c[2] : c \in pairs}
      Id(d) == next + Cardinality({e \in extra : e < d})
  IN  {Matched(c[1], dets[c[2]]) : c \in pairs}
      \cup {[t EXCEPT !.missed = @ + 1] : t \in {u \in unmatched : ~Lost(u)}}
      \cup {NewTrack(Id(d), dets[d]) : d \in extra}

NextTrackId(pairs, next, dets) == next + Len(dets) - Cardinality(pairs)
=============================================================================
