---------------------------- MODULE VisionProbe -----------------------------
(***************************************************************************)
(* The frame loop of apps/vision_probe.py from the counts of a frame to    *)
(* its records: inventory and left-behind events (module Inventory), the   *)
(* checkpoint image and the evidence of packages/evidence/manager.py, the  *)
(* line and the row of an event, and the state file readers look at.  An   *)
(* image is what it shows: the number of visible objects of the class.     *)
(* Stores raise, the process ends and is started again with empty engines  *)
(* over the files of its predecessor.                                      *)
(***************************************************************************)
EXTENDS Inventory, FiniteSets, Sequences, SequencesExt

CONSTANTS CheckpointEvery,   \* frames between two checkpoints of a class
          MaxEvents,         \* bound: events recorded
          MaxLives           \* bound: starts of the process

ASSUME ProbeAssumption ==
  {CheckpointEvery, MaxEvents, MaxLives} \subseteq Nat \ {0} /\ IsFiniteSet(Classes)

VARIABLES stock,        \* InventoryEngine._states
          watch,        \* LeftBehindEngine._states
          presentFrames,  \* LeftBehindEngine._people_present_frames
          age,          \* frames since the last checkpoint of a class
          scene,        \* the frame in hand: visible objects by class
          pending,      \* its events that are not recorded yet
          step,         \* where the loop is
          checkpoint,   \* file: the checkpoint image of a class
          lines, rows,  \* files: the JSON lines and the database rows
          tornTail,     \* the file of lines ends in a part of a line
          published,    \* file: the stable counts of the current state
          life,         \* starts so far
          recent,       \* history: the last frames of this life
          excused,      \* history: classes whose alarm is armed again
          sitting,      \* history: how long a count is in force, which count the
                        \* checkpoint must show, and which one is owed to a change
          glued         \* history: lines written behind a part of another one

engineVars == <<stock, watch, presentFrames, age, scene, recent, excused, sitting>>
fileVars == <<checkpoint, lines, rows, tornTail, published, glued>>
probeVars == <<engineVars, fileVars, pending, step, life>>

Counts == [Classes -> 0..MaxVisible]
Stable(s) == [c \in Classes |-> s[c].stable]
Span == CHOOSE n \in {AppearConfirm, RemoveConfirm, LeftConfirm} :
          \A m \in {AppearConfirm, RemoveConfirm, LeftConfirm} : m <= n

NoImage == MaxVisible + 1
Torn == MaxVisible + 2      \* an image of which only a part was written

NobodySat == [frames |-> 0, taken |-> 0, owed |-> 0]

NewEngines ==
  [stock |-> [c \in Classes |-> EmptyStock], watch |-> [c \in Classes |-> Watchless],
   age |-> [c \in Classes |-> CheckpointEvery], scene |-> [c \in Classes |-> 0]]

ProbeInit ==
  /\ stock = NewEngines.stock /\ watch = NewEngines.watch /\ presentFrames = 0
  /\ age = NewEngines.age /\ scene = NewEngines.scene
  /\ recent = <<>> /\ excused = Classes /\ sitting = [c \in Classes |-> NobodySat]
  /\ pending = <<>> /\ step = "capture" /\ life = 1
  /\ checkpoint = [c \in Classes |-> NoImage]
  /\ lines = <<>> /\ rows = <<>> /\ tornTail = "no" /\ glued = {}
  /\ published = [life |-> 0, counts |-> [c \in Classes |-> 0]]

\* What the engines append to the events of a frame, in their order.
StockEvents(seen) ==
  SetToSeq({Change(c, stock[c], seen[c]) : c \in {d \in Classes : Confirmed(stock[d], seen[d])}})

AlarmEvents(counts, people) ==
  IF people > 0 THEN <<>>
  ELSE SetToSeq({Alarm(c, counts[c]) : c \in {d \in Classes : Alarms(watch[d], counts[d])}})

PresentFrames(people) ==
  IF people = 0 THEN 0
  ELSE IF presentFrames < RearmPeople THEN presentFrames + 1 ELSE RearmPeople

Watched(counts, people) ==
  [c \in Classes |-> IF people > 0
                     THEN Attended(watch[c], counts[c], PresentFrames(people))
                     ELSE Unattended(watch[c], counts[c])]

Excuses(counts, people, alarms) ==
  {c \in Classes :
     /\ \A i \in DOMAIN alarms : alarms[i].class # c
     /\ c \in excused \/ counts[c] # stock[c].stable \/ PresentFrames(people) >= RearmPeople}

\* A count that is confirmed begins a sitting; what the last one left is owed
\* to the change.
Sits(s, changed) ==
  IF changed THEN [frames |-> 1, taken |-> 0, owed |-> s.taken]
  ELSE [s EXCEPT !.frames = IF @ < CheckpointEvery THEN @ + 1 ELSE @, !.owed = 0]

\* Capture, tracking and the two engines: one call after the other on the
\* frame's counts, nothing is written yet.
Capture(seen, people) ==
  /\ step = "capture"
  /\ \E next \in {[c \in Classes |-> Stocked(stock[c], seen[c])]} :
     \E counts \in {Stable(next)} :
       LET alarms == AlarmEvents(counts, people)
       IN  /\ Len(lines) + Len(StockEvents(seen)) + Len(alarms) <= MaxEvents
           /\ pending' = StockEvents(seen) \o alarms
           /\ stock' = next
           /\ watch' = Watched(counts, people)
           /\ excused' = Excuses(counts, people, alarms)
           /\ sitting' = [c \in Classes |-> Sits(sitting[c], counts[c] # stock[c].stable)]
           /\ recent' = SubSeq(<<[seen |-> seen, stable |-> counts, people |-> people]>>
                                 \o recent, 1, IF Len(recent) < Span THEN Len(recent) + 1 ELSE Span)
  /\ presentFrames' = PresentFrames(people)
  /\ scene' = seen
  /\ age' = [c \in Classes |-> IF age[c] < CheckpointEvery THEN age[c] + 1 ELSE age[c]]
  /\ step' = "checkpoint"
  /\ UNCHANGED <<fileVars, life>>

FaultyDue(c) == stock[c].stable > 0 /\ age[c] >= CheckpointEvery

\* update_inventory_snapshot: a class is due when what is visible is what is
\* stable.
InSight(c) == stock[c].stable > 0 /\ scene[c] = stock[c].stable
Due(c) == InSight(c) /\ age[c] >= CheckpointEvery

\* A count in sight that has been in force for an interval has been pictured.
Pictured(c) ==
  IF InSight(c) /\ sitting[c].frames >= CheckpointEvery
  THEN [sitting[c] EXCEPT !.taken = stock[c].stable] ELSE sitting[c]

\* Images are written in place; one that cannot be written ends the loop over
\* the classes, is noted in the events of the frame, and leaves the old image
\* or a part of the new one.
Checkpoint(saved, broken) ==
  /\ step = "checkpoint"
  /\ saved \cup broken \subseteq {c \in Classes : Due(c)}
  /\ saved \cap broken = {} /\ \A c, d \in broken : c = d
  /\ checkpoint' = [c \in Classes |-> IF c \in saved THEN scene[c]
                                     ELSE IF c \in broken THEN Torn ELSE checkpoint[c]]
  /\ age' = [c \in Classes |-> IF c \in saved THEN 0 ELSE age[c]]
  /\ sitting' = [c \in Classes |-> IF c \in saved \/ ~Due(c) THEN Pictured(c)
                                  ELSE IF c \in broken THEN [sitting[c] EXCEPT !.taken = 0, !.owed = 0]
                                  ELSE sitting[c]]
  /\ step' = IF pending = <<>> THEN "publish" ELSE "evidence"
  /\ UNCHANGED <<stock, watch, presentFrames, scene, recent, excused, pending, lines, rows,
                 tornTail, published, glued, life>>

\* EvidenceManager.save: the image after, and for a removal a copy of the
\* checkpoint as the image before; either may fail, which is only noted.
Illustrated(e, outcome) ==
  IF e.kind = "OBJECT_REMOVED" /\ outcome = "saved"
  THEN [e EXCEPT !.shown = checkpoint[e.class]]
  ELSE e

SaveEvidence(outcome) ==
  /\ step = "evidence"
  /\ pending' = [pending EXCEPT ![1] = Illustrated(@, outcome)]
  /\ step' = "line"
  /\ UNCHANGED <<engineVars, fileVars, life>>

Record(e) == [life |-> life, event |-> e]

FaultyEnds(appending) == "run"

\* A store that raises, or in which the process dies, ends it with or without
\* what it wrote: a row is rolled back, a line may be complete or a part.
Ends(appending) == IF appending = "raises" THEN "down" ELSE "run"

\* What is written behind a part of a line is no line a reader can parse.
AppendLine(outcome, kept) ==
  /\ step = "line"
  /\ outcome = "appended" => kept = "kept"
  /\ lines' = IF kept = "kept" THEN Append(lines, Record(Head(pending))) ELSE lines
  /\ glued' = IF kept = "kept" /\ tornTail = "yes" THEN glued \cup {Len(lines) + 1} ELSE glued
  /\ tornTail' = CASE kept = "kept" -> "no" [] kept = "part" -> "yes" [] OTHER -> tornTail
  /\ step' = IF Ends(outcome) = "down" THEN "down" ELSE "row"
  /\ UNCHANGED <<engineVars, checkpoint, rows, published, pending, life>>

AppendRow(outcome) ==
  /\ step = "row"
  /\ rows' = IF outcome = "appended" THEN Append(rows, Record(Head(pending))) ELSE rows
  /\ pending' = Tail(pending)
  /\ step' = IF Ends(outcome) = "down" THEN "down"
             ELSE IF Tail(pending) = <<>> THEN "publish" ELSE "evidence"
  /\ UNCHANGED <<engineVars, checkpoint, lines, tornTail, published, glued, life>>

\* The state file is replaced as a whole, every state_every frames, or the
\* write raises and ends the process.
Publish(outcome) ==
  /\ step = "publish"
  /\ published' = IF outcome = "appended"
                  THEN [life |-> life, counts |-> Stable(stock)] ELSE published
  /\ step' = IF Ends(outcome) = "down" THEN "down" ELSE "capture"
  /\ UNCHANGED <<engineVars, checkpoint, lines, rows, tornTail, glued, pending, life>>

SkipPublish ==
  /\ step = "publish"
  /\ step' = "capture"
  /\ UNCHANGED <<engineVars, fileVars, pending, life>>

\* A signal, a crash, the end of the stream.
ProbeDies ==
  /\ step # "down"
  /\ step' = "down"
  /\ UNCHANGED <<engineVars, fileVars, pending, life>>

ProbeStarts ==
  /\ step = "down" /\ life < MaxLives
  /\ stock' = NewEngines.stock /\ watch' = NewEngines.watch /\ presentFrames' = 0
  /\ age' = NewEngines.age /\ scene' = NewEngines.scene
  /\ recent' = <<>> /\ excused' = Classes /\ sitting' = [c \in Classes |-> NobodySat]
  /\ pending' = <<>> /\ step' = "capture" /\ life' = life + 1
  /\ UNCHANGED fileVars

ProbeNext ==
  \/ \E seen \in Counts, people \in 0..1 : Capture(seen, people)
  \/ \E saved, broken \in SUBSET Classes : Checkpoint(saved, broken)
  \/ \E outcome \in {"saved", "failed"} : SaveEvidence(outcome)
  \/ \E outcome \in {"appended", "raises"} :
       \/ \E kept \in {"kept", "part", "lost"} : AppendLine(outcome, kept)
       \/ AppendRow(outcome)
       \/ Publish(outcome)
  \/ SkipPublish \/ ProbeDies \/ ProbeStarts

ProbeSpec == ProbeInit /\ [][ProbeNext]_probeVars

-----------------------------------------------------------------------------
Events ==
  [class : Classes, before : 0..MaxVisible, after : 0..MaxVisible, shown : 0..Torn,
   kind : {"OBJECT_APPEARED", "OBJECT_REMOVED", "OBJECT_LEFT_BEHIND"}]
ChangesOf(c) == {e \in Events : e.class = c /\ e.kind # "OBJECT_LEFT_BEHIND"}

\* The wanted ones of some records, in their order.
Among(records, wanted) ==
  LET found[i \in 0..Len(records)] ==
        IF i = 0 THEN <<>>
        ELSE IF records[i] \in wanted THEN Append(found[i - 1], records[i]) ELSE found[i - 1]
  IN  found[Len(records)]

OfLife(records, n) == Among(records, [life : {n}, event : Events])

Changes(records, n, c) == Among(records, [life : {n}, event : ChangesOf(c)])

CountAfter(changes) == IF changes = <<>> THEN 0 ELSE changes[Len(changes)].event.after

\* The two stores tell one story: in each life of the process the rows are
\* the lines that were written, in their order, short of at most the one the
\* process ended on.
RowsFollowLines ==
  \A n \in 1..life :
    LET l == OfLife(lines, n)
        r == OfLife(rows, n)
    IN  /\ Len(r) \in {Len(l), Len(l) - 1}
        /\ r = SubSeq(l, 1, Len(r))
        /\ n = life /\ step \in {"capture", "checkpoint"} => Len(r) = Len(l)

\* The changes of a class in the event file can be added up: within a life
\* each begins at the count its predecessor ended with, the first at zero,
\* whatever failed, so that no recorded change follows an unrecorded one.
CountsAreChained ==
  \A n \in 1..life, c \in Classes :
    LET story == Changes(lines, n, c)
    IN  \A i \in DOMAIN story :
          /\ story[i].event.before = CountAfter(SubSeq(story, 1, i - 1))
          /\ story[i].event.before # story[i].event.after

\* A process that ends inside a line takes with it one line of another life at
\* most, the first one: every other line can be parsed, and what a reader
\* cannot parse has its row like any line.
TornLinesCostOne ==
  \A i \in glued :
    /\ i \in DOMAIN lines /\ lines[i].life > 1
    /\ \A j \in DOMAIN lines : lines[j].life = lines[i].life => j >= i

\* Who reads the state file finds the rows that explain its counts: what is
\* published was recorded before.
PublishedIsRecorded ==
  \/ published.life = 0
  \/ \E n \in 0..Len(rows) :
       \A c \in Classes :
         published.counts[c] = CountAfter(Changes(SubSeq(rows, 1, n), published.life, c))

\* The last k frames of this life, seen alike.
SeenFor(k, c, count) == Len(recent) >= k /\ \A j \in 1..k : recent[j].seen[c] = count

QuietFor(k, c) ==
  /\ Len(recent) >= k
  /\ recent[1].stable[c] > 0
  /\ \A j \in 1..k : recent[j].people = 0 /\ recent[j].stable[c] = recent[1].stable[c]

StableBefore(c) == IF Len(recent) < 2 THEN 0 ELSE recent[2].stable[c]

\* The debounce by its definition: a count becomes stable in the frame that
\* completes as many frames in a row as its direction needs, never by fewer,
\* and an object nobody attends to is reported once its wait is complete.
CountersAreExact ==
  step # "down" =>
  \A c \in Classes :
    /\ recent # <<>> /\ recent[1].stable[c] # StableBefore(c) =>
         SeenFor(IF recent[1].stable[c] > StableBefore(c) THEN AppearConfirm ELSE RemoveConfirm,
                 c, recent[1].stable[c])
    /\ \A v \in 0..MaxVisible :
         SeenFor(IF AppearConfirm > RemoveConfirm THEN AppearConfirm ELSE RemoveConfirm, c, v)
           => stock[c].stable = v
    /\ QuietFor(LeftConfirm, c) => watch[c].alerted = "yes"

Alarmed(c) ==
  \E i \in DOMAIN pending : pending[i].class = c /\ pending[i].kind = "OBJECT_LEFT_BEHIND"

\* A left-behind alarm is earned: its wait was complete, without people and
\* with one count, and since the last alarm of its class the count changed or
\* people stayed long enough to arm it again.
AlarmsAreEarned ==
  [][\A c \in Classes :
       step = "capture" /\ step' = "checkpoint" /\ Alarmed(c)' =>
         QuietFor(LeftConfirm, c)' /\ (c \in excused \/ stock'[c].stable # stock[c].stable)]_probeVars

\* A removal that was given its images, on its way to the stores.
Removing ==
  /\ pending # <<>> /\ step \in {"line", "row"}
  /\ Head(pending).kind = "OBJECT_REMOVED" /\ Head(pending).shown # NoImage

Owed(e) == sitting[e.class].owed > 0

\* What the image before a removal shows.  It is never a frame without the
\* object, also when an earlier process left it, though it may be torn.  When
\* the count had been in force and then in sight for an interval, and no image
\* of the class was torn since, it shows that count; of a partial removal it
\* may show the frame that confirms it instead.
ImageBeforeIsRecent ==
  /\ \A i \in DOMAIN lines : lines[i].event.shown # 0
  /\ Removing => LET e == Head(pending)
                 IN  Owed(e) => e.shown = e.before \/ (e.shown = e.after /\ e.after > 0)

\* The claim of the documentation: the image before a removal shows what was
\* there before it.  The checkpoint of a class is replaced by the frame that
\* confirms a change before the change is given its images, so that a removal
\* of some of the objects breaks it.
ImageBeforeShowsTheCount ==
  Removing => LET e == Head(pending) IN Owed(e) => e.shown = e.before

\* What the event file, the table, the images and the state file say of a
\* frame fits together after every failure and every start, the counts are
\* those of the frames, and the events add up to them.
RecordsAreSound ==
  /\ RowsFollowLines /\ TornLinesCostOne /\ PublishedIsRecorded /\ ImageBeforeIsRecent
  /\ CountersAreExact /\ CountsAreChained
=============================================================================
