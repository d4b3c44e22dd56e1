----------------------------- MODULE Inventory ------------------------------
(***************************************************************************)
(* The debounced inventory of packages/analytics/inventory.py and the      *)
(* left-behind alarm of packages/analytics/left_behind.py, as what one     *)
(* frame makes of their state.  An object class is seen in a number of     *)
(* visible tracks; track ids travel with the counts and are left out.      *)
(***************************************************************************)
EXTENDS Naturals

CONSTANTS Classes, MaxVisible,
          AppearConfirm, RemoveConfirm,   \* confirmation frames
          LeftConfirm, RearmPeople

ASSUME InventoryAssumption ==
  {AppearConfirm, RemoveConfirm, LeftConfirm, RearmPeople} \subseteq Nat \ {0} /\ MaxVisible \in Nat

NoCandidate == MaxVisible + 1

EmptyStock == [stable |-> 0, candidate |-> NoCandidate, frames |-> 0]

FaultyFramesOf(s, count) == s.frames + 1

FramesOf(s, count) == IF s.candidate = count THEN s.frames + 1 ELSE 1

Needed(s, count) == IF count > s.stable THEN AppearConfirm ELSE RemoveConfirm

Confirmed(s, count) == count # s.stable /\ FramesOf(s, count) >= Needed(s, count)

\* InventoryEngine.update for one class.
Stocked(s, count) ==
  IF count = s.stable \/ Confirmed(s, count)
  THEN [stable |-> count, candidate |-> NoCandidate, frames |-> 0]
  ELSE [s EXCEPT !.candidate = count, !.frames = FramesOf(s, count)]

FaultyChange(c, s, count) ==
  [class |-> c, before |-> count, after |-> count, shown |-> MaxVisible + 1,
   kind |-> IF count > s.stable THEN "OBJECT_APPEARED" ELSE "OBJECT_REMOVED"]

Change(c, s, count) ==
  [class |-> c, before |-> s.stable, after |-> count, shown |-> MaxVisible + 1,
   kind |-> IF count > s.stable THEN "OBJECT_APPEARED" ELSE "OBJECT_REMOVED"]

Watchless == [frames |-> 0, alerted |-> "no", last |-> 0]

FaultyAttended(w, count, presentFrames) ==
  [frames |-> 0, last |-> count, alerted |-> "no"]

\* LeftBehindEngine.update for one class while somebody is there ...
Attended(w, count, presentFrames) ==
  [frames |-> 0, last |-> count,
   alerted |-> IF presentFrames >= RearmPeople THEN "no" ELSE w.alerted]

\* ... and while nobody is: a changed count begins a new wait.
Fresh(w, count) == IF count # w.last THEN [frames |-> 0, alerted |-> "no", last |-> count] ELSE w

Alarms(w, count) ==
  /\ count > 0
  /\ Fresh(w, count).alerted = "no"
  /\ Fresh(w, count).frames + 1 >= LeftConfirm

Unattended(w, count) ==
  IF count = 0 THEN Watchless
  ELSE IF Fresh(w, count).alerted = "yes" THEN Fresh(w, count)
  ELSE [Fresh(w, count) EXCEPT !.frames = @ + 1,
                               !.alerted = IF Alarms(w, count) THEN "yes" ELSE "no"]

Alarm(c, count) ==
  [class |-> c, before |-> count, after |-> count, shown |-> MaxVisible + 1,
   kind |-> "OBJECT_LEFT_BEHIND"]
=============================================================================
