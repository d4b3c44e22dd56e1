-------------------------- MODULE CameraRestartProofs --------------------------
(***************************************************************************)
(* Restarts, outages and stored events of the supervisor, for any number   *)
(* of requests, starts, failures and failing writes.                       *)
(***************************************************************************)
EXTENDS CameraRestart, WellFoundedInduction, SequenceTheorems, TLAPS

--------------------------------------------------------------------------------
(* Restarts                                                                *)

Answered == {"NONE", "WAITING", "DONE", "FAILED", "LOST"}

RequestsKnown ==
    /\ outcome \in [Requests -> Answered]
    /\ {lastId, pendingId, published.id, call} \subseteq Requests \cup {NoRequest}
    /\ request \in [id : Requests \cup {NoRequest}, valid : BOOLEAN]
    /\ request.valid => request.id \in Requests
    /\ served \subseteq Requests

\* What was asked for was asked for by a call, so that the next call is new.
AskedByCall == \A r \in served \cup {request.id} : r \in Requests => outcome[r] # "NONE"

\* A valid request that was served is the last one, whichever process served it.
ServedIsLast == pc # "off" /\ request.valid /\ request.id \in served => request.id = lastId

PendingIsLast ==
    /\ pc = "off" => pendingId = NoRequest /\ control = "NONE"
    /\ pendingId \in Requests => pendingId \in served /\ pendingId = lastId

\* A frame of the new worker is seen after the request was remembered.
FreshIsCured ==
    pc \in {"poll", "look"} /\ vision = "fresh" /\ pendingId \in Requests
        => pendingId \in cured

CompletedIsCured ==
    /\ control = "COMPLETED" /\ lastId \in Requests => lastId \in served \cap cured
    /\ published.control = "COMPLETED" /\ published.id \in Requests
           => published.id \in served \cap cured

RestartInv ==
    /\ RequestsKnown /\ AskedByCall /\ ServedIsLast /\ PendingIsLast
    /\ FreshIsCured /\ CompletedIsCured
    /\ RestartsOnce /\ DoneMeansRestarted

LEMMA InitRestart == Init => RestartInv
BY SupervisorAssumption
   DEF Init, SupervisorInit, Published, NoFile, RestartInv, RequestsKnown, Answered,
       AskedByCall, ServedIsLast, PendingIsLast, FreshIsCured, CompletedIsCured,
       RestartsOnce, DoneMeansRestarted

\* The loop without a request: what it publishes is what it remembers.
LEMMA BootRestart == RestartInv /\ Boot /\ UNCHANGED clientVars => RestartInv'
BY SupervisorAssumption
   DEF Boot, Publish, Published, Remembered, clientVars, outside, restarts, memory,
       RestartInv, RequestsKnown, Answered,
       AskedByCall, ServedIsLast, PendingIsLast, FreshIsCured, CompletedIsCured,
       RestartsOnce, DoneMeansRestarted

LEMMA LoopRestart ==
    ASSUME RestartInv, UNCHANGED clientVars,
           \/ WaitForCamera \/ Launch \/ LaunchFails \/ PollWorker \/ SeeDeviceGone
           \/ SeeStalled \/ SeeNothing \/ StartupTimesOut \/ Relaunch
    PROVE  RestartInv'
<1>1. /\ UNCHANGED <<lastId, control, pendingId, request, served, again, cured, outcome, call>>
      /\ pc # "off" /\ pc' # "off"
      /\ \/ published' = published
         \/ published'.id = lastId /\ published'.control = control
      /\ pc' \in {"poll", "look"} /\ vision' = "fresh"
           => pc \in {"poll", "look"} /\ vision = "fresh"
  BY DEF WaitForCamera, Launch, LaunchFails, PollWorker, SeeDeviceGone, SeeStalled,
         SeeNothing, StartupTimesOut, Relaunch, EndGeneration, Publish, Published, clientVars,
         outside, restarts, memory
<1> QED
  BY <1>1 DEF RestartInv, RequestsKnown, AskedByCall, ServedIsLast, PendingIsLast,
              FreshIsCured, CompletedIsCured, RestartsOnce, DoneMeansRestarted

LEMMA AcceptRestart == RestartInv /\ AcceptRequest /\ UNCHANGED clientVars => RestartInv'
<1> SUFFICES ASSUME RestartInv, AcceptRequest, UNCHANGED clientVars
             PROVE  RestartInv'
  OBVIOUS
<1>1. request.id \in Requests /\ request.id \notin served /\ pc' = "ended"
  BY DEF AcceptRequest, Readable, EndGeneration, RestartInv, RequestsKnown, ServedIsLast
<1> QED
  BY <1>1, SupervisorAssumption
     DEF AcceptRequest, EndGeneration, Publish, Published, clientVars,
         RestartInv, RequestsKnown, AskedByCall, ServedIsLast, PendingIsLast,
         FreshIsCured, CompletedIsCured, RestartsOnce, DoneMeansRestarted

LEMMA FreshRestart == RestartInv /\ SeeFresh /\ UNCHANGED clientVars => RestartInv'
BY SupervisorAssumption
   DEF SeeFresh, Answers, Publish, Published, clientVars, outside, restarts,
       RestartInv, RequestsKnown, AskedByCall, ServedIsLast, PendingIsLast,
       FreshIsCured, CompletedIsCured, RestartsOnce, DoneMeansRestarted

LEMMA EndRestart ==
    RestartInv /\ (Exit \/ Crash) /\ UNCHANGED clientVars => RestartInv'
BY SupervisorAssumption
   DEF Exit, Crash, Ends, Published, clientVars, restarts,
       RestartInv, RequestsKnown, AskedByCall, ServedIsLast, PendingIsLast,
       FreshIsCured, CompletedIsCured, RestartsOnce, DoneMeansRestarted

LEMMA OutsideRestart ==
    RestartInv /\ (Stop \/ WorkerFrame \/ WorkerFails \/ FrameAges \/ DeviceChanges)
        /\ UNCHANGED clientVars => RestartInv'
BY SupervisorAssumption
   DEF Stop, WorkerFrame, WorkerFails, FrameAges, DeviceChanges, clientVars, restarts, memory,
       RestartInv, RequestsKnown, AskedByCall, ServedIsLast, PendingIsLast,
       FreshIsCured, CompletedIsCured, RestartsOnce, DoneMeansRestarted

LEMMA CallRestart ==
    ASSUME RestartInv,
           \/ \E r \in Requests : RequestRestart(r)
           \/ RestartReturns \/ RestartTimesOut \/ CallerDies \/ RequestExpires
    PROVE  RestartInv'
<1>1. CASE \E r \in Requests : RequestRestart(r)
  BY <1>1, SupervisorAssumption
     DEF RequestRestart, restarts, memory, outside,
       RestartInv, RequestsKnown, Answered, AskedByCall, ServedIsLast, PendingIsLast,
       FreshIsCured, CompletedIsCured, RestartsOnce, DoneMeansRestarted
<1>2. CASE RestartReturns \/ RestartTimesOut \/ CallerDies
  <2>1. /\ UNCHANGED supervisorVars /\ call \in Requests /\ call' = NoRequest
        /\ \E a \in Answered \ {"NONE"} : outcome' = [outcome EXCEPT ![call] = a]
    BY <1>2 DEF RestartReturns, RestartTimesOut, CallerDies, RestartInv, RequestsKnown, Answered
  <2>2. outcome'[call] = "DONE" => call \in served \cap cured
    BY <1>2, <2>1 DEF RestartReturns, RestartTimesOut, CallerDies, RestartInv, RequestsKnown,
          CompletedIsCured, Confirmed
  <2> QED
    BY <2>1, <2>2
       DEF supervisorVars, restarts, memory, outside,
         RestartInv, RequestsKnown, Answered, AskedByCall, ServedIsLast, PendingIsLast,
         FreshIsCured, CompletedIsCured, RestartsOnce, DoneMeansRestarted
<1>3. CASE RequestExpires
  BY <1>3
     DEF RequestExpires, restarts, memory, outside, clientVars,
       RestartInv, RequestsKnown, AskedByCall, ServedIsLast, PendingIsLast,
       FreshIsCured, CompletedIsCured, RestartsOnce, DoneMeansRestarted
<1> QED
  BY <1>1, <1>2, <1>3

LEMMA StepRestart == RestartInv /\ [Next]_vars => RestartInv'
<1>1. ASSUME RestartInv, UNCHANGED vars PROVE RestartInv'
  BY <1>1 DEF vars, supervisorVars, clientVars, restarts, memory, outside,
       RestartInv, RequestsKnown, AskedByCall, ServedIsLast, PendingIsLast,
       FreshIsCured, CompletedIsCured, RestartsOnce, DoneMeansRestarted
<1> QED
  BY <1>1, BootRestart, LoopRestart, AcceptRestart, FreshRestart, EndRestart, OutsideRestart,
     CallRestart DEF Next, SupervisorNext, Run

\* Over every stop, crash and start of the supervisor, a confirmed restart is
\* served once, and a call that returns done had its worker replaced and the new
\* one deliver a frame.
THEOREM RestartsAreHonestHolds == Spec => []RestartsAreHonest
<1>1. RestartInv => RestartsAreHonest
  BY DEF RestartInv, RestartsAreHonest
<1> QED
  BY <1>1, InitRestart, StepRestart, PTL DEF Spec

--------------------------------------------------------------------------------
(* Outages                                                                 *)

\* Every step is one of four to the events of the camera.
LEMMA EventStep ==
    [Next]_vars => \/ \E status \in Statuses : OnStatus(status)
                   \/ LastStatus \/ Lost \/ UNCHANGED lifecycleVars
<1>1. ASSUME Run PROVE (\E status \in Statuses : OnStatus(status)) \/ LastStatus \/ UNCHANGED lifecycleVars
  BY <1>1 DEF Run, WaitForCamera, Launch, PollWorker, AcceptRequest, SeeDeviceGone, SeeFresh,
              SeeStalled, SeeNothing, Relaunch, Exit, EndGeneration, Publish, Statuses,
              OutageStatuses
<1>2. ASSUME SupervisorNext
      PROVE  \/ \E status \in Statuses : OnStatus(status)
             \/ LastStatus \/ Lost \/ UNCHANGED lifecycleVars
  BY <1>1, <1>2 DEF SupervisorNext, Boot, LaunchFails, StartupTimesOut, EndGeneration, Stop, Crash,
              WorkerFrame, WorkerFails, FrameAges, DeviceChanges, Publish, Statuses,
              OutageStatuses
<1> QED
  BY <1>2 DEF Next, RequestRestart, RestartReturns, RestartTimesOut, CallerDies,
              RequestExpires, vars, supervisorVars

\* An open outage is the last event; without one the last event is a recovery
\* or an outage a dead process left open.
LastIsOpen ==
    /\ emitted \in Seq(Event) /\ outage \in 0..Len(emitted)
    /\ cutShort \subseteq 1..Len(emitted)
    /\ outage # 0 => /\ outage = Len(emitted) /\ outage \notin cutShort
                     /\ emitted[outage].type = "CAMERA_OFFLINE"
    /\ outage = 0 => \/ emitted = <<>>
                     \/ emitted[Len(emitted)].type = "CAMERA_RECOVERED"
                     \/ Len(emitted) \in cutShort

OutageInv == LastIsOpen /\ OutagesArePaired

LEMMA EmitsPaired ==
    ASSUME OutageInv, NEW status, NEW n, NEW how, NEW last, Emits(status, n, how, last),
           UNCHANGED cutShort
    PROVE  OutageInv'
<1> DEFINE id == Len(emitted) + 1
           e == IF Opens(status) THEN [type |-> "CAMERA_OFFLINE", offline |-> id]
                                 ELSE [type |-> "CAMERA_RECOVERED", offline |-> outage]
<1>1. emitted \in Seq(Event) /\ e \in Event /\ id \in Nat
  BY DEF OutageInv, LastIsOpen, Event
<1>2. emitted' = Append(emitted, e) /\ outage' = IF Opens(status) THEN id ELSE 0
  BY DEF Emits
<1>3. /\ emitted' \in Seq(Event) /\ Len(emitted') = id /\ emitted'[id] = e
      /\ \A i \in 1..Len(emitted) : emitted'[i] = emitted[i]
  BY <1>1, <1>2, AppendProperties
<1>4. Opens(status) <=> outage = 0
  BY DEF Emits, Opens, Closes
<1>5. LastIsOpen'
  BY <1>1, <1>2, <1>3, <1>4 DEF OutageInv, LastIsOpen
<1>6. e = IF id > 1 /\ emitted'[id - 1].type = "CAMERA_OFFLINE" /\ id - 1 \notin cutShort
          THEN [type |-> "CAMERA_RECOVERED", offline |-> id - 1]
          ELSE [type |-> "CAMERA_OFFLINE", offline |-> id]
  <2>1. CASE outage = 0
    BY <2>1, <1>1, <1>3, <1>4 DEF OutageInv, LastIsOpen
  <2>2. CASE outage # 0
    BY <2>2, <1>1, <1>3, <1>4 DEF OutageInv, LastIsOpen
  <2> QED
    BY <2>1, <2>2
<1>7. OutagesArePaired'
  <2> SUFFICES ASSUME NEW i \in 1..id
               PROVE emitted'[i] =
                 IF i > 1 /\ emitted'[i - 1].type = "CAMERA_OFFLINE" /\ i - 1 \notin cutShort
                 THEN [type |-> "CAMERA_RECOVERED", offline |-> i - 1]
                 ELSE [type |-> "CAMERA_OFFLINE", offline |-> i]
    BY <1>3 DEF OutagesArePaired
  <2>1. CASE i = id
    BY <2>1, <1>3, <1>6
  <2>2. CASE i # id
    <3>1. i \in 1..Len(emitted) /\ (i > 1 => i - 1 \in 1..Len(emitted))
      BY <2>2, <1>1
    <3>2. emitted[i] =
                 IF i > 1 /\ emitted[i - 1].type = "CAMERA_OFFLINE" /\ i - 1 \notin cutShort
                 THEN [type |-> "CAMERA_RECOVERED", offline |-> i - 1]
                 ELSE [type |-> "CAMERA_OFFLINE", offline |-> i]
      BY <3>1 DEF OutageInv, OutagesArePaired
    <3> QED
      BY <3>1, <3>2, <1>3
  <2> QED
    BY <2>1, <2>2
<1> QED
  BY <1>5, <1>7 DEF OutageInv

LEMMA QuietPaired ==
    OutageInv /\ UNCHANGED <<outage, emitted, cutShort>> => OutageInv'
BY DEF OutageInv, LastIsOpen, OutagesArePaired

\* The process ends: an open outage is cut short where it stands.
LEMMA ForgetPaired == ASSUME OutageInv, NEW left, Forget(left) PROVE OutageInv'
<1>1. /\ outage' = 0 /\ emitted' = emitted /\ cutShort' = cutShort \cup ({outage} \ {0})
      /\ emitted \in Seq(Event) /\ outage \in 0..Len(emitted)
      /\ cutShort \subseteq 1..Len(emitted) /\ Len(emitted) \in Nat
  BY DEF Forget, OutageInv, LastIsOpen
<1>2. outage # 0 => outage = Len(emitted)
  BY DEF OutageInv, LastIsOpen
<1>3. \A i \in 1..Len(emitted) : i - 1 \in cutShort' <=> i - 1 \in cutShort
  BY <1>1, <1>2
<1>4. OutagesArePaired'
  BY <1>1, <1>3 DEF OutageInv, OutagesArePaired
<1>5. LastIsOpen'
  BY <1>1, <1>2 DEF OutageInv, LastIsOpen
<1> QED
  BY <1>4, <1>5 DEF OutageInv

LEMMA StepPaired == OutageInv /\ [Next]_vars => OutageInv'
<1> SUFFICES ASSUME OutageInv, [Next]_vars PROVE OutageInv'
  OBVIOUS
<1>1. ASSUME NEW status \in Statuses, OnStatus(status) PROVE OutageInv'
  BY <1>1, EmitsPaired, QuietPaired DEF OnStatus, Quiet
<1>2. CASE LastStatus \/ Lost
  BY <1>2, ForgetPaired DEF LastStatus, Lost
<1>3. CASE UNCHANGED lifecycleVars
  BY <1>3, QuietPaired DEF lifecycleVars
<1> QED
  BY <1>1, <1>2, <1>3, EventStep

LEMMA InitPaired == Init => OutageInv
BY DEF Init, SupervisorInit, LifecycleInit, OutageInv, LastIsOpen, OutagesArePaired

\* However the statuses of the camera alternate and whenever the process ends,
\* after an outage comes the recovery that names it, and nothing else does.
THEOREM OutagesArePairedHolds == Spec => []OutagesArePaired
<1>1. OutageInv => OutagesArePaired
  BY DEF OutageInv
<1> QED
  BY <1>1, InitPaired, StepPaired, PTL DEF Spec

--------------------------------------------------------------------------------
(* Stored events                                                           *)

\* The library states induction with an operator that the provers cannot
\* instantiate; well-foundedness of < on Nat gives it for a set.
Below == {ss \in Nat \X Nat : ss[1] < ss[2]}

LEMMA BelowIsWellFounded == IsWellFoundedOn(Below, Nat)
BY NatLessThanWellFounded DEF OpToRel, Below

\* What holds of 0 and of every successor holds of every number.
LEMMA SetInduction ==
    ASSUME NEW S, 0 \in S, \A n \in Nat : n \in S => n + 1 \in S
    PROVE  Nat \subseteq S
<1> DEFINE T == Nat \ S
<1>1. SUFFICES ASSUME T # {} PROVE FALSE
  OBVIOUS
<1>2. PICK m \in T : \A y \in T : <<y, m>> \notin Below
  BY <1>1, BelowIsWellFounded, WFMin
<1>3. \A y \in T : ~(y < m)
  BY <1>2 DEF Below
<1>4. m \in Nat /\ m # 0 /\ m - 1 \in Nat
  OBVIOUS
<1>5. m - 1 \in S
  BY <1>3, <1>4
<1> QED
  BY <1>4, <1>5

Stores == [table : SUBSET Nat, lines : Seq(Nat), torn : BOOLEAN, garbled : SUBSET Nat]

Grows(s, t) ==
    /\ s.table \subseteq t.table /\ s.garbled \subseteq t.garbled
    /\ Range(s.lines) \subseteq Range(t.lines)
    /\ IsInjective(s.lines) => IsInjective(t.lines)

InBoth(s, e) == e \in s.table /\ e \in Range(s.lines) \cup s.garbled

LEMMA GrowsOn ==
    ASSUME NEW s, NEW t, NEW u, Grows(s, t), Grows(t, u)
    PROVE  Grows(s, u) /\ \A e : InBoth(s, e) => InBoth(t, e)
BY DEF Grows, InBoth

LEMMA AppendRange ==
    ASSUME NEW es \in Seq(Nat), NEW e \in Nat
    PROVE  Append(es, e) \in Seq(Nat) /\ Range(Append(es, e)) = Range(es) \cup {e}
<1> DEFINE app == Append(es, e)
<1>1. /\ app \in Seq(Nat) /\ DOMAIN app = 1..Len(es) + 1 /\ app[Len(es) + 1] = e
      /\ DOMAIN es = 1..Len(es) /\ Len(es) \in Nat
      /\ \A i \in 1..Len(es) : app[i] = es[i]
  OBVIOUS
<1> HIDE DEF app
<1>2. \A x \in Range(app) : x \in Range(es) \cup {e}
  BY <1>1 DEF Range
<1>3. \A x \in Range(es) \cup {e} : x \in Range(app)
  <2>1. ASSUME NEW i \in 1..Len(es) PROVE es[i] \in Range(app)
    <3>1. i \in DOMAIN app /\ app[i] = es[i]
      BY <1>1
    <3> QED
      BY <3>1, Zenon DEF Range
  <2>2. e \in Range(app)
    <3>1. Len(es) + 1 \in DOMAIN app /\ app[Len(es) + 1] = e
      BY <1>1
    <3> QED
      BY <3>1, Zenon DEF Range
  <2> QED
    BY <1>1, <2>1, <2>2 DEF Range
<1> QED
  BY <1>1, <1>2, <1>3 DEF app

\* A line that is not there yet keeps the lines different from each other.
LEMMA NewLine ==
    ASSUME NEW ls \in Seq(Nat), NEW e \in Nat, e \notin Range(ls)
    PROVE  /\ Append(ls, e) \in Seq(Nat) /\ Range(Append(ls, e)) = Range(ls) \cup {e}
           /\ IsInjective(ls) => IsInjective(Append(ls, e))
<1> DEFINE app == Append(ls, e)
<1>1. /\ app \in Seq(Nat) /\ DOMAIN app = 1..Len(ls) + 1 /\ app[Len(ls) + 1] = e
      /\ DOMAIN ls = 1..Len(ls) /\ Len(ls) \in Nat
      /\ \A i \in 1..Len(ls) : app[i] = ls[i]
  OBVIOUS
<1> HIDE DEF app
<1>2. Range(app) = Range(ls) \cup {e}
  BY AppendRange DEF app
<1>3. ASSUME IsInjective(ls) PROVE IsInjective(app)
  BY <1>1, <1>3 DEF Range, IsInjective
<1> QED
  BY <1>1, <1>2, <1>3 DEF app

\* One write adds to each store or leaves it; when it is done the event is in both.
LEMMA WrittenGrows ==
    ASSUME NEW s \in Stores, NEW e \in Nat, NEW how
    PROVE  /\ Written(s, e, how) \in Stores /\ Grows(s, Written(s, e, how))
           /\ how = "done" => InBoth(Written(s, e, how), e)
<1>1. s.lines \in Seq(Nat) /\ s.table \subseteq Nat /\ s.garbled \subseteq Nat /\ s.torn \in BOOLEAN
  BY DEF Stores
<1>2. CASE HasLine(s, e)
  BY <1>1, <1>2 DEF Written, HasLine, Grows, InBoth, Stores
<1>3. CASE ~HasLine(s, e) /\ how \in {"table", "line"}
  BY <1>1, <1>3 DEF Written, Grows, InBoth, Stores
<1>4. CASE ~HasLine(s, e) /\ how \notin {"table", "line"} /\ (how = "torn" \/ s.torn)
  BY <1>1, <1>4 DEF Written, Grows, InBoth, Stores
<1>5. CASE ~HasLine(s, e) /\ how \notin {"table", "line", "torn"} /\ ~s.torn
  <2>1. Written(s, e, how) = [s EXCEPT !.table = @ \cup {e}, !.lines = Append(@, e)]
    BY <1>5 DEF Written, Stores
  <2>2. /\ Append(s.lines, e) \in Seq(Nat)
        /\ Range(Append(s.lines, e)) = Range(s.lines) \cup {e}
        /\ IsInjective(s.lines) => IsInjective(Append(s.lines, e))
    BY <1>1, <1>5, NewLine DEF HasLine
  <2> QED
    BY <1>1, <2>1, <2>2 DEF Grows, InBoth, Stores
<1> QED
  BY <1>2, <1>3, <1>4, <1>5

\* The function AllWritten defines by recursion exists, up to any length.
WritesAlong(f, s, es, n) ==
    f = [k \in 0..n |-> IF k = 0 THEN s ELSE Written(f[k - 1], es[k], "done")]

LEMMA WritesExist == ASSUME NEW s, NEW es PROVE \A n \in Nat : \E f : WritesAlong(f, s, es, n)
<1> DEFINE S == {n \in Nat : \E f : WritesAlong(f, s, es, n)}
<1>1. 0 \in S
  <2>1. WritesAlong([k \in 0..0 |-> s], s, es, 0)
    BY DEF WritesAlong
  <2> QED
    BY <2>1
<1>2. ASSUME NEW n \in Nat, n \in S PROVE n + 1 \in S
  <2>1. PICK f : WritesAlong(f, s, es, n)
    BY <1>2
  <2> DEFINE g == [k \in 0..n + 1 |-> IF k = n + 1 THEN Written(f[n], es[n + 1], "done")
                                                   ELSE f[k]]
  <2>2. \A k \in 0..n : g[k] = f[k]
    OBVIOUS
  <2>3. \A k \in 0..n : f[k] = IF k = 0 THEN s ELSE Written(f[k - 1], es[k], "done")
    BY <2>1 DEF WritesAlong
  <2>4. ASSUME NEW k \in 0..n + 1
        PROVE  g[k] = IF k = 0 THEN s ELSE Written(g[k - 1], es[k], "done")
    <3>1. CASE k = n + 1
      BY <3>1, <2>2
    <3>2. CASE k # n + 1
      BY <3>2, <2>2, <2>3
    <3> QED
      BY <3>1, <3>2
  <2>5. WritesAlong(g, s, es, n + 1)
    BY <2>4 DEF WritesAlong
  <2> QED
    BY <2>5
<1> HIDE DEF S
<1>3. Nat \subseteq S
  BY <1>1, <1>2, SetInduction
<1> QED
  BY <1>3 DEF S

\* Any number of events written one after the other are in both stores.
LEMMA AllWrittenGrows ==
    ASSUME NEW s \in Stores, NEW es \in Seq(Nat)
    PROVE  /\ AllWritten(s, es) \in Stores /\ Grows(s, AllWritten(s, es))
           /\ \A e \in Range(es) : InBoth(AllWritten(s, es), e)
<1> DEFINE f == CHOOSE f : WritesAlong(f, s, es, Len(es))
           S == {n \in Nat : n <= Len(es) =>
                     /\ f[n] \in Stores /\ Grows(s, f[n])
                     /\ \A i \in 1..n : InBoth(f[n], es[i])}
<1>1. WritesAlong(f, s, es, Len(es)) /\ AllWritten(s, es) = f[Len(es)]
  <2>1. \E g : WritesAlong(g, s, es, Len(es))
    <3>1. Len(es) \in Nat
      OBVIOUS
    <3> QED
      BY <3>1, WritesExist
  <2>2. AllWritten(s, es) = f[Len(es)]
    BY DEF AllWritten, WritesAlong
  <2> QED
    BY <2>1, <2>2
<1> HIDE DEF f
<1>2. \A k \in 0..Len(es) : f[k] = IF k = 0 THEN s ELSE Written(f[k - 1], es[k], "done")
  BY <1>1 DEF WritesAlong
<1>3. 0 \in S
  BY <1>2 DEF Grows
<1>4. ASSUME NEW n \in Nat, n \in S PROVE n + 1 \in S
  <2> SUFFICES ASSUME n + 1 <= Len(es)
               PROVE  /\ f[n + 1] \in Stores /\ Grows(s, f[n + 1])
                      /\ \A i \in 1..n + 1 : InBoth(f[n + 1], es[i])
    OBVIOUS
  <2>1. f[n] \in Stores /\ Grows(s, f[n]) /\ \A i \in 1..n : InBoth(f[n], es[i])
    BY <1>4
  <2>2. f[n + 1] = Written(f[n], es[n + 1], "done") /\ es[n + 1] \in Nat
    BY <1>2
  <2>3. f[n + 1] \in Stores /\ Grows(f[n], f[n + 1]) /\ InBoth(f[n + 1], es[n + 1])
    BY <2>1, <2>2, WrittenGrows
  <2>4. Grows(s, f[n + 1])
    BY <2>1, <2>3, GrowsOn
  <2>5. \A i \in 1..n : InBoth(f[n + 1], es[i])
    BY <2>1, <2>3 DEF InBoth, Grows
  <2> QED
    BY <2>3, <2>4, <2>5
<1> HIDE DEF S
<1>5. Len(es) \in S
  BY <1>3, <1>4, SetInduction
<1>6. /\ f[Len(es)] \in Stores /\ Grows(s, f[Len(es)])
      /\ \A i \in 1..Len(es) : InBoth(f[Len(es)], es[i])
  BY <1>5 DEF S
<1> QED
  BY <1>1, <1>6 DEF Range

\* What a retry writes: some of the waiting events are in both stores after it.
LEMMA RetryGrows ==
    ASSUME State \in Stores, waiting \in Seq(Nat), NEW n \in 0..Len(waiting), NEW how
    PROVE  /\ Retry(n, how) \in Stores /\ Grows(State, Retry(n, how))
           /\ \A i \in 1..n : InBoth(Retry(n, how), waiting[i])
           /\ Remaining(n) \in Seq(Nat)
           /\ Range(Remaining(n)) = {waiting[i] : i \in n + 1..Len(waiting)}
<1> DEFINE es == SubSeq(waiting, 1, n)
           done == AllWritten(State, es)
<1>1. es \in Seq(Nat) /\ Len(es) = n /\ \A i \in 1..n : es[i] = waiting[i]
  BY SubSeqProperties
<1>2. done \in Stores /\ Grows(State, done) /\ \A i \in 1..n : InBoth(done, waiting[i])
  <2>1. \A i \in 1..n : waiting[i] \in Range(es)
    <3>1. DOMAIN es = 1..n
      BY <1>1
    <3> QED
      BY <3>1, <1>1 DEF Range
  <2>2. done \in Stores /\ Grows(State, done) /\ \A e \in Range(es) : InBoth(done, e)
    BY <1>1, AllWrittenGrows
  <2> QED
    BY <2>1, <2>2
<1> HIDE DEF es
<1>3. Retry(n, how) = IF n = Len(waiting) THEN done ELSE Written(done, waiting[n + 1], how)
  BY DEF Retry, es
<1> HIDE DEF done
<1>4. /\ Retry(n, how) \in Stores /\ Grows(State, Retry(n, how))
      /\ \A i \in 1..n : InBoth(Retry(n, how), waiting[i])
  <2>1. CASE n = Len(waiting)
    BY <2>1, <1>2, <1>3
  <2>2. CASE n # Len(waiting)
    <3>1. waiting[n + 1] \in Nat /\ Retry(n, how) = Written(done, waiting[n + 1], how)
      BY <2>2, <1>3
    <3>2. Retry(n, how) \in Stores /\ Grows(done, Retry(n, how))
      BY <3>1, <1>2, WrittenGrows
    <3>3. Grows(State, Retry(n, how)) /\ \A e : InBoth(done, e) => InBoth(Retry(n, how), e)
      BY <3>2, <1>2 DEF Grows, InBoth
    <3> QED
      BY <3>2, <3>3, <1>2
  <2> QED
    BY <2>1, <2>2
<1>5. /\ Remaining(n) \in Seq(Nat) /\ Len(Remaining(n)) = Len(waiting) - n
      /\ \A i \in 1..Len(waiting) - n : Remaining(n)[i] = waiting[n + i]
  BY SubSeqProperties DEF Remaining
<1>6. Range(Remaining(n)) = {waiting[i] : i \in n + 1..Len(waiting)}
  <2>1. ASSUME NEW i \in n + 1..Len(waiting) PROVE waiting[i] \in Range(Remaining(n))
    <3>1. i - n \in 1..Len(waiting) - n /\ waiting[i] = Remaining(n)[i - n]
      BY <1>5
    <3> QED
      BY <3>1, <1>5 DEF Range
  <2>2. ASSUME NEW i \in 1..Len(waiting) - n
        PROVE  Remaining(n)[i] \in {waiting[j] : j \in n + 1..Len(waiting)}
    <3>1. n + i \in n + 1..Len(waiting) /\ Remaining(n)[i] = waiting[n + i]
      BY <1>5
    <3> QED
      BY <3>1
  <2>3. Range(Remaining(n)) = {Remaining(n)[i] : i \in 1..Len(waiting) - n}
    BY <1>5 DEF Range
  <2> QED
    BY <2>1, <2>2, <2>3
<1> QED
  BY <1>4, <1>5, <1>6

\* Every event waits, is in both stores, was glued to a torn line or was
\* dropped with its process.
Kept(s, waits) ==
    \A e \in 1..Len(emitted) : e \in Range(waits) \cup dropped \/ InBoth(s, e)

StoreInv ==
    /\ State \in Stores /\ waiting \in Seq(Nat) /\ emitted \in Seq(Event)
    /\ IsInjective(lines) /\ Kept(State, waiting)

LEMMA RetryKeeps ==
    ASSUME StoreInv, NEW n \in 0..Len(waiting), NEW how
    PROVE  /\ Retry(n, how) \in Stores /\ IsInjective(Retry(n, how).lines)
           /\ Remaining(n) \in Seq(Nat) /\ Kept(Retry(n, how), Remaining(n))
<1>1. /\ Retry(n, how) \in Stores /\ Grows(State, Retry(n, how))
      /\ \A i \in 1..n : InBoth(Retry(n, how), waiting[i])
      /\ Remaining(n) \in Seq(Nat)
      /\ Range(Remaining(n)) = {waiting[i] : i \in n + 1..Len(waiting)}
  BY RetryGrows DEF StoreInv
<1>2. IsInjective(Retry(n, how).lines)
  BY <1>1 DEF StoreInv, Grows, State
<1>3. ASSUME NEW e \in 1..Len(emitted), e \notin Range(Remaining(n)) \cup dropped
      PROVE  InBoth(Retry(n, how), e)
  <2>1. CASE e \in Range(waiting)
    <3>1. PICK i \in 1..Len(waiting) : waiting[i] = e
      BY <2>1 DEF StoreInv, Range
    <3>2. i \in 1..n
      BY <3>1, <1>1, <1>3
    <3> QED
      BY <3>1, <3>2, <1>1
  <2>2. CASE e \notin Range(waiting)
    BY <2>2, <1>1, <1>3, GrowsOn DEF StoreInv, Kept, Grows, InBoth
  <2> QED
    BY <2>1, <2>2
<1> QED
  BY <1>1, <1>2, <1>3 DEF Kept

LEMMA StateIs == ASSUME NEW s \in Stores, StoreIs(s) PROVE State' = s
BY DEF StoreIs, State, Stores

LEMMA QuietKeeps ==
    ASSUME StoreInv, NEW status, NEW n \in 0..Len(waiting), NEW how, Quiet(status, n, how),
           UNCHANGED dropped
    PROVE  StoreInv'
<1> DEFINE s == Retry(n, how)
<1>1. /\ s \in Stores /\ IsInjective(s.lines)
      /\ Remaining(n) \in Seq(Nat) /\ Kept(s, Remaining(n))
  BY RetryKeeps
<1>2. StoreIs(s) /\ waiting' = Remaining(n) /\ emitted' = emitted /\ dropped' = dropped
  BY DEF Quiet
<1> HIDE DEF s
<1>3. State' = s /\ lines' = s.lines
  BY <1>1, <1>2, StateIs DEF StoreIs
<1> QED
  BY <1>1, <1>2, <1>3 DEF StoreInv, Kept

LEMMA EmitsKeeps ==
    ASSUME StoreInv, NEW status, NEW n \in 0..Len(waiting), NEW how, NEW last,
           Emits(status, n, how, last), UNCHANGED dropped, outage \in Nat
    PROVE  StoreInv'
<1> DEFINE r == Retry(n, how)
           id == Len(emitted) + 1
           s == Written(r, id, last)
           e == IF Opens(status) THEN [type |-> "CAMERA_OFFLINE", offline |-> id]
                                 ELSE [type |-> "CAMERA_RECOVERED", offline |-> outage]
<1>1. /\ r \in Stores /\ IsInjective(r.lines)
      /\ Remaining(n) \in Seq(Nat) /\ Kept(r, Remaining(n))
  BY RetryKeeps
<1>2. id \in Nat /\ e \in Event /\ emitted \in Seq(Event)
  BY DEF StoreInv, Event
<1>3. /\ emitted' = Append(emitted, e) /\ StoreIs(s) /\ dropped' = dropped
      /\ waiting' = IF last = "done" THEN Remaining(n) ELSE Append(Remaining(n), id)
  BY DEF Emits
<1> HIDE DEF r, e
<1>4. s \in Stores /\ Grows(r, s) /\ (last = "done" => InBoth(s, id))
  BY <1>1, <1>2, WrittenGrows
<1>5. emitted' \in Seq(Event) /\ Len(emitted') = Len(emitted) + 1
  BY <1>2, <1>3, AppendProperties
<1> HIDE DEF s
<1>6. State' = s /\ lines' = s.lines /\ IsInjective(s.lines)
  BY <1>1, <1>3, <1>4, StateIs DEF StoreIs, Grows
<1>7. /\ waiting' \in Seq(Nat)
      /\ Range(waiting') = Range(Remaining(n)) \cup (IF last = "done" THEN {} ELSE {id})
  <2>1. CASE last = "done"
    BY <2>1, <1>1, <1>3
  <2>2. CASE last # "done"
    BY <2>2, <1>1, <1>2, <1>3, AppendRange
  <2> QED
    BY <2>1, <2>2
<1>8. ASSUME NEW d \in 1..Len(emitted'), d \notin Range(waiting') \cup dropped
      PROVE  InBoth(s, d)
  <2>1. CASE d = id
    BY <2>1, <1>4, <1>7, <1>8
  <2>2. CASE d # id
    <3>1. d \in 1..Len(emitted) /\ InBoth(r, d)
      BY <2>2, <1>1, <1>2, <1>5, <1>7, <1>8 DEF Kept
    <3> QED
      BY <3>1, <1>4 DEF Grows, InBoth
  <2> QED
    BY <2>1, <2>2
<1>9. Kept(State, waiting)'
  BY <1>3, <1>6, <1>8 DEF Kept, InBoth
<1> QED
  BY <1>4, <1>5, <1>6, <1>7, <1>9 DEF StoreInv

\* The process ends with what it had left to write.
LEMMA ForgetKeeps ==
    ASSUME NEW s \in Stores, NEW left \in Seq(Nat), IsInjective(s.lines), Kept(s, left),
           emitted \in Seq(Event), State' = s, lines' = s.lines, Forget(left)
    PROVE  StoreInv'
<1>1. /\ waiting' = <<>> /\ dropped' = dropped \cup Range(left) /\ emitted' = emitted
  BY DEF Forget
<1>2. waiting' \in Seq(Nat)
  BY <1>1
<1>3. Kept(State, waiting)'
  BY <1>1 DEF Kept, InBoth
<1> QED
  BY <1>1, <1>2, <1>3 DEF StoreInv

LEMMA StepKeeps == StoreInv /\ OutageInv /\ [Next]_vars => StoreInv'
<1> SUFFICES ASSUME StoreInv, OutageInv, [Next]_vars PROVE StoreInv'
  OBVIOUS
<1>1. ASSUME NEW status \in Statuses, OnStatus(status) PROVE StoreInv'
  <2>1. outage \in Nat
    BY DEF OutageInv, LastIsOpen
  <2> QED
    BY <1>1, <2>1, EmitsKeeps, QuietKeeps DEF OnStatus
<1>2. CASE LastStatus
  <2>1. PICK n \in 0..Len(waiting), how \in Failures :
            StoreIs(Retry(n, how)) /\ Forget(Remaining(n))
    BY <1>2 DEF LastStatus
  <2>2. /\ Retry(n, how) \in Stores /\ IsInjective(Retry(n, how).lines)
        /\ Remaining(n) \in Seq(Nat) /\ Kept(Retry(n, how), Remaining(n))
    BY RetryKeeps
  <2>3. State' = Retry(n, how) /\ lines' = Retry(n, how).lines
    BY <2>1, <2>2, StateIs DEF StoreIs
  <2> QED
    BY <2>1, <2>2, <2>3, ForgetKeeps DEF StoreInv
<1>3. CASE Lost
  <2>1. State' = State /\ lines' = lines /\ State.lines = lines /\ Forget(waiting)
    BY <1>3 DEF Lost, store, State
  <2> QED
    BY <2>1, ForgetKeeps DEF StoreInv
<1>4. CASE UNCHANGED lifecycleVars
  BY <1>4 DEF lifecycleVars, store, StoreInv, State, Kept, InBoth
<1> QED
  BY <1>1, <1>2, <1>3, <1>4, EventStep

LEMMA InitKeeps == Init => StoreInv
<1>1. ASSUME Init
      PROVE  /\ State = [table |-> {}, lines |-> <<>>, torn |-> FALSE, garbled |-> {}]
             /\ waiting = <<>> /\ emitted = <<>> /\ lines = <<>>
  BY <1>1 DEF Init, SupervisorInit, LifecycleInit, State
<1>2. <<>> \in Seq(Nat) /\ <<>> \in Seq(Event) /\ IsInjective(<<>>) /\ Len(<<>>) = 0
  BY DEF IsInjective
<1>3. ASSUME Init PROVE State \in Stores /\ Kept(State, waiting)
  <2>1. 1..Len(emitted) = {}
    BY <1>1, <1>2, <1>3
  <2>2. [table |-> {}, lines |-> <<>>, torn |-> FALSE, garbled |-> {}] \in Stores
    BY <1>2 DEF Stores
  <2> QED
    BY <2>1, <2>2, <1>1, <1>3 DEF Kept
<1> QED
  BY <1>1, <1>2, <1>3 DEF StoreInv

\* However the writes of an event fail, in part or whole, and however often it is
\* retried, its line is in the file once, and an event that no longer waits is
\* in the table and in the file, unless its line followed a torn one or its
\* process ended.
THEOREM EventsAreKeptOnceHolds == Spec => []EventsAreKeptOnce
<1>1. StoreInv => EventsAreKeptOnce
  BY DEF StoreInv, EventsAreKeptOnce, LinesAreUnique, EventsAreKept, Kept, InBoth, State
<1> QED
  BY <1>1, InitPaired, StepPaired, InitKeeps, StepKeeps, PTL DEF Spec

================================================================================
