------------------------- MODULE AgentRuntimeProofs -------------------------
(***************************************************************************)
(* Proofs about what AgentRuntime composes without sharing state: the      *)
(* circuit of the model runtime (ModelCircuit), for any number of callers, *)
(* and a task on the offline model (OfflineAgent), for every message.      *)
(***************************************************************************)
EXTENDS ModelCircuit, OfflineAgent, FiniteSetTheorems, SequenceTheorems, WellFoundedInduction,
        TLAPS

-----------------------------------------------------------------------------
(* The circuit.  CircuitInv is inductive: its fields are only ever written *)
(* together, under the lock, so the lateness of an answer cannot make them *)
(* disagree.                                                               *)

CircuitInv == CircuitTypeOK /\ CircuitCoherent /\ ClosedBelowThreshold /\ ProbeDecides

LEMMA InitCircuitInv == CircuitInit => CircuitInv
BY CircuitAssumption DEF CircuitInit, CircuitInv, CircuitTypeOK, CircuitCoherent, ClosedBelowThreshold, ProbeDecides

LEMMA NextCircuitInv == ASSUME CircuitInv, [CircuitNext]_modelVars PROVE CircuitInv'
<1> USE CircuitAssumption DEF CircuitInv, CircuitTypeOK, CircuitCoherent, ClosedBelowThreshold, ProbeDecides,
                              circuitVars, counters
<1>1. ASSUME NEW md \in {"offline", "remote"}, SetMode(md) PROVE CircuitInv'
  <2>1. CASE md = "remote"
    BY <1>1, <2>1 DEF SetMode, ResetCircuit
  <2>2. CASE md # "remote"
    BY <1>1, <2>2 DEF SetMode
  <2> QED
    BY <2>1, <2>2
<1>2. ASSUME NEW c \in Callers, Generate(c) \/ Skipped(c) \/ Returns(c) \/ Escapes(c)
      PROVE CircuitInv'
  BY <1>2 DEF Generate, Skipped, Returns, Escapes
<1>3. ASSUME NEW c \in Callers, Admitted(c) PROVE CircuitInv'
  BY <1>3 DEF Admitted
<1>4. ASSUME NEW c \in Callers, Retries(c) PROVE CircuitInv'
  BY <1>4 DEF Retries, MayRetry
<1>5. ASSUME NEW c \in Callers, Succeeds(c) PROVE CircuitInv'
  BY <1>5 DEF Succeeds, ResetCircuit
<1>6. ASSUME NEW c \in Callers, Fails(c) PROVE CircuitInv'
  <2>1. PICK retryable \in BOOLEAN :
          /\ failed' = failed + 1 /\ failures' = failures + 1
          /\ probeInFlight' = "down"
          /\ IF Opens(retryable)
             THEN circuit' = "OPEN" /\ openedAt' = ticks
             ELSE circuit' = "CLOSED" /\ UNCHANGED openedAt
    BY <1>6, Zenon DEF Fails, CountsFailure
  <2>2. /\ pc' = [pc EXCEPT ![c] = IF Fallback THEN "offline" ELSE "raised"]
        /\ probes' = probes \ {c}
        /\ UNCHANGED <<mode, sent, successes, ticks, attempt, switches, escapes>>
    BY <1>6 DEF Fails
  <2>3. CASE Opens(retryable)
    BY <2>1, <2>2, <2>3
  <2>4. CASE ~Opens(retryable)
    <3>1. ~(failures + 1 >= FailureThreshold)
      BY <2>4 DEF Opens
    <3> QED
      BY <2>1, <2>2, <2>4, <3>1
  <2> QED
    BY <2>3, <2>4
<1>7. CASE CircuitTick \/ UNCHANGED modelVars
  BY <1>7 DEF CircuitTick, modelVars
<1> QED
  BY <1>1, <1>2, <1>3, <1>4, <1>5, <1>6, <1>7 DEF CircuitNext, Progress

\* For any number of callers that answer late: the probe flag is up exactly
\* while half open, an open circuit knows since when, a closed one is below the
\* threshold, and a half-open one has a probe that will decide.
THEOREM CircuitIsSoundHolds == CircuitSpec => []CircuitIsSound
<1>1. CircuitInv => CircuitIsSound
  BY DEF CircuitInv, CircuitIsSound
<1> QED
  BY InitCircuitInv, NextCircuitInv, <1>1, PTL DEF CircuitSpec

--------------------------------------------------------------------------------
(* The counters.  What a step does to InFlight decides what it may count.  *)

AccountInv == CircuitTypeOK /\ RequestsAccounted

LEMMA InFlightIsFinite == IsFiniteSet(InFlight) /\ Cardinality(InFlight) \in Nat
BY CircuitAssumption, FS_Subset, FS_CardinalityType DEF InFlight

\* A caller whose pc changes between other places leaves InFlight alone.
LEMMA SameFlight ==
    ASSUME NEW c \in Callers, NEW p, p # "requesting", pc[c] # "requesting",
           CircuitTypeOK, pc' = [pc EXCEPT ![c] = p]
    PROVE  InFlight' = InFlight
BY DEF InFlight, CircuitTypeOK

\* A request that ends takes one caller out of InFlight.
LEMMA FlightEnds ==
    ASSUME NEW c \in Callers, NEW p, p # "requesting", pc[c] = "requesting",
           CircuitTypeOK, pc' = [pc EXCEPT ![c] = p]
    PROVE  Cardinality(InFlight) = Cardinality(InFlight') + 1
           /\ Cardinality(InFlight') \in Nat
<1>1. c \in InFlight /\ InFlight' = InFlight \ {c}
  BY DEF InFlight, CircuitTypeOK
<1>2. IsFiniteSet(InFlight \ {c})
        /\ Cardinality(InFlight \ {c}) = Cardinality(InFlight) - 1
  BY <1>1, InFlightIsFinite, FS_RemoveElement
<1>3. Cardinality(InFlight \ {c}) \in Nat
  BY <1>2, FS_CardinalityType
<1> QED
  BY <1>1, <1>2, <1>3, InFlightIsFinite

\* An admitted request puts one caller into InFlight.
LEMMA FlightStarts ==
    ASSUME NEW c \in Callers, pc[c] # "requesting",
           CircuitTypeOK, pc' = [pc EXCEPT ![c] = "requesting"]
    PROVE  Cardinality(InFlight') = Cardinality(InFlight) + 1
<1>1. c \notin InFlight /\ InFlight' = InFlight \cup {c}
  BY DEF InFlight, CircuitTypeOK
<1> QED
  BY <1>1, InFlightIsFinite, FS_AddElement

LEMMA InitAccountInv == CircuitInit => AccountInv
<1> SUFFICES ASSUME CircuitInit PROVE AccountInv
  OBVIOUS
<1>1. CircuitTypeOK
  BY InitCircuitInv DEF CircuitInv
<1>2. InFlight = {}
  BY DEF CircuitInit, InFlight
<1>3. Cardinality(InFlight) = 0
  BY <1>2, FS_EmptySet
<1> QED
  BY <1>1, <1>3 DEF CircuitInit, AccountInv, RequestsAccounted

LEMMA NextAccountInv == ASSUME CircuitInv, AccountInv, [CircuitNext]_modelVars PROVE AccountInv'
<1>1. CircuitTypeOK /\ CircuitTypeOK' /\ RequestsAccounted
  BY NextCircuitInv DEF CircuitInv, AccountInv
<1>2. sent \in Nat /\ successes \in Nat /\ failed \in Nat /\ escapes \in Nat
  BY <1>1 DEF CircuitTypeOK
<1> USE DEF RequestsAccounted, counters
<1> SUFFICES RequestsAccounted'
  BY <1>1 DEF AccountInv
<1>3. CASE (\E m \in {"offline", "remote"} : SetMode(m)) \/ CircuitTick \/ UNCHANGED modelVars
  <2>1. InFlight' = InFlight /\ UNCHANGED <<counters, escapes>>
    BY <1>3 DEF SetMode, CircuitTick, modelVars, InFlight
  <2> QED
    BY <1>1, <2>1
<1>4. ASSUME NEW c \in Callers, Generate(c) \/ Skipped(c) \/ Returns(c) \/ Retries(c)
      PROVE RequestsAccounted'
  <2>1. InFlight' = InFlight
    BY <1>1, <1>4, SameFlight DEF Generate, Skipped, Returns, Retries, InFlight
  <2>2. UNCHANGED <<counters, escapes>>
    BY <1>4 DEF Generate, Skipped, Returns, Retries
  <2> QED
    BY <1>1, <2>1, <2>2
<1>5. ASSUME NEW c \in Callers, Admitted(c) PROVE RequestsAccounted'
  <2>1. Cardinality(InFlight') = Cardinality(InFlight) + 1
    BY <1>1, <1>5, FlightStarts DEF Admitted
  <2>2. sent' = sent + 1 /\ UNCHANGED <<successes, failed, escapes>>
    BY <1>5 DEF Admitted
  <2> QED
    BY <1>1, <1>2, <2>1, <2>2, InFlightIsFinite
<1>6. ASSUME NEW c \in Callers, Succeeds(c) \/ Fails(c) \/ Escapes(c)
      PROVE RequestsAccounted'
  <2>1. Cardinality(InFlight) = Cardinality(InFlight') + 1 /\ Cardinality(InFlight') \in Nat
    <3>1. PICK p \in {"answered", "offline", "raised"} :
            pc[c] = "requesting" /\ pc' = [pc EXCEPT ![c] = p]
      BY <1>6 DEF Succeeds, Fails, Escapes
    <3> QED
      BY <1>1, <3>1, FlightEnds
  <2>2. /\ sent' = sent
        /\ \/ successes' = successes + 1 /\ UNCHANGED <<failed, escapes>>
           \/ failed' = failed + 1 /\ UNCHANGED <<successes, escapes>>
           \/ escapes' = escapes + 1 /\ UNCHANGED <<successes, failed>>
    BY <1>6, Zenon DEF Succeeds, Fails, Escapes, CountsFailure
  <2> QED
    BY <1>1, <1>2, <2>1, <2>2
<1> QED
  BY <1>3, <1>4, <1>5, <1>6 DEF CircuitNext, Progress

\* Every remote request is in flight, succeeded, failed, or was left by an
\* exception nobody translates: the counters of /health lose none, however
\* many callers overlap.
THEOREM RequestsAreAccounted == CircuitSpec => []RequestsAccounted
<1>1. CircuitInit => CircuitInv /\ AccountInv
  BY InitCircuitInv, InitAccountInv
<1>2. (CircuitInv /\ AccountInv) /\ [CircuitNext]_modelVars => (CircuitInv /\ AccountInv)'
  BY NextCircuitInv, NextAccountInv
<1>3. AccountInv => RequestsAccounted
  BY DEF AccountInv
<1> QED
  BY <1>1, <1>2, <1>3, PTL DEF CircuitSpec

-----------------------------------------------------------------------------
(* The offline model.  OfflineIsSound is about the calls of a task; what   *)
(* they take is decided by the table of 33 tools, so that comes first: the *)
(* entry of each tool, group by group, then the arguments that are used.   *)

Has(f, n, v) == n \in DOMAIN f /\ f[n] = v
Lacks(f, n)  == n \notin DOMAIN f

LEMMA MergeLeft == ASSUME NEW f, NEW g, NEW n, NEW v, Has(f, n, v) PROVE Has(f ++ g, n, v)
BY DEF Has, ++

LEMMA MergeRight ==
  ASSUME NEW f, NEW g, NEW n, NEW v, Lacks(f, n), Has(g, n, v) PROVE Has(f ++ g, n, v)
BY DEF Has, Lacks, ++

LEMMA MergeLacks == ASSUME NEW f, NEW g, NEW n, Lacks(f, n), Lacks(g, n) PROVE Lacks(f ++ g, n)
BY DEF Lacks, ++

LEMMA FieldHas == ASSUME NEW n, NEW v PROVE Has(Field(n, v), n, v)
BY DEF Has, Field

LEMMA FieldLacks == ASSUME NEW n, NEW v, NEW m, m # n PROVE Lacks(Field(n, v), m)
BY DEF Lacks, Field

LEMMA RecoveryToolTable ==
  /\ Has(RecoveryTools, "recovery.create_backup", NoArgumentsSchema)
  /\ Has(RecoveryTools, "recovery.get_status", RecoveryStatusSchema)
  /\ Has(RecoveryTools, "recovery.preview_restore", RecoveryPreviewSchema)
  /\ \A t : t \notin {"recovery.create_backup", "recovery.get_status",
       "recovery.preview_restore"} => Lacks(RecoveryTools, t)
<1> USE MergeLeft, MergeRight, MergeLacks, FieldHas, FieldLacks DEF RecoveryTools
<1>1. Has(RecoveryTools, "recovery.create_backup", NoArgumentsSchema)
  OBVIOUS
<1>2. Has(RecoveryTools, "recovery.get_status", RecoveryStatusSchema)
  OBVIOUS
<1>3. Has(RecoveryTools, "recovery.preview_restore", RecoveryPreviewSchema)
  OBVIOUS
<1>4. ASSUME NEW t, t \notin {"recovery.create_backup", "recovery.get_status",
    "recovery.preview_restore"} PROVE Lacks(RecoveryTools, t)
  BY <1>4
<1> HIDE DEF RecoveryTools
<1> QED
  BY <1>1, <1>2, <1>3, <1>4

LEMMA CameraToolTable ==
  /\ Has(CameraTools, "camera.capture_snapshot", NoArgumentsSchema)
  /\ Has(CameraTools, "camera.restart", NoArgumentsSchema)
  /\ Has(CameraTools, "camera.get_status", NoArgumentsSchema)
  /\ \A t : t \notin {"camera.capture_snapshot", "camera.restart", "camera.get_status"}
       => Lacks(CameraTools, t)
<1> DEFINE F == [t \in {"camera.capture_snapshot", "camera.restart",
    "camera.get_status"} |-> NoArgumentsSchema]
<1>a. \A t \in {"camera.capture_snapshot", "camera.restart", "camera.get_status"} : Has(F, t,
    NoArgumentsSchema)
  BY DEF Has
<1>b. \A t : t \notin {"camera.capture_snapshot", "camera.restart", "camera.get_status"}
    => Lacks(F, t)
  BY DEF Lacks
<1>c. CameraTools = F
  BY DEF CameraTools
<1> HIDE DEF F
<1> USE <1>a, <1>b, <1>c, MergeLeft, MergeRight, MergeLacks, FieldHas, FieldLacks
<1>1. Has(CameraTools, "camera.capture_snapshot", NoArgumentsSchema)
  OBVIOUS
<1>2. Has(CameraTools, "camera.restart", NoArgumentsSchema)
  OBVIOUS
<1>3. Has(CameraTools, "camera.get_status", NoArgumentsSchema)
  OBVIOUS
<1>4. ASSUME NEW t, t \notin {"camera.capture_snapshot", "camera.restart",
    "camera.get_status"} PROVE Lacks(CameraTools, t)
  BY <1>4
<1> QED
  BY <1>1, <1>2, <1>3, <1>4

LEMMA EventToolTable ==
  /\ Has(EventTools, "report.generate", ReportSchema)
  /\ Has(EventTools, "evidence.verify_event", EventIdSchema)
  /\ Has(EventTools, "evidence.verify_recent", EvidenceVerifySchema)
  /\ Has(EventTools, "event.acknowledge", EventIdSchema)
  /\ Has(EventTools, "event.get_detail", EventIdSchema)
  /\ Has(EventTools, "event.query", EventQuerySchema)
  /\ Has(EventTools, "event.summarize", EventSummarySchema)
  /\ \A t : t \notin {"report.generate", "evidence.verify_event", "evidence.verify_recent",
       "event.acknowledge", "event.get_detail", "event.query", "event.summarize"}
       => Lacks(EventTools, t)
<1> USE MergeLeft, MergeRight, MergeLacks, FieldHas, FieldLacks DEF EventTools
<1>1. Has(EventTools, "report.generate", ReportSchema)
  OBVIOUS
<1>2. Has(EventTools, "evidence.verify_event", EventIdSchema)
  OBVIOUS
<1>3. Has(EventTools, "evidence.verify_recent", EvidenceVerifySchema)
  OBVIOUS
<1>4. Has(EventTools, "event.acknowledge", EventIdSchema)
  OBVIOUS
<1>5. Has(EventTools, "event.get_detail", EventIdSchema)
  OBVIOUS
<1>6. Has(EventTools, "event.query", EventQuerySchema)
  OBVIOUS
<1>7. Has(EventTools, "event.summarize", EventSummarySchema)
  OBVIOUS
<1>8. ASSUME NEW t, t \notin {"report.generate", "evidence.verify_event",
    "evidence.verify_recent", "event.acknowledge", "event.get_detail", "event.query",
    "event.summarize"} PROVE Lacks(EventTools, t)
  BY <1>8
<1> HIDE DEF EventTools
<1> QED
  BY <1>1, <1>2, <1>3, <1>4, <1>5, <1>6, <1>7, <1>8

LEMMA InventoryToolTable ==
  /\ Has(InventoryTools, "inventory.get_current_state", InventoryStateSchema)
  /\ Has(InventoryTools, "inventory.compare_state", InventoryCompareSchema)
  /\ Has(InventoryTools, "inventory.get_removed_items", RemovedItemsSchema)
  /\ \A t : t \notin {"inventory.get_current_state", "inventory.compare_state",
       "inventory.get_removed_items"} => Lacks(InventoryTools, t)
<1> USE MergeLeft, MergeRight, MergeLacks, FieldHas, FieldLacks DEF InventoryTools
<1>1. Has(InventoryTools, "inventory.get_current_state", InventoryStateSchema)
  OBVIOUS
<1>2. Has(InventoryTools, "inventory.compare_state", InventoryCompareSchema)
  OBVIOUS
<1>3. Has(InventoryTools, "inventory.get_removed_items", RemovedItemsSchema)
  OBVIOUS
<1>4. ASSUME NEW t, t \notin {"inventory.get_current_state", "inventory.compare_state",
    "inventory.get_removed_items"} PROVE Lacks(InventoryTools, t)
  BY <1>4
<1> HIDE DEF InventoryTools
<1> QED
  BY <1>1, <1>2, <1>3, <1>4

LEMMA MemoryToolTable ==
  /\ Has(MemoryTools, "memory.search", MemorySearchSchema)
  /\ Has(MemoryTools, "memory.remember", MemoryRememberSchema)
  /\ Has(MemoryTools, "memory.forget", MemoryForgetSchema)
  /\ \A t : t \notin {"memory.search", "memory.remember", "memory.forget"}
       => Lacks(MemoryTools, t)
<1> USE MergeLeft, MergeRight, MergeLacks, FieldHas, FieldLacks DEF MemoryTools
<1>1. Has(MemoryTools, "memory.search", MemorySearchSchema)
  OBVIOUS
<1>2. Has(MemoryTools, "memory.remember", MemoryRememberSchema)
  OBVIOUS
<1>3. Has(MemoryTools, "memory.forget", MemoryForgetSchema)
  OBVIOUS
<1>4. ASSUME NEW t, t \notin {"memory.search", "memory.remember", "memory.forget"}
    PROVE Lacks(MemoryTools, t)
  BY <1>4
<1> HIDE DEF MemoryTools
<1> QED
  BY <1>1, <1>2, <1>3, <1>4

LEMMA SystemToolTable ==
  /\ Has(SystemTools, "system.get_health", NoArgumentsSchema)
  /\ Has(SystemTools, "system.get_runtime_benchmark", NoArgumentsSchema)
  /\ Has(SystemTools, "system.get_storage_usage", NoArgumentsSchema)
  /\ Has(SystemTools, "system.preview_data_retention", NoArgumentsSchema)
  /\ Has(SystemTools, "system.get_retention_cleanup_history", RetentionHistorySchema)
  /\ Has(SystemTools, "system.cleanup_retained_data", RetentionCleanupSchema)
  /\ \A t : t \notin {"system.get_health", "system.get_runtime_benchmark",
       "system.get_storage_usage", "system.preview_data_retention",
       "system.get_retention_cleanup_history", "system.cleanup_retained_data"}
       => Lacks(SystemTools, t)
<1> DEFINE F == [t \in {"system.get_health", "system.get_runtime_benchmark",
    "system.get_storage_usage", "system.preview_data_retention"} |-> NoArgumentsSchema]
<1>a. \A t \in {"system.get_health", "system.get_runtime_benchmark",
    "system.get_storage_usage", "system.preview_data_retention"} : Has(F, t, NoArgumentsSchema)
  BY DEF Has
<1>b. \A t : t \notin {"system.get_health", "system.get_runtime_benchmark",
    "system.get_storage_usage", "system.preview_data_retention"} => Lacks(F, t)
  BY DEF Lacks
<1>c. SystemTools = F ++ Field("system.get_retention_cleanup_history", RetentionHistorySchema)
                   ++ Field("system.cleanup_retained_data", RetentionCleanupSchema)
  BY DEF SystemTools
<1> HIDE DEF F
<1> USE <1>a, <1>b, <1>c, MergeLeft, MergeRight, MergeLacks, FieldHas, FieldLacks
<1>1. Has(SystemTools, "system.get_health", NoArgumentsSchema)
  OBVIOUS
<1>2. Has(SystemTools, "system.get_runtime_benchmark", NoArgumentsSchema)
  OBVIOUS
<1>3. Has(SystemTools, "system.get_storage_usage", NoArgumentsSchema)
  OBVIOUS
<1>4. Has(SystemTools, "system.preview_data_retention", NoArgumentsSchema)
  OBVIOUS
<1>5. Has(SystemTools, "system.get_retention_cleanup_history", RetentionHistorySchema)
  OBVIOUS
<1>6. Has(SystemTools, "system.cleanup_retained_data", RetentionCleanupSchema)
  OBVIOUS
<1>7. ASSUME NEW t, t \notin {"system.get_health", "system.get_runtime_benchmark",
    "system.get_storage_usage", "system.preview_data_retention",
    "system.get_retention_cleanup_history", "system.cleanup_retained_data"}
    PROVE Lacks(SystemTools, t)
  BY <1>7
<1> QED
  BY <1>1, <1>2, <1>3, <1>4, <1>5, <1>6, <1>7

LEMMA ModelToolTable ==
  /\ Has(ModelTools, "vision.get_model_info", NoArgumentsSchema)
  /\ Has(ModelTools, "vision.get_performance", NoArgumentsSchema)
  /\ \A t : t \notin {"vision.get_model_info", "vision.get_performance"} => Lacks(ModelTools, t)
<1> DEFINE F == [t \in {"vision.get_model_info",
    "vision.get_performance"} |-> NoArgumentsSchema]
<1>a. \A t \in {"vision.get_model_info", "vision.get_performance"} : Has(F, t,
    NoArgumentsSchema)
  BY DEF Has
<1>b. \A t : t \notin {"vision.get_model_info", "vision.get_performance"} => Lacks(F, t)
  BY DEF Lacks
<1>c. ModelTools = F
  BY DEF ModelTools
<1> HIDE DEF F
<1> USE <1>a, <1>b, <1>c, MergeLeft, MergeRight, MergeLacks, FieldHas, FieldLacks
<1>1. Has(ModelTools, "vision.get_model_info", NoArgumentsSchema)
  OBVIOUS
<1>2. Has(ModelTools, "vision.get_performance", NoArgumentsSchema)
  OBVIOUS
<1>3. ASSUME NEW t, t \notin {"vision.get_model_info", "vision.get_performance"}
    PROVE Lacks(ModelTools, t)
  BY <1>3
<1> QED
  BY <1>1, <1>2, <1>3

LEMMA VisionToolTable ==
  /\ Has(VisionTools, "vision.get_people_count", NoArgumentsSchema)
  /\ Has(VisionTools, "vision.get_current_objects", NoArgumentsSchema)
  /\ Has(VisionTools, "vision.get_zone_status", ZoneStatusSchema)
  /\ Has(VisionTools, "vision.count_objects", CountObjectsSchema)
  /\ Has(VisionTools, "vision.get_track_history", TrackHistorySchema)
  /\ \A t : t \notin {"vision.get_people_count", "vision.get_current_objects",
       "vision.get_zone_status", "vision.count_objects", "vision.get_track_history"}
       => Lacks(VisionTools, t)
<1> DEFINE F == [t \in {"vision.get_people_count",
    "vision.get_current_objects"} |-> NoArgumentsSchema]
<1>a. \A t \in {"vision.get_people_count", "vision.get_current_objects"} : Has(F, t,
    NoArgumentsSchema)
  BY DEF Has
<1>b. \A t : t \notin {"vision.get_people_count", "vision.get_current_objects"} => Lacks(F, t)
  BY DEF Lacks
<1>c. VisionTools = F ++ Field("vision.get_zone_status", ZoneStatusSchema)
                   ++ Field("vision.count_objects", CountObjectsSchema)
                   ++ Field("vision.get_track_history", TrackHistorySchema)
  BY DEF VisionTools
<1> HIDE DEF F
<1> USE <1>a, <1>b, <1>c, MergeLeft, MergeRight, MergeLacks, FieldHas, FieldLacks
<1>1. Has(VisionTools, "vision.get_people_count", NoArgumentsSchema)
  OBVIOUS
<1>2. Has(VisionTools, "vision.get_current_objects", NoArgumentsSchema)
  OBVIOUS
<1>3. Has(VisionTools, "vision.get_zone_status", ZoneStatusSchema)
  OBVIOUS
<1>4. Has(VisionTools, "vision.count_objects", CountObjectsSchema)
  OBVIOUS
<1>5. Has(VisionTools, "vision.get_track_history", TrackHistorySchema)
  OBVIOUS
<1>6. ASSUME NEW t, t \notin {"vision.get_people_count", "vision.get_current_objects",
    "vision.get_zone_status", "vision.count_objects", "vision.get_track_history"}
    PROVE Lacks(VisionTools, t)
  BY <1>6
<1> QED
  BY <1>1, <1>2, <1>3, <1>4, <1>5, <1>6

LEMMA WeatherToolTable ==
  /\ Has(WeatherTools, "weather.get_current", WeatherSchema)
  /\ \A t : t \notin {"weather.get_current"} => Lacks(WeatherTools, t)
<1> USE MergeLeft, MergeRight, MergeLacks, FieldHas, FieldLacks DEF WeatherTools
<1>1. Has(WeatherTools, "weather.get_current", WeatherSchema)
  OBVIOUS
<1>2. ASSUME NEW t, t \notin {"weather.get_current"} PROVE Lacks(WeatherTools, t)
  BY <1>2
<1> HIDE DEF WeatherTools
<1> QED
  BY <1>1, <1>2

LEMMA ToolTable ==
  /\ Has(DefaultSchemas, "recovery.create_backup", NoArgumentsSchema)
  /\ Has(DefaultSchemas, "recovery.get_status", RecoveryStatusSchema)
  /\ Has(DefaultSchemas, "recovery.preview_restore", RecoveryPreviewSchema)
  /\ Has(DefaultSchemas, "camera.capture_snapshot", NoArgumentsSchema)
  /\ Has(DefaultSchemas, "camera.restart", NoArgumentsSchema)
  /\ Has(DefaultSchemas, "camera.get_status", NoArgumentsSchema)
  /\ Has(DefaultSchemas, "report.generate", ReportSchema)
  /\ Has(DefaultSchemas, "evidence.verify_event", EventIdSchema)
  /\ Has(DefaultSchemas, "evidence.verify_recent", EvidenceVerifySchema)
  /\ Has(DefaultSchemas, "event.acknowledge", EventIdSchema)
  /\ Has(DefaultSchemas, "event.get_detail", EventIdSchema)
  /\ Has(DefaultSchemas, "event.query", EventQuerySchema)
  /\ Has(DefaultSchemas, "event.summarize", EventSummarySchema)
  /\ Has(DefaultSchemas, "inventory.get_current_state", InventoryStateSchema)
  /\ Has(DefaultSchemas, "inventory.compare_state", InventoryCompareSchema)
  /\ Has(DefaultSchemas, "inventory.get_removed_items", RemovedItemsSchema)
  /\ Has(DefaultSchemas, "memory.search", MemorySearchSchema)
  /\ Has(DefaultSchemas, "memory.remember", MemoryRememberSchema)
  /\ Has(DefaultSchemas, "memory.forget", MemoryForgetSchema)
  /\ Has(DefaultSchemas, "system.get_health", NoArgumentsSchema)
  /\ Has(DefaultSchemas, "system.get_runtime_benchmark", NoArgumentsSchema)
  /\ Has(DefaultSchemas, "system.get_storage_usage", NoArgumentsSchema)
  /\ Has(DefaultSchemas, "system.preview_data_retention", NoArgumentsSchema)
  /\ Has(DefaultSchemas, "system.get_retention_cleanup_history", RetentionHistorySchema)
  /\ Has(DefaultSchemas, "system.cleanup_retained_data", RetentionCleanupSchema)
  /\ Has(DefaultSchemas, "vision.get_model_info", NoArgumentsSchema)
  /\ Has(DefaultSchemas, "vision.get_performance", NoArgumentsSchema)
  /\ Has(DefaultSchemas, "vision.get_people_count", NoArgumentsSchema)
  /\ Has(DefaultSchemas, "vision.get_current_objects", NoArgumentsSchema)
  /\ Has(DefaultSchemas, "vision.get_zone_status", ZoneStatusSchema)
  /\ Has(DefaultSchemas, "vision.count_objects", CountObjectsSchema)
  /\ Has(DefaultSchemas, "vision.get_track_history", TrackHistorySchema)
  /\ Has(DefaultSchemas, "weather.get_current", WeatherSchema)
<1> USE MergeLeft, MergeRight, MergeLacks, RecoveryToolTable, CameraToolTable, EventToolTable,
    InventoryToolTable, MemoryToolTable, SystemToolTable, ModelToolTable, VisionToolTable,
    WeatherToolTable DEF DefaultSchemas
<1>1. Has(DefaultSchemas, "recovery.create_backup", NoArgumentsSchema)
  OBVIOUS
<1>2. Has(DefaultSchemas, "recovery.get_status", RecoveryStatusSchema)
  OBVIOUS
<1>3. Has(DefaultSchemas, "recovery.preview_restore", RecoveryPreviewSchema)
  OBVIOUS
<1>4. Has(DefaultSchemas, "camera.capture_snapshot", NoArgumentsSchema)
  OBVIOUS
<1>5. Has(DefaultSchemas, "camera.restart", NoArgumentsSchema)
  OBVIOUS
<1>6. Has(DefaultSchemas, "camera.get_status", NoArgumentsSchema)
  OBVIOUS
<1>7. Has(DefaultSchemas, "report.generate", ReportSchema)
  OBVIOUS
<1>8. Has(DefaultSchemas, "evidence.verify_event", EventIdSchema)
  OBVIOUS
<1>9. Has(DefaultSchemas, "evidence.verify_recent", EvidenceVerifySchema)
  OBVIOUS
<1>10. Has(DefaultSchemas, "event.acknowledge", EventIdSchema)
  OBVIOUS
<1>11. Has(DefaultSchemas, "event.get_detail", EventIdSchema)
  OBVIOUS
<1>12. Has(DefaultSchemas, "event.query", EventQuerySchema)
  OBVIOUS
<1>13. Has(DefaultSchemas, "event.summarize", EventSummarySchema)
  OBVIOUS
<1>14. Has(DefaultSchemas, "inventory.get_current_state", InventoryStateSchema)
  OBVIOUS
<1>15. Has(DefaultSchemas, "inventory.compare_state", InventoryCompareSchema)
  OBVIOUS
<1>16. Has(DefaultSchemas, "inventory.get_removed_items", RemovedItemsSchema)
  OBVIOUS
<1>17. Has(DefaultSchemas, "memory.search", MemorySearchSchema)
  OBVIOUS
<1>18. Has(DefaultSchemas, "memory.remember", MemoryRememberSchema)
  OBVIOUS
<1>19. Has(DefaultSchemas, "memory.forget", MemoryForgetSchema)
  OBVIOUS
<1>20. Has(DefaultSchemas, "system.get_health", NoArgumentsSchema)
  OBVIOUS
<1>21. Has(DefaultSchemas, "system.get_runtime_benchmark", NoArgumentsSchema)
  OBVIOUS
<1>22. Has(DefaultSchemas, "system.get_storage_usage", NoArgumentsSchema)
  OBVIOUS
<1>23. Has(DefaultSchemas, "system.preview_data_retention", NoArgumentsSchema)
  OBVIOUS
<1>24. Has(DefaultSchemas, "system.get_retention_cleanup_history", RetentionHistorySchema)
  OBVIOUS
<1>25. Has(DefaultSchemas, "system.cleanup_retained_data", RetentionCleanupSchema)
  OBVIOUS
<1>26. Has(DefaultSchemas, "vision.get_model_info", NoArgumentsSchema)
  OBVIOUS
<1>27. Has(DefaultSchemas, "vision.get_performance", NoArgumentsSchema)
  OBVIOUS
<1>28. Has(DefaultSchemas, "vision.get_people_count", NoArgumentsSchema)
  OBVIOUS
<1>29. Has(DefaultSchemas, "vision.get_current_objects", NoArgumentsSchema)
  OBVIOUS
<1>30. Has(DefaultSchemas, "vision.get_zone_status", ZoneStatusSchema)
  OBVIOUS
<1>31. Has(DefaultSchemas, "vision.count_objects", CountObjectsSchema)
  OBVIOUS
<1>32. Has(DefaultSchemas, "vision.get_track_history", TrackHistorySchema)
  OBVIOUS
<1>33. Has(DefaultSchemas, "weather.get_current", WeatherSchema)
  OBVIOUS
<1> HIDE DEF DefaultSchemas
<1> QED
  BY <1>1, <1>2, <1>3, <1>4, <1>5, <1>6, <1>7, <1>8, <1>9, <1>10, <1>11, <1>12, <1>13, <1>14,
     <1>15, <1>16, <1>17, <1>18, <1>19, <1>20, <1>21, <1>22, <1>23, <1>24, <1>25, <1>26, <1>27,
     <1>28, <1>29, <1>30, <1>31, <1>32, <1>33

\* What tool takes as its argument n.
Property(tool, n, s) == Has(DefaultSchemas[tool].properties, n, s)
Requires(tool, names) == DefaultSchemas[tool].required = names

LEMMA TableEntry == ASSUME NEW t, NEW s, Has(DefaultSchemas, t, s) PROVE DefaultSchemas[t] = s
BY DEF Has

LEMMA TakesFields == ASSUME NEW f, NEW r PROVE Takes(f, r).properties = f /\ Takes(f, r).required = r
BY DEF Takes

LEMMA ToolProperties ==
  /\ Property("recovery.get_status", "limit", Whole(1, 20))
  /\ Property("memory.search", "limit", Whole(1, 20))
  /\ Property("memory.remember", "kind", OneOf(2))
  /\ Property("system.get_retention_cleanup_history", "limit", Whole(1, 20))
  /\ Property("evidence.verify_recent", "limit", Whole(1, 100))
  /\ Property("vision.get_track_history", "limit", Whole(1, 20))
  /\ Property("vision.get_track_history", "object_class", Label)
  /\ Property("vision.count_objects", "zone_id", Label)
  /\ Property("vision.get_zone_status", "zone_id", Label)
  /\ Property("inventory.get_removed_items", "minutes", Whole(1, 1440))
  /\ Property("inventory.get_removed_items", "limit", Whole(1, 50))
<1>1. Property("recovery.get_status", "limit", Whole(1, 20))
  BY TableEntry, ToolTable, TakesFields DEF Property, RecoveryStatusSchema, Has
<1>2. Property("memory.search", "limit", Whole(1, 20))
  BY TableEntry, ToolTable, TakesFields DEF Property, MemorySearchSchema, Has
<1>3. Property("memory.remember", "kind", OneOf(2))
  BY TableEntry, ToolTable, TakesFields DEF Property, MemoryRememberSchema, Has
<1>4. Property("system.get_retention_cleanup_history", "limit", Whole(1, 20))
  BY TableEntry, ToolTable, TakesFields DEF Property, RetentionHistorySchema, Has
<1>5. Property("evidence.verify_recent", "limit", Whole(1, 100))
  BY TableEntry, ToolTable, TakesFields, MergeLeft, MergeRight, MergeLacks
  DEF Property, EvidenceVerifySchema, EventFilters, Window, Has, Lacks
<1>6. Property("vision.get_track_history", "limit", Whole(1, 20))
  BY TableEntry, ToolTable, TakesFields DEF Property, TrackHistorySchema, Has
<1>7. Property("vision.get_track_history", "object_class", Label)
  BY TableEntry, ToolTable, TakesFields DEF Property, TrackHistorySchema, Has
<1>8. Property("vision.count_objects", "zone_id", Label)
  BY TableEntry, ToolTable, TakesFields DEF Property, CountObjectsSchema, Has
<1>9. Property("vision.get_zone_status", "zone_id", Label)
  BY TableEntry, ToolTable, TakesFields DEF Property, ZoneStatusSchema, Has
<1>10. Property("inventory.get_removed_items", "minutes", Whole(1, 1440))
  BY TableEntry, ToolTable, TakesFields, MergeLeft, MergeRight, MergeLacks
  DEF Property, RemovedItemsSchema, EventFilters, Window, Has, Lacks
<1>11. Property("inventory.get_removed_items", "limit", Whole(1, 50))
  BY TableEntry, ToolTable, TakesFields, MergeLeft, MergeRight, MergeLacks
  DEF Property, RemovedItemsSchema, EventFilters, Window, Has, Lacks
<1> QED
  BY <1>1, <1>2, <1>3, <1>4, <1>5, <1>6, <1>7, <1>8, <1>9, <1>10, <1>11

LEMMA DeletionProperties ==
  /\ Property("memory.forget", "memory_id", Text(36, 36))
  /\ Property("system.cleanup_retained_data", "plan_id", Text(36, 36))
  /\ Property("system.cleanup_retained_data", "candidate_paths", Each("array", 1, 100, Text(1,
       512), TRUE))
<1>1. Property("memory.forget", "memory_id", Text(36, 36))
  BY TableEntry, ToolTable, TakesFields DEF Property, MemoryForgetSchema, Has
<1>2. Property("system.cleanup_retained_data", "plan_id", Text(36, 36))
  BY TableEntry, ToolTable, TakesFields DEF Property, RetentionCleanupSchema, Has
<1>3. Property("system.cleanup_retained_data", "candidate_paths", Each("array", 1, 100, Text(1,
    512), TRUE))
  <2>1. DefaultSchemas["system.cleanup_retained_data"] = RetentionCleanupSchema
    BY TableEntry, ToolTable
  <2>2. RetentionCleanupSchema.properties
          = [plan_id         |-> Text(36, 36),
             candidate_paths |-> Each("array", 1, 100, Text(1, 512), TRUE)]
    BY TakesFields DEF RetentionCleanupSchema
  <2> QED
    BY <2>1, <2>2 DEF Property, Has
<1> QED
  BY <1>1, <1>2, <1>3

LEMMA QueryProperties ==
  /\ Property("event.query", "limit", Whole(1, 100))
  /\ Property("event.query", "status", OneOf(2))
  /\ Property("event.query", "object_class", Label)
  /\ Property("event.query", "event_type", Label)
<1>1. Property("event.query", "limit", Whole(1, 100))
  BY TableEntry, ToolTable, TakesFields, MergeLeft, MergeRight, MergeLacks
  DEF Property, EventQuerySchema, EventFilters, Window, Has, Lacks
<1>2. Property("event.query", "status", OneOf(2))
  BY TableEntry, ToolTable, TakesFields, MergeLeft, MergeRight, MergeLacks
  DEF Property, EventQuerySchema, EventFilters, Window, Has, Lacks
<1>3. Property("event.query", "object_class", Label)
  BY TableEntry, ToolTable, TakesFields, MergeLeft, MergeRight, MergeLacks
  DEF Property, EventQuerySchema, EventFilters, Window, Has, Lacks
<1>4. Property("event.query", "event_type", Label)
  BY TableEntry, ToolTable, TakesFields, MergeLeft, MergeRight, MergeLacks
  DEF Property, EventQuerySchema, EventFilters, Window, Has, Lacks
<1> QED
  BY <1>1, <1>2, <1>3, <1>4

LEMMA SummaryProperties ==
  /\ Property("event.summarize", "minutes", Whole(1, 1440))
  /\ Property("event.summarize", "recent_limit", Whole(1, 10))
  /\ Property("event.summarize", "bucket_minutes", Whole(1, 3))
  /\ Property("event.summarize", "compare_previous", Flag)
  /\ Property("event.summarize", "comparison_offset_minutes", Whole(1, 10080))
  /\ Property("event.summarize", "include_reference_baselines", Flag)
  /\ Property("event.summarize", "change_threshold_percent", Whole(1, 500))
  /\ Property("event.summarize", "change_threshold_events", Whole(1, 1000))
  /\ Property("event.summarize", "status", OneOf(2))
  /\ Property("event.summarize", "object_class", Label)
<1>1. Property("event.summarize", "minutes", Whole(1, 1440))
  BY TableEntry, ToolTable, TakesFields, MergeLeft, MergeRight, MergeLacks
  DEF Property, EventSummarySchema, EventFilters, Window, Has, Lacks
<1>2. Property("event.summarize", "recent_limit", Whole(1, 10))
  BY TableEntry, ToolTable, TakesFields, MergeLeft, MergeRight, MergeLacks
  DEF Property, EventSummarySchema, EventFilters, Window, Has, Lacks
<1>3. Property("event.summarize", "bucket_minutes", Whole(1, 3))
  BY TableEntry, ToolTable, TakesFields, MergeLeft, MergeRight, MergeLacks
  DEF Property, EventSummarySchema, EventFilters, Window, Has, Lacks
<1>4. Property("event.summarize", "compare_previous", Flag)
  BY TableEntry, ToolTable, TakesFields, MergeLeft, MergeRight, MergeLacks
  DEF Property, EventSummarySchema, EventFilters, Window, Has, Lacks
<1>5. Property("event.summarize", "comparison_offset_minutes", Whole(1, 10080))
  BY TableEntry, ToolTable, TakesFields, MergeLeft, MergeRight, MergeLacks
  DEF Property, EventSummarySchema, EventFilters, Window, Has, Lacks
<1>6. Property("event.summarize", "include_reference_baselines", Flag)
  BY TableEntry, ToolTable, TakesFields, MergeLeft, MergeRight, MergeLacks
  DEF Property, EventSummarySchema, EventFilters, Window, Has, Lacks
<1>7. Property("event.summarize", "change_threshold_percent", Whole(1, 500))
  BY TableEntry, ToolTable, TakesFields, MergeLeft, MergeRight, MergeLacks
  DEF Property, EventSummarySchema, EventFilters, Window, Has, Lacks
<1>8. Property("event.summarize", "change_threshold_events", Whole(1, 1000))
  BY TableEntry, ToolTable, TakesFields, MergeLeft, MergeRight, MergeLacks
  DEF Property, EventSummarySchema, EventFilters, Window, Has, Lacks
<1>9. Property("event.summarize", "status", OneOf(2))
  BY TableEntry, ToolTable, TakesFields, MergeLeft, MergeRight, MergeLacks
  DEF Property, EventSummarySchema, EventFilters, Window, Has, Lacks
<1>10. Property("event.summarize", "object_class", Label)
  BY TableEntry, ToolTable, TakesFields, MergeLeft, MergeRight, MergeLacks
  DEF Property, EventSummarySchema, EventFilters, Window, Has, Lacks
<1> QED
  BY <1>1, <1>2, <1>3, <1>4, <1>5, <1>6, <1>7, <1>8, <1>9, <1>10

-----------------------------------------------------------------------------
(* The arguments: one the model chose is accepted by its schema, one the   *)
(* user gave is Given, and what is put together of such is as good.        *)

GivenBy(p) == {p.gives[name] : name \in DOMAIN p.gives}

\* CallsFitSchemas of one argument, and of several.
Accepted(p, tool, n, v) ==
  \/ /\ n \in DOMAIN DefaultSchemas[tool].properties
     /\ Cat!ValidValue(DefaultSchemas[tool].properties[n], v)
  \/ v \in GivenBy(p)
  \/ ToSet(v.parts) \cap GivenBy(p) # {}
  \/ n = "status" /\ tool = "inventory.get_removed_items"
AllAccepted(p, tool, a) == \A n \in DOMAIN a : Accepted(p, tool, n, a[n])

LEMMA WholeAccepted ==
  ASSUME NEW p, NEW t, NEW n, NEW low \in Int, NEW high \in Int, Property(t, n, Whole(low,
      high)),
         NEW k \in low..high
  PROVE  Accepted(p, t, n, Number(k))
BY DEF Accepted, Property, Has, Whole, Sized, Number, Cat!ValidValue, Cat!Composite,
   Cat!ValidScalar,
       Cat!InRange

LEMMA TextAccepted ==
  ASSUME NEW p, NEW t, NEW n, NEW low \in Int, NEW high \in Int, Property(t, n, Text(low,
      high)),
         NEW k \in low..high, NEW text
  PROVE  Accepted(p, t, n, Choice(k)) /\ Accepted(p, t, n, Id(k, text))
BY DEF Accepted, Property, Has, Text, Sized, Choice, Id, Cat!ValidValue, Cat!Composite,
   Cat!ValidScalar,
       Cat!InRange

LEMMA NameAccepted ==
  ASSUME NEW p, NEW t, NEW n, Property(t, n, Label), NEW text
  PROVE  Accepted(p, t, n, Name(text))
BY DEF Accepted, Property, Has, Label, Text, Sized, Name, Cat!ValidValue, Cat!Composite,
   Cat!ValidScalar,
       Cat!InRange

LEMMA FlagAccepted ==
  ASSUME NEW p, NEW t, NEW n, Property(t, n, Flag)
  PROVE  Accepted(p, t, n, True)
BY DEF Accepted, Property, Has, Flag, Sized, True, Cat!ValidValue, Cat!Composite,
   Cat!ValidScalar

LEMMA MergeAccepted ==
  ASSUME NEW p, NEW t, NEW f, NEW g, AllAccepted(p, t, f), AllAccepted(p, t, g)
  PROVE  AllAccepted(p, t, f ++ g)
BY DEF AllAccepted, ++

LEMMA NothingAccepted == ASSUME NEW p, NEW t PROVE AllAccepted(p, t, Nothing)
BY DEF AllAccepted, Nothing

LEMMA GivenAccepted ==
  ASSUME NEW p, NEW t, NEW n, NEW name, Gives(p, name) PROVE Accepted(p, t, n, p.gives[name])
BY DEF Accepted, GivenBy, Gives

LEMMA OptionalAccepted ==
  ASSUME NEW p, NEW t, NEW name, NEW as PROVE AllAccepted(p, t, Optional(p, name, as))
BY GivenAccepted, NothingAccepted DEF Optional, AllAccepted, Field

LEMMA LimitAccepted ==
  ASSUME NEW p, NEW t, NEW high \in Int, Property(t, "limit", Whole(1, high)), NEW k \in 1..high
  PROVE  AllAccepted(p, t, Limit(k))
BY WholeAccepted DEF AllAccepted, Limit

LEMMA MinutesAccepted ==
  ASSUME NEW p, NEW t, Property(t, "minutes", Whole(1, 1440)), NEW k \in 1..1440
  PROVE  AllAccepted(p, t, Minutes(p, k))
BY WholeAccepted, GivenAccepted DEF AllAccepted, Minutes

LEMMA StatusAccepted ==
  ASSUME NEW p, NEW t, Property(t, "status", OneOf(2)) \/ t = "inventory.get_removed_items"
  PROVE  AllAccepted(p, t, Status(p))
<1>1. Accepted(p, t, "status", Choice(1)) /\ Accepted(p, t, "status", Choice(2))
  <2>1. CASE t = "inventory.get_removed_items"
    BY <2>1 DEF Accepted
  <2>2. CASE Property(t, "status", OneOf(2))
    <3>1. Property(t, "status", Text(1, 2)) /\ 1 \in 1..2 /\ 2 \in 1..2
      BY <2>2 DEF OneOf
    <3> QED
      BY <3>1, TextAccepted
  <2> QED
    BY <2>1, <2>2
<1> QED
  BY <1>1, NothingAccepted DEF AllAccepted, Status

LEMMA ZoneAccepted ==
  ASSUME NEW p, NEW t, Property(t, "zone_id", Label)
  PROVE  AllAccepted(p, t, Zone(p))
BY NameAccepted, NothingAccepted DEF AllAccepted, Zone

LEMMA ClassAccepted ==
  ASSUME NEW p, NEW t, NEW text, Property(t, "object_class", Label)
  PROVE  AllAccepted(p, t, [object_class |-> Name(text)])
BY NameAccepted DEF AllAccepted

LEMMA TrackOfAccepted == ASSUME NEW p PROVE AllAccepted(p, "vision.get_track_history",
    TrackOf(p))
BY OptionalAccepted, MergeAccepted, ClassAccepted, ToolProperties DEF TrackOf

LEMMA SubjectAccepted ==
  ASSUME NEW p, NEW t, Property(t, "object_class", Label)
  PROVE  AllAccepted(p, t, Subject(p))
BY ClassAccepted, NothingAccepted DEF Subject

LEMMA TypeAccepted ==
  ASSUME NEW p, NEW text
  PROVE  AllAccepted(p, "event.query", [event_type |-> Name(text)])
BY NameAccepted, QueryProperties DEF AllAccepted

LEMMA KindAccepted == ASSUME NEW p PROVE AllAccepted(p, "event.query", Kind(p))
<1>1. \A text : AllAccepted(p, "event.query", [object_class |-> Name(text)])
  BY ClassAccepted, QueryProperties
<1>2. \A text, type :
        AllAccepted(p, "event.query", [object_class |-> Name(text), event_type |-> Name(type)])
  BY NameAccepted, QueryProperties DEF AllAccepted
<1>3. CASE "bottle" \in p.says \/ "dwell" \in p.says \/ "camera" \notin p.says
  BY <1>1, <1>2, <1>3, NothingAccepted DEF Kind
<1>4. CASE ~("bottle" \in p.says \/ "dwell" \in p.says \/ "camera" \notin p.says)
  <2>1. PICK g : /\ Kind(p) = [object_class |-> Name("camera")] ++ g
                 /\ g = Nothing \/ \E type : g = [event_type |-> Name(type)]
    BY <1>4 DEF Kind
  <2>2. AllAccepted(p, "event.query", g)
    BY <2>1, TypeAccepted, NothingAccepted
  <2> QED
    BY <1>1, <2>1, <2>2, MergeAccepted
<1> QED
  BY <1>3, <1>4

-----------------------------------------------------------------------------
(* The rules of FirstDecision: each of the nine groups yields good calls,   *)
(* and so does the first rule that applies of all of them.                 *)

FreeTools ==
  {"recovery.get_status", "recovery.create_backup", "memory.search", "camera.capture_snapshot",
      "camera.restart", "camera.get_status", "vision.get_model_info", "vision.get_performance",
      "system.get_runtime_benchmark", "weather.get_current",
      "system.get_retention_cleanup_history", "system.preview_data_retention",
      "system.get_storage_usage", "system.get_health", "evidence.verify_recent",
      "report.generate", "vision.get_track_history", "inventory.get_removed_items",
      "inventory.get_current_state", "vision.get_zone_status", "vision.get_people_count",
      "vision.get_current_objects", "event.summarize", "event.query"}

LEMMA FreeSchemas ==
  \A s \in {NoArgumentsSchema, EventQuerySchema, EventSummarySchema, EvidenceVerifySchema,
      InventoryStateSchema, MemorySearchSchema, RecoveryStatusSchema, RemovedItemsSchema,
      ReportSchema, RetentionHistorySchema, TrackHistorySchema, WeatherSchema,
      ZoneStatusSchema} : s.required = {}
BY TakesFields DEF NoArgumentsSchema, EventQuerySchema, EventSummarySchema,
   EvidenceVerifySchema, InventoryStateSchema, MemorySearchSchema, RecoveryStatusSchema,
   RemovedItemsSchema, ReportSchema, RetentionHistorySchema, TrackHistorySchema, WeatherSchema,
   ZoneStatusSchema

LEMMA NothingRequired == \A t \in FreeTools : Requires(t, {})
BY TableEntry, ToolTable, FreeSchemas DEF Requires, FreeTools

LEMMA Required ==
  /\ Requires("recovery.preview_restore", {"backup_id"})
  /\ Requires("memory.forget", {"memory_id"})
  /\ Requires("memory.remember", {"kind", "key", "value"})
  /\ \A t \in {"evidence.verify_event", "event.acknowledge", "event.get_detail"} :
       Requires(t, {"event_id"})
  /\ Requires("vision.count_objects", {"classes"})
  /\ Requires("inventory.compare_state", {"expected_counts"})
  /\ Requires("system.cleanup_retained_data", {"plan_id", "candidate_paths"})
BY TableEntry, ToolTable, TakesFields
DEF Requires, RecoveryPreviewSchema, MemoryForgetSchema, MemoryRememberSchema, EventIdSchema,
    CountObjectsSchema, InventoryCompareSchema, RetentionCleanupSchema

\* OfflineIsSound of one call, the first of a task.
Fit(p, call) ==
  /\ DefaultSchemas[call.tool].required \subseteq DOMAIN call.arguments
  /\ AllAccepted(p, call.tool, call.arguments)

Taken(call) ==
  /\ call.tool = "event.summarize" /\ "comparison_offset_minutes" \in DOMAIN call.arguments
  /\ Cat!ValidArguments(EventSummarySchema, call.arguments)
  => /\ "compare_previous" \in DOMAIN call.arguments
     /\ call.arguments["comparison_offset_minutes"].size >= call.arguments["minutes"].size

NamedFirst(p, call) ==
  /\ call.tool = "memory.forget" => call.arguments["memory_id"] \in GivenBy(p)
  /\ call.tool # "system.cleanup_retained_data"

Good(p, call) ==
  call.tool \notin {"none", "system.shell"} => Fit(p, call) /\ Taken(call) /\ NamedFirst(p, call)

Plain(t) == t \notin {"event.summarize", "memory.forget", "system.cleanup_retained_data"}

LEMMA PlainCall ==
  ASSUME NEW p, NEW t, Plain(t), NEW names, Requires(t, names), NEW a, AllAccepted(p, t, a),
         names \subseteq DOMAIN a
  PROVE  Good(p, Call(t, a))
BY DEF Plain, Requires, Good, Call, Fit, Taken, NamedFirst

LEMMA FreeCall ==
  ASSUME NEW p, NEW t \in FreeTools, Plain(t), NEW a, AllAccepted(p, t, a)
  PROVE  Good(p, Call(t, a))
BY NothingRequired, PlainCall

LEMMA BareCall ==
  ASSUME NEW p, NEW t \in FreeTools, Plain(t)
  PROVE  Good(p, Call(t, Nothing))
BY FreeCall, NothingAccepted

LEMMA Saying == ASSUME NEW p, NEW text PROVE Good(p, Says(text))
BY DEF Good, Says

LEMMA OptionalDomain ==
  ASSUME NEW p, NEW name, NEW as, Gives(p, name)
  PROVE  DOMAIN Optional(p, name, as) = {as} /\ Optional(p, name, as)[as] = p.gives[name]
BY DEF Optional, Field

\* One rule, and a sequence of them.
GoodRule(p, r) == r.when => Good(p, r.then)
GoodRules(p, s) == \E R : s \in Seq(R) /\ \A r \in R : GoodRule(p, r)

LEMMA TopicRule ==
  ASSUME NEW p, NEW topic, NEW call, Good(p, call) PROVE GoodRule(p, Topic(p, topic, call))
BY DEF GoodRule, Topic, Rule

LEMMA ConditionRule ==
  ASSUME NEW p, NEW when, NEW call, when => Good(p, call) PROVE GoodRule(p, Rule(when, call))
BY DEF GoodRule, Rule

\* A list of rules is good when each of them is.
LEMMA ListedRules ==
  ASSUME NEW p, NEW s, NEW n \in Nat, s = [i \in 1..n |-> s[i]], \A i \in 1..n : GoodRule(p,
      s[i])
  PROVE  GoodRules(p, s)
<1> DEFINE R == {s[i] : i \in 1..n}
<1>1. s \in Seq(R)
  BY SeqDef
<1>2. \A r \in R : GoodRule(p, r)
  OBVIOUS
<1> HIDE DEF R
<1>3. \E Q : s \in Seq(Q) /\ \A r \in Q : GoodRule(p, r)
  BY <1>1, <1>2, Zenon
<1> QED
  BY <1>3 DEF GoodRules

LEMMA ThreeRules ==
  ASSUME NEW p, NEW a, NEW b, NEW c, GoodRule(p, a), GoodRule(p, b), GoodRule(p, c)
  PROVE  GoodRules(p, <<a, b, c>>)
<1>1. PICK s : s = <<a, b, c>>
  OBVIOUS
<1>2. s = [i \in 1..3 |-> s[i]] /\ \A i \in 1..3 : GoodRule(p, s[i])
  BY <1>1
<1>3. GoodRules(p, s)
  BY <1>2, ListedRules
<1> QED
  BY <1>1, <1>3

LEMMA FourRules ==
  ASSUME NEW p, NEW a, NEW b, NEW c, NEW d, GoodRule(p, a), GoodRule(p, b), GoodRule(p, c),
      GoodRule(p, d)
  PROVE  GoodRules(p, <<a, b, c, d>>)
<1>1. PICK s : s = <<a, b, c, d>>
  OBVIOUS
<1>2. s = [i \in 1..4 |-> s[i]] /\ \A i \in 1..4 : GoodRule(p, s[i])
  BY <1>1
<1>3. GoodRules(p, s)
  BY <1>2, ListedRules
<1> QED
  BY <1>1, <1>3

LEMMA RecoveryAreGood == ASSUME NEW p PROVE GoodRules(p, RecoveryRules(p))
<1>1. Good(p, Call("system.shell", Nothing))
  BY DEF Good, Call
<1>2. Good(p, IF Gives(p, "backup_id")
              THEN Call("recovery.preview_restore", Optional(p, "backup_id", "backup_id"))
              ELSE Call("recovery.get_status", Limit(5)))
  <2>1. AllAccepted(p, "recovery.get_status", Limit(5))
    BY LimitAccepted, ToolProperties
  <2>2. Good(p, Call("recovery.get_status", Limit(5)))
    BY <2>1, FreeCall DEF FreeTools, Plain
  <2>3. ASSUME Gives(p, "backup_id")
        PROVE  Good(p, Call("recovery.preview_restore", Optional(p, "backup_id", "backup_id")))
    <3>1. Requires("recovery.preview_restore", {"backup_id"}) /\ Plain("recovery.preview_restore")
      BY Required DEF Plain
    <3>2. DOMAIN Optional(p, "backup_id", "backup_id") = {"backup_id"}
      BY <2>3, OptionalDomain
    <3> QED
      BY <3>1, <3>2, OptionalAccepted, PlainCall
  <2> QED
    BY <2>2, <2>3
<1>3. Good(p, Call("recovery.create_backup", Nothing)) /\ Good(p, Call("recovery.get_status", Limit(5)))
  <2>1. AllAccepted(p, "recovery.get_status", Limit(5))
    BY LimitAccepted, ToolProperties
  <2> QED
    BY <2>1, FreeCall, BareCall DEF FreeTools, Plain
<1> QED
  BY <1>1, <1>2, <1>3, TopicRule, FourRules, Zenon DEF RecoveryRules

LEMMA OneRules ==
  ASSUME NEW p, NEW a,
         GoodRule(p, a)
  PROVE  GoodRules(p, <<a>>)
<1>1. PICK s : s = <<a>>
  OBVIOUS
<1>2. s = [i \in 1..1 |-> s[i]] /\ \A i \in 1..1 : GoodRule(p, s[i])
  BY <1>1
<1>3. GoodRules(p, s)
  BY <1>2, ListedRules
<1> QED
  BY <1>1, <1>3

LEMMA FiveRules ==
  ASSUME NEW p, NEW a, NEW b, NEW c, NEW d, NEW e,
         GoodRule(p, a), GoodRule(p, b), GoodRule(p, c), GoodRule(p, d), GoodRule(p, e)
  PROVE  GoodRules(p, <<a, b, c, d, e>>)
<1>1. PICK s : s = <<a, b, c, d, e>>
  OBVIOUS
<1>2. s = [i \in 1..5 |-> s[i]] /\ \A i \in 1..5 : GoodRule(p, s[i])
  BY <1>1
<1>3. GoodRules(p, s)
  BY <1>2, ListedRules
<1> QED
  BY <1>1, <1>3

LEMMA SixRules ==
  ASSUME NEW p, NEW a, NEW b, NEW c, NEW d, NEW e, NEW f,
         GoodRule(p, a), GoodRule(p, b), GoodRule(p, c), GoodRule(p, d), GoodRule(p, e),
             GoodRule(p, f)
  PROVE  GoodRules(p, <<a, b, c, d, e, f>>)
<1>1. PICK s : s = <<a, b, c, d, e, f>>
  OBVIOUS
<1>2. s = [i \in 1..6 |-> s[i]] /\ \A i \in 1..6 : GoodRule(p, s[i])
  BY <1>1
<1>3. GoodRules(p, s)
  BY <1>2, ListedRules
<1> QED
  BY <1>1, <1>3

LEMMA RecallIsGood == ASSUME NEW p PROVE Good(p, Recall(p))
<1>1. AllAccepted(p, "memory.search", Limit(5))
  BY LimitAccepted, ToolProperties
<1>2. AllAccepted(p, "memory.search", Optional(p, "query", "query") ++ Limit(5))
  BY <1>1, OptionalAccepted, MergeAccepted
<1> QED
  BY <1>2, FreeCall DEF Recall, FreeTools, Plain

LEMMA RememberIsGood ==
  ASSUME NEW p, Gives(p, "key"), Gives(p, "value") PROVE Good(p, Call("memory.remember",
      Record(p)))
<1>1. PICK k, v, d : /\ k = Optional(p, "key", "key") /\ v = Optional(p, "value", "value")
                     /\ d = [kind |-> Choice(IF "preference" \in p.says THEN 2 ELSE 1)]
  OBVIOUS
<1>2. Record(p) = d ++ k ++ v
  BY <1>1 DEF Record
<1>3. AllAccepted(p, "memory.remember", k) /\ AllAccepted(p, "memory.remember", v)
  BY <1>1, OptionalAccepted
<1>4. AllAccepted(p, "memory.remember", d)
  <2>1. Property("memory.remember", "kind", Text(1, 2)) /\ 1 \in 1..2 /\ 2 \in 1..2
    BY ToolProperties DEF OneOf
  <2>2. Accepted(p, "memory.remember", "kind", Choice(1))
    BY <2>1, TextAccepted
  <2>3. Accepted(p, "memory.remember", "kind", Choice(2))
    BY <2>1, TextAccepted
  <2> QED
    BY <1>1, <2>2, <2>3 DEF AllAccepted
<1>5. DOMAIN Record(p) = {"kind", "key", "value"}
  <2>1. DOMAIN d = {"kind"} /\ DOMAIN k = {"key"} /\ DOMAIN v = {"value"}
    BY <1>1, OptionalDomain
  <2> QED
    BY <1>2, <2>1 DEF ++
<1>6. AllAccepted(p, "memory.remember", Record(p))
  BY <1>2, <1>3, <1>4, MergeAccepted
<1>7. Plain("memory.remember") /\ Requires("memory.remember", {"kind", "key", "value"})
  BY Required DEF Plain
<1> QED
  BY <1>5, <1>6, <1>7, PlainCall

LEMMA ForgetIsGood ==
  ASSUME NEW p, Gives(p, "memory_id")
  PROVE  Good(p, Call("memory.forget", Optional(p, "memory_id", "memory_id")))
<1>1. PICK a : a = Optional(p, "memory_id", "memory_id")
  OBVIOUS
<1>2. DOMAIN a = {"memory_id"} /\ a["memory_id"] = p.gives["memory_id"]
  BY <1>1, OptionalDomain
<1>3. AllAccepted(p, "memory.forget", a) /\ Requires("memory.forget", {"memory_id"})
  BY <1>1, OptionalAccepted, Required
<1>4. Fit(p, Call("memory.forget", a))
  BY <1>2, <1>3 DEF Fit, Call, Requires
<1>5. NamedFirst(p, Call("memory.forget", a))
  BY <1>2 DEF NamedFirst, Call, GivenBy, Gives
<1>6. Taken(Call("memory.forget", a))
  BY DEF Taken, Call
<1> QED
  BY <1>1, <1>4, <1>5, <1>6 DEF Good

LEMMA MemoryAreGood == ASSUME NEW p PROVE GoodRules(p, MemoryRules(p))
<1>1. Good(p, IF Gives(p, "memory_id")
              THEN Call("memory.forget", Optional(p, "memory_id", "memory_id"))
              ELSE Recall(p))
  BY ForgetIsGood, RecallIsGood
<1>2. Gives(p, "key") /\ Gives(p, "value") => Good(p, Call("memory.remember", Record(p)))
  BY RememberIsGood
<1> QED
  BY <1>1, <1>2, RecallIsGood, TopicRule, ConditionRule, ThreeRules, Zenon DEF MemoryRules

LEMMA CameraAreGood == ASSUME NEW p PROVE GoodRules(p, CameraRules(p))
<1>1. \A t \in {"camera.capture_snapshot", "camera.restart", "vision.get_model_info",
    "vision.get_performance",
                "system.get_runtime_benchmark", "camera.get_status"} :
        Good(p, Call(t, Nothing))
  BY BareCall DEF FreeTools, Plain
<1>2. \A t \in {"camera.capture_snapshot", "camera.restart", "vision.get_model_info",
    "vision.get_performance",
                "system.get_runtime_benchmark", "camera.get_status"} : \A topic :
        GoodRule(p, Topic(p, topic, Call(t, Nothing)))
  BY <1>1, TopicRule
<1> QED
  BY <1>2, SixRules DEF CameraRules

LEMMA LocationAccepted == ASSUME NEW p PROVE AllAccepted(p, "weather.get_current", Location(p))
<1>1. ASSUME Gives(p, "location") PROVE AllAccepted(p, "weather.get_current",
    [location |-> p.gives["location"]])
  <2>1. Accepted(p, "weather.get_current", "location", p.gives["location"])
    BY <1>1, GivenAccepted
  <2> QED
    BY <2>1 DEF AllAccepted
<1> QED
  BY <1>1, NothingAccepted DEF Location

LEMMA DataAreGood == ASSUME NEW p PROVE GoodRules(p, DataRules(p))
<1>1. Good(p, Call("weather.get_current", Location(p)))
  BY LocationAccepted, FreeCall DEF FreeTools, Plain
<1>2. Good(p, Call("system.get_retention_cleanup_history", Limit(10)))
  <2>1. AllAccepted(p, "system.get_retention_cleanup_history", Limit(10))
    BY LimitAccepted, ToolProperties
  <2> QED
    BY <2>1, FreeCall DEF FreeTools, Plain
<1>3. /\ Good(p, Call("system.preview_data_retention", Nothing))
      /\ Good(p, Call("system.get_storage_usage", Nothing))
      /\ Good(p, Call("system.get_health", Nothing))
  BY BareCall DEF FreeTools, Plain
<1> QED
  BY <1>1, <1>2, <1>3, TopicRule, SixRules, Zenon DEF DataRules

LEMMA EventIdCall ==
  ASSUME NEW p, Gives(p, "event_id"),
         NEW t \in {"evidence.verify_event", "event.acknowledge", "event.get_detail"}
  PROVE  Good(p, Call(t, EventId(p)))
<1>1. DOMAIN EventId(p) = {"event_id"} /\ AllAccepted(p, t, EventId(p))
  BY OptionalDomain, OptionalAccepted DEF EventId
<1>2. Requires(t, {"event_id"}) /\ Plain(t)
  BY Required DEF Plain
<1> QED
  BY <1>1, <1>2, PlainCall

LEMMA ExactAreGood == ASSUME NEW p PROVE GoodRules(p, ExactRules(p))
<1>1. Good(p, Call("evidence.verify_recent", Limit(50)))
  <2>1. AllAccepted(p, "evidence.verify_recent", Limit(50))
    BY LimitAccepted, ToolProperties
  <2> QED
    BY <2>1, FreeCall DEF FreeTools, Plain
<1>2. Good(p, IF Gives(p, "event_id") THEN Call("evidence.verify_event", EventId(p))
              ELSE Call("evidence.verify_recent", Limit(50)))
  BY <1>1, EventIdCall
<1>3. Good(p, Call("report.generate", Nothing))
  BY BareCall DEF FreeTools, Plain
<1>4. Good(p, IF Gives(p, "event_id") THEN Call("event.acknowledge",
    EventId(p)) ELSE Says("which event"))
  BY EventIdCall, Saying
<1>5. Gives(p, "event_id") /\ "detail" \in p.says => Good(p, Call("event.get_detail", EventId(p)))
  BY EventIdCall
<1> QED
  BY <1>2, <1>3, <1>4, <1>5, TopicRule, ConditionRule, FourRules, Zenon DEF ExactRules

LEMMA CountAreGood == ASSUME NEW p PROVE GoodRules(p, CountRules(p))
<1>1. Good(p, IF TrackOf(p) = Nothing THEN Says("which track")
              ELSE Call("vision.get_track_history", TrackOf(p) ++ Limit(10)))
  <2>1. AllAccepted(p, "vision.get_track_history", Limit(10))
    BY LimitAccepted, ToolProperties
  <2>2. AllAccepted(p, "vision.get_track_history", TrackOf(p) ++ Limit(10))
    BY <2>1, TrackOfAccepted, MergeAccepted
  <2> QED
    BY <2>2, Saying, FreeCall DEF FreeTools, Plain
<1>2. ASSUME NEW name, NEW type, Gives(p, name), NEW t, NEW n
      PROVE  Accepted(p, t, n, List(type, Only(p, name)))
  <2>1. p.gives[name] \in ToSet(<<p.gives[name]>>) \cap GivenBy(p)
    BY <1>2 DEF ToSet, GivenBy, Gives
  <2>2. List(type, Only(p, name)).parts = <<p.gives[name]>>
    BY <1>2 DEF List, Only
  <2> QED
    BY <2>1, <2>2 DEF Accepted
<1>3. ASSUME Gives(p, "class")
      PROVE  Good(p, Call("vision.count_objects",
                          [classes |-> List("array", Only(p, "class"))]
                          ++ Optional(p, "confidence", "minimum_confidence") ++ Zone(p)))
  <2>1. PICK c, o, z : /\ c = [classes |-> List("array", Only(p, "class"))]
                       /\ o = Optional(p, "confidence", "minimum_confidence") /\ z = Zone(p)
    OBVIOUS
  <2>2. AllAccepted(p, "vision.count_objects", c)
    BY <1>2, <1>3, <2>1 DEF AllAccepted
  <2>3. AllAccepted(p, "vision.count_objects", o) /\ AllAccepted(p, "vision.count_objects", z)
    BY <2>1, OptionalAccepted, ZoneAccepted, ToolProperties
  <2>4. AllAccepted(p, "vision.count_objects", c ++ o ++ z)
    BY <2>2, <2>3, MergeAccepted
  <2>5. {"classes"} \subseteq DOMAIN (c ++ o ++ z)
    BY <2>1 DEF ++
  <2>6. Plain("vision.count_objects") /\ Requires("vision.count_objects", {"classes"})
    BY Required DEF Plain
  <2>7. Good(p, Call("vision.count_objects", c ++ o ++ z))
    BY <2>4, <2>5, <2>6, PlainCall
  <2> QED
    BY <2>1, <2>7
<1>4. Good(p, IF Gives(p, "class") /\ Gives(p, "expected")
              THEN Call("inventory.compare_state",
                        [expected_counts |-> List("object", Only(p, "expected"))])
              ELSE Says("which count"))
  <2>1. CASE Gives(p, "class") /\ Gives(p, "expected")
    <3>1. PICK a : a = [expected_counts |-> List("object", Only(p, "expected"))]
      OBVIOUS
    <3>2. AllAccepted(p, "inventory.compare_state", a) /\ {"expected_counts"} \subseteq DOMAIN a
      BY <1>2, <2>1, <3>1 DEF AllAccepted
    <3>3. Plain("inventory.compare_state") /\ Requires("inventory.compare_state", {"expected_counts"})
      BY Required DEF Plain
    <3>4. Good(p, Call("inventory.compare_state", a))
      BY <3>2, <3>3, PlainCall
    <3> QED
      BY <2>1, <3>1, <3>4
  <2> QED
    BY <2>1, Saying
<1>5. Gives(p, "class") /\ ~Comparing(p) /\ "how many" \in p.says =>
        Good(p, Call("vision.count_objects",
                     [classes |-> List("array", Only(p, "class"))]
                     ++ Optional(p, "confidence", "minimum_confidence") ++ Zone(p)))
  BY <1>3
<1>6. Comparing(p) => Good(p, IF Gives(p, "class") /\ Gives(p, "expected")
                              THEN Call("inventory.compare_state",
                                        [expected_counts |-> List("object", Only(p,
                                            "expected"))])
                              ELSE Says("which count"))
  BY <1>4
<1> QED
  BY <1>1, <1>5, <1>6, TopicRule, ConditionRule, ThreeRules, Zenon DEF CountRules

LEMMA StockAreGood == ASSUME NEW p PROVE GoodRules(p, StockRules(p))
<1>1. Good(p, Call("inventory.get_removed_items",
                   Minutes(p, 10) ++ Limit(20) ++ Status(p) ++ Optional(p, "class",
                       "object_class")))
  <2>1. PICK m, l, s, o : /\ m = Minutes(p, 10) /\ l = Limit(20) /\ s = Status(p)
                          /\ o = Optional(p, "class", "object_class")
    OBVIOUS
  <2>2. AllAccepted(p, "inventory.get_removed_items", l)
    BY <2>1, LimitAccepted, ToolProperties
  <2>3. AllAccepted(p, "inventory.get_removed_items", m)
    BY <2>1, MinutesAccepted, ToolProperties
  <2>4. AllAccepted(p, "inventory.get_removed_items", s) /\ AllAccepted(p, "inventory.get_removed_items", o)
    BY <2>1, StatusAccepted, OptionalAccepted
  <2>5. AllAccepted(p, "inventory.get_removed_items", m ++ l ++ s ++ o)
    BY <2>2, <2>3, <2>4, MergeAccepted
  <2> QED
    BY <2>1, <2>5, FreeCall DEF FreeTools, Plain
<1>2. Good(p, Call("inventory.get_current_state", Optional(p, "class", "object_class")))
  BY OptionalAccepted, FreeCall DEF FreeTools, Plain
<1>3. Good(p, Call("vision.get_zone_status", Zone(p)))
  BY ZoneAccepted, ToolProperties, FreeCall DEF FreeTools, Plain
<1>4. Good(p, Call("vision.get_people_count", Nothing)) /\ Good(p, Call("vision.get_current_objects", Nothing))
  BY BareCall DEF FreeTools, Plain
<1> QED
  BY <1>1, <1>2, <1>3, <1>4, TopicRule, ConditionRule, FiveRules, Zenon DEF StockRules

SummaryArguments(p) ==
  Minutes(p, Span(p)) ++ [recent_limit |-> Number(5)] ++ Buckets(p) ++ Thresholds(p)
  ++ SummaryOf(p) ++ Status(p) ++ Severity(p) ++ Subject(p)

Comparison(k) == [compare_previous |-> True] ++ [comparison_offset_minutes |-> Number(k)]

\* What a summary is compared with: fixed baselines, an earlier hour, the time
\* before, or nothing.
SummaryFormed(p) ==
  \/ SummaryOf(p) = [include_reference_baselines |-> True]
  \/ Aligned(p) /\ \E k \in {MinutesADay, MinutesAWeek} : SummaryOf(p) = Comparison(k)
  \/ SummaryOf(p) = [compare_previous |-> True] ++ Nothing
  \/ SummaryOf(p) = Nothing ++ Nothing

LEMMA SummaryShape == ASSUME NEW p PROVE SummaryFormed(p)
<1> USE DEF SummaryFormed
<1>1. Aligned(p) => Compares(p)
  BY DEF Compares
<1>2. "yesterday" \in p.says \/ "last week" \in p.says => Aligned(p)
  BY DEF Aligned
<1> DEFINE both == {"yesterday", "last week"} \subseteq p.says
<1>4. CASE both
  <2>1. SummaryOf(p) = [include_reference_baselines |-> True]
    BY <1>4, Zenon DEF SummaryOf
  <2> QED
    BY <2>1, Zenon
<1>5. CASE "yesterday" \in p.says /\ "last week" \notin p.says
  <2>1. ~both
    BY <1>5
  <2>2. Compares(p) /\ Aligned(p)
    BY <1>1, <1>2, <1>5, Zenon
  <2>3. SummaryOf(p) = Comparison(MinutesADay)
    BY <1>5, <2>1, <2>2, Zenon DEF SummaryOf, Comparison
  <2> QED
    BY <2>2, <2>3, Zenon
<1>6. CASE "yesterday" \notin p.says /\ "last week" \in p.says
  <2>1. ~both
    BY <1>6
  <2>2. Compares(p) /\ Aligned(p)
    BY <1>1, <1>2, <1>6, Zenon
  <2>3. SummaryOf(p) = Comparison(MinutesAWeek)
    BY <1>6, <2>1, <2>2, Zenon DEF SummaryOf, Comparison
  <2> QED
    BY <2>2, <2>3, Zenon
<1>7. CASE "yesterday" \notin p.says /\ "last week" \notin p.says
  <2>1. ~both
    BY <1>7
  <2>2. SummaryOf(p) = [compare_previous |-> True] ++ Nothing \/ SummaryOf(p) = Nothing
      ++ Nothing
    BY <1>7, <2>1, Zenon DEF SummaryOf
  <2> QED
    BY <2>2, Zenon
<1>8. both \/ ("yesterday" \in p.says /\ "last week" \notin p.says)
      \/ ("yesterday" \notin p.says /\ "last week" \in p.says)
      \/ ("yesterday" \notin p.says /\ "last week" \notin p.says)
  OBVIOUS
<1> HIDE DEF both, SummaryFormed
<1> QED
  BY <1>4, <1>5, <1>6, <1>7, <1>8, Zenon

LEMMA SpanRange == ASSUME NEW p PROVE Span(p) \in {10, 60, 1440} /\ (Aligned(p) => Span(p) = 60)
<1>1. CASE Aligned(p)
  BY <1>1 DEF Span
<1>2. CASE ~Aligned(p)
  <2>1. Span(p) = (IF Compares(p) \/ "trend" \in p.says THEN 1440 ELSE 10)
    BY <1>2 DEF Span
  <2> QED
    BY <1>2, <2>1
<1> QED
  BY <1>1, <1>2

\* Every argument of a summary is accepted ...
LEMMA SummaryAccepted ==
  ASSUME NEW p
  PROVE  AllAccepted(p, "event.summarize", SummaryArguments(p))
<1> DEFINE t == "event.summarize"
<1>1. AllAccepted(p, t, Minutes(p, Span(p)))
  <2>1. Accepted(p, t, "minutes", Number(10))
    BY WholeAccepted, SummaryProperties
  <2>2. Accepted(p, t, "minutes", Number(60))
    BY WholeAccepted, SummaryProperties
  <2>3. Accepted(p, t, "minutes", Number(1440))
    BY WholeAccepted, SummaryProperties
  <2>4. Accepted(p, t, "minutes", Number(Span(p)))
    BY <2>1, <2>2, <2>3, SpanRange
  <2>5. PICK v : Minutes(p, Span(p)) = [minutes |-> v] /\ Accepted(p, t, "minutes", v)
    <3>1. CASE Gives(p, "minutes")
      BY <3>1, GivenAccepted, Zenon DEF Minutes
    <3>2. CASE ~Gives(p, "minutes")
      BY <2>4, <3>2, Zenon DEF Minutes
    <3> QED
      BY <3>1, <3>2
  <2> QED
    BY <2>5 DEF AllAccepted
<1>2. AllAccepted(p, t, [recent_limit |-> Number(5)])
  <2>1. Accepted(p, t, "recent_limit", Number(5))
    BY WholeAccepted, SummaryProperties
  <2> QED
    BY <2>1 DEF AllAccepted
<1>3. AllAccepted(p, t, Buckets(p))
  <2>1. Accepted(p, t, "bucket_minutes", Number(3))
    BY WholeAccepted, SummaryProperties
  <2> QED
    BY <2>1, NothingAccepted DEF AllAccepted, Buckets
<1>4. AllAccepted(p, t, Thresholds(p))
  <2>1. Accepted(p, t, "change_threshold_percent", Number(25))
    BY WholeAccepted, SummaryProperties
  <2>2. Accepted(p, t, "change_threshold_events", Number(10))
    BY WholeAccepted, SummaryProperties
  <2> QED
    BY <2>1, <2>2, NothingAccepted DEF AllAccepted, Thresholds
<1>5. AllAccepted(p, t, SummaryOf(p))
  <2>1. AllAccepted(p, t, [include_reference_baselines |-> True])
        /\ AllAccepted(p, t, [compare_previous |-> True])
    BY FlagAccepted, SummaryProperties DEF AllAccepted
  <2>2. ASSUME NEW k \in {MinutesADay, MinutesAWeek} PROVE AllAccepted(p, t,
      [comparison_offset_minutes |-> Number(k)])
    <3>1. Accepted(p, t, "comparison_offset_minutes", Number(k))
      BY WholeAccepted, SummaryProperties DEF MinutesADay, MinutesAWeek
    <3> QED
      BY <3>1 DEF AllAccepted
  <2> QED
    BY <2>1, <2>2, NothingAccepted, MergeAccepted, SummaryShape DEF SummaryFormed, Comparison
<1>6. AllAccepted(p, t, Status(p)) /\ AllAccepted(p, t, Severity(p)) /\ AllAccepted(p, t, Subject(p))
  BY StatusAccepted, SubjectAccepted, OptionalAccepted, SummaryProperties DEF Severity
<1> QED
  BY <1>1, <1>2, <1>3, <1>4, <1>5, <1>6, MergeAccepted DEF SummaryArguments

LEMMA RestLacksOffset ==
  ASSUME NEW p, NEW n \in {"comparison_offset_minutes", "compare_previous"}
  PROVE  /\ \A span : Lacks(Minutes(p, span), n)
         /\ Lacks([recent_limit |-> Number(5)], n)
         /\ Lacks(Buckets(p), n) /\ Lacks(Thresholds(p), n)
         /\ Lacks(Status(p), n) /\ Lacks(Severity(p), n) /\ Lacks(Subject(p), n)
<1>1. Lacks(Buckets(p), n) /\ Lacks(Thresholds(p), n)
  BY DEF Lacks, Nothing, Buckets, Thresholds
<1>2. Lacks(Status(p), n) /\ Lacks(Subject(p), n)
  BY DEF Lacks, Nothing, Status, Subject
<1>3. Lacks(Severity(p), n)
  BY DEF Lacks, Nothing, Severity, Optional, Field
<1> QED
  BY <1>1, <1>2, <1>3 DEF Lacks, Minutes

\* ... and the interval compared with lies before the one summarized.
LEMMA SummaryTaken ==
  ASSUME NEW p \in Prompts
  PROVE  Taken(Call("event.summarize", SummaryArguments(p)))
<1> DEFINE o == "comparison_offset_minutes"
           a == SummaryArguments(p)
<1>1. CASE \/ SummaryOf(p) = [include_reference_baselines |-> True]
           \/ SummaryOf(p) = [compare_previous |-> True] ++ Nothing
           \/ SummaryOf(p) = Nothing ++ Nothing
  <2>1. Lacks(SummaryOf(p), o)
    BY <1>1 DEF Lacks, Nothing, ++
  <2>2. Lacks(a, o)
    BY <2>1, RestLacksOffset, MergeLacks DEF SummaryArguments
  <2> QED
    BY <2>2 DEF Taken, Call, Lacks
<1>2. CASE Aligned(p) /\ \E k \in {MinutesADay, MinutesAWeek} : SummaryOf(p) = Comparison(k)
  <2>1. PICK k \in {1440, 10080} : SummaryOf(p) = Comparison(k)
    BY <1>2 DEF MinutesADay, MinutesAWeek
  <2>2. Has(SummaryOf(p), o, Number(k)) /\ Has(SummaryOf(p), "compare_previous", True)
    BY <2>1 DEF Comparison, Has, ++
  <2>3. Has(a, o, Number(k)) /\ Has(a, "compare_previous", True)
    BY <2>2, RestLacksOffset, MergeLeft, MergeRight, MergeLacks DEF SummaryArguments
  <2>4. PICK v : v = Minutes(p, Span(p))["minutes"]
    OBVIOUS
  <2>5. Has(Minutes(p, Span(p)), "minutes", v)
    BY <2>4 DEF Has, Minutes
  <2>6. Has(a, "minutes", v)
    BY <2>5, MergeLeft DEF SummaryArguments
  <2>7. v = Number(60) \/ v.size \in Int
    BY <1>2, <2>4, SpanRange, OfflineAssumption DEF Minutes, Gives
  <2>8. v.size \in Int
    BY <2>7 DEF Number
  <2>9. ASSUME Cat!ValidArguments(EventSummarySchema, a) PROVE v.size <= 1440
    <3>1. Has(EventSummarySchema.properties, "minutes", Whole(1, 1440))
      BY SummaryProperties, TableEntry, ToolTable DEF Property
    <3>2. Cat!ValidValue(Whole(1, 1440), v)
      BY <2>6, <2>9, <3>1 DEF Cat!ValidArguments, Has
    <3> QED
      BY <2>8, <3>2 DEF Cat!ValidValue, Cat!Composite, Cat!ValidScalar, Cat!InRange, Whole,
         Sized
  <2>10. Number(k).size = k
    BY DEF Number
  <2>11. PICK b, call : b = a /\ call = Call("event.summarize", b)
    OBVIOUS
  <2>12. call.arguments = b
    BY <2>11 DEF Call
  <2>13. b[o].size = k /\ "compare_previous" \in DOMAIN b /\ b["minutes"] = v
    BY <2>3, <2>6, <2>10, <2>11 DEF Has
  <2>14. Cat!ValidArguments(EventSummarySchema, b) => k >= v.size
    BY <2>8, <2>9, <2>11
  <2>15. Taken(call)
    BY <2>12, <2>13, <2>14 DEF Taken
  <2> QED
    BY <2>11, <2>15
<1> HIDE DEF a, o
<1> QED
  BY <1>1, <1>2, SummaryShape DEF SummaryFormed

LEMMA SummarizeIsGood == ASSUME NEW p \in Prompts PROVE Good(p, Summarize(p))
<1>1. Summarize(p) = Call("event.summarize", SummaryArguments(p))
  BY DEF Summarize, SummaryArguments
<1>2. PICK a : a = SummaryArguments(p)
  OBVIOUS
<1>3. AllAccepted(p, "event.summarize", a) /\ Taken(Call("event.summarize", a))
  BY <1>1, <1>2, SummaryAccepted, SummaryTaken
<1>4. Requires("event.summarize", {})
  BY NothingRequired DEF FreeTools
<1>5. Good(p, Call("event.summarize", a))
  BY <1>3, <1>4 DEF Good, Fit, NamedFirst, Call, Requires
<1> QED
  BY <1>1, <1>2, <1>5

LEMMA EventAreGood == ASSUME NEW p \in Prompts PROVE GoodRules(p, EventRules(p))
<1>1. Good(p, Call("event.query", Limit(5) ++ Optional(p, "minutes", "minutes") ++ Status(p)
                                  ++ Severity(p) ++ Kind(p)))
  <2>1. PICK l, m, s, v, k : /\ l = Limit(5) /\ m = Optional(p, "minutes", "minutes") /\ s = Status(p)
                             /\ v = Severity(p) /\ k = Kind(p)
    OBVIOUS
  <2>2. AllAccepted(p, "event.query", l)
    BY <2>1, LimitAccepted, QueryProperties
  <2>3. AllAccepted(p, "event.query", m) /\ AllAccepted(p, "event.query", v)
    BY <2>1, OptionalAccepted DEF Severity
  <2>4. AllAccepted(p, "event.query", s) /\ AllAccepted(p, "event.query", k)
    BY <2>1, StatusAccepted, KindAccepted, QueryProperties
  <2>5. AllAccepted(p, "event.query", l ++ m ++ s ++ v ++ k)
    BY <2>2, <2>3, <2>4, MergeAccepted
  <2>6. Good(p, Call("event.query", l ++ m ++ s ++ v ++ k))
    BY <2>5, FreeCall DEF FreeTools, Plain
  <2> QED
    BY <2>1, <2>6
<1> QED
  BY <1>1, SummarizeIsGood, Saying, ConditionRule, ThreeRules, Zenon DEF EventRules

LEMMA SkillAreGood == ASSUME NEW p PROVE GoodRules(p, SkillRules(p))
<1>1. PICK e, l, c : /\ e = [event_type |-> Name("OBJECT_REMOVED")] /\ l = Limit(5)
                     /\ c = IF "bottle" \in p.says THEN [object_class |-> Name("bottle")] ELSE Nothing
  OBVIOUS
<1>2. AllAccepted(p, "event.query", l)
  BY <1>1, LimitAccepted, QueryProperties
<1>3. AllAccepted(p, "event.query", e) /\ AllAccepted(p, "event.query", c)
  BY <1>1, TypeAccepted, ClassAccepted, NothingAccepted, QueryProperties
<1>4. AllAccepted(p, "event.query", e ++ l ++ c)
  BY <1>2, <1>3, MergeAccepted
<1>5. Good(p, Call("event.query", e ++ l ++ c))
  BY <1>4, FreeCall DEF FreeTools, Plain
<1>6. GoodRule(p, Rule(p.skill, Call("event.query", e ++ l ++ c)))
  BY <1>5, ConditionRule
<1> QED
  BY <1>1, <1>6, OneRules, Zenon DEF SkillRules

\* Lists of rules follow each other ...
LEMMA JoinedRules ==
  ASSUME NEW p, NEW s, NEW t, GoodRules(p, s), GoodRules(p, t) PROVE GoodRules(p, s \o t)
<1>1. PICK R : s \in Seq(R) /\ \A r \in R : GoodRule(p, r)
  BY DEF GoodRules
<1>2. PICK Q : t \in Seq(Q) /\ \A r \in Q : GoodRule(p, r)
  BY DEF GoodRules
<1>3. PICK U : U = R \cup Q
  OBVIOUS
<1>4. s \in Seq(U) /\ t \in Seq(U)
  BY <1>1, <1>2, <1>3, SeqDef
<1>5. s \o t \in Seq(U)
  BY <1>4
<1>6. \A r \in U : GoodRule(p, r)
  BY <1>1, <1>2, <1>3
<1>7. \E V : s \o t \in Seq(V) /\ \A r \in V : GoodRule(p, r)
  BY <1>5, <1>6, Zenon
<1> QED
  BY <1>7 DEF GoodRules

LEMMA LeastOfNaturals ==
  ASSUME NEW I \in SUBSET Nat, I # {}
  PROVE  Min(I) \in I
<1>1. \E x \in I : \A y \in I : <<y, x>> \notin OpToRel(<, Nat)
  BY NatLessThanWellFounded, WFMin
<1>2. PICK x \in I : \A y \in I : <<y, x>> \notin OpToRel(<, Nat)
  BY <1>1
<1>3. ASSUME NEW y \in I PROVE x <= y
  <2>1. x \in Nat /\ y \in Nat /\ <<y, x>> \in Nat \X Nat
    OBVIOUS
  <2>2. ~(y < x)
    BY <1>2, <1>3, <2>1 DEF OpToRel
  <2> QED
    BY <2>1, <2>2
<1> QED
  BY <1>3 DEF Min

\* The model's decision without results is a good one.
LEMMA FirstIsGood == ASSUME NEW p \in Prompts PROVE Good(p, FirstDecision(p))
<1>1. PICK front, rules : /\ front = SkillRules(p) \o RecoveryRules(p) \o MemoryRules(p) \o CameraRules(p)
                                     \o DataRules(p) \o ExactRules(p) \o CountRules(p) \o StockRules(p)
                          /\ rules = front \o EventRules(p)
  OBVIOUS
<1>2. GoodRules(p, front)
  BY <1>1, SkillAreGood, RecoveryAreGood, MemoryAreGood, CameraAreGood, DataAreGood,
     ExactAreGood,
     CountAreGood, StockAreGood, JoinedRules, Zenon
<1>3. GoodRules(p, rules)
  BY <1>1, <1>2, EventAreGood, JoinedRules, Zenon
<1>4. PICK R : rules \in Seq(R) /\ \A r \in R : GoodRule(p, r)
  BY <1>3 DEF GoodRules
<1>5. Len(rules) > 0 /\ rules[Len(rules)].when
  <2>1. PICK Q : front \in Seq(Q)
    BY <1>2 DEF GoodRules
  <2>2. PICK a, b, c : EventRules(p) = <<a, b, c>> /\ c = Rule(TRUE, Says("what is supported"))
    BY Zenon DEF EventRules
  <2>3. c.when
    BY <2>2 DEF Rule
  <2>4. PICK V : V = Q \cup {a, b, c}
    OBVIOUS
  <2>5. PICK e : e = <<a, b, c>>
    OBVIOUS
  <2>6. front \in Seq(V) /\ e \in Seq(V) /\ Len(e) = 3 /\ e[3] = c
    BY <2>1, <2>4, <2>5, SeqDef
  <2>7. Len(front \o e) = Len(front) + Len(e)
        /\ \A i \in 1..(Len(front) + Len(e)) :
             (front \o e)[i] = (IF i <= Len(front) THEN front[i] ELSE e[i - Len(front)])
    BY <2>6, ConcatProperties
  <2>8. PICK n \in Nat : n = Len(front)
    BY <2>6
  <2>9. n + 3 \in 1..(n + 3) /\ ~(n + 3 <= n) /\ n + 3 - n = 3 /\ n + 3 > 0
    OBVIOUS
  <2>10. Len(front \o e) = n + 3 /\ (front \o e)[n + 3] = c
    BY <2>6, <2>7, <2>8, <2>9
  <2> QED
    BY <1>1, <2>2, <2>3, <2>5, <2>9, <2>10
<1> DEFINE I == {i \in 1..Len(rules) : rules[i].when}
<1>6. I \in SUBSET Nat /\ I # {}
  <2>1. Len(rules) \in Nat
    BY <1>4
  <2> QED
    BY <1>5, <2>1
<1>7. SelectInSeq(rules, LAMBDA rule : rule.when) = Min(I)
  BY <1>6 DEF SelectInSeq
<1>8. Min(I) \in 1..Len(rules) /\ rules[Min(I)].when
  <2>1. Min(I) \in I
    <3> HIDE DEF I
    <3> QED
      BY <1>6, LeastOfNaturals
  <2> QED
    BY <2>1
<1>9. rules[Min(I)] \in R
  BY <1>4, <1>8
<1>10. Good(p, rules[Min(I)].then)
  BY <1>4, <1>8, <1>9 DEF GoodRule
<1>11. FirstDecision(p) = rules[Min(I)].then
  BY <1>1, <1>7 DEF FirstDecision
<1> QED
  BY <1>10, <1>11

-----------------------------------------------------------------------------
(* The calls after a result: the two chains, from what the tool found.     *)

\* The two names that are no tool.
LEMMA Unregistered == "none" \notin Cat!Catalog /\ "system.shell" \notin Cat!Catalog
<1>1. DOMAIN ToolNames = 1..33
  BY DEF ToolNames
<1>2. \A i \in 1..33 : ToolNames[i] # "none" /\ ToolNames[i] # "system.shell"
  BY DEF ToolNames
<1>3. \A t \in Cat!Catalog : \E i \in 1..33 : t = ToolNames[i]
  BY <1>1 DEF Cat!Catalog, Cat!ToSet
<1> QED
  BY <1>2, <1>3

\* A sequence of different things.
Distinct(f, n) == \A i, j \in 1..n : i # j => f[i] # f[j]

LEMMA Permuted ==
  ASSUME NEW S, IsFiniteSet(S), NEW f \in SetToAllKPermutations(S)
  PROVE  \E n \in Nat : f \in [1..n -> S] /\ Distinct(f, n)
<1>1. PICK T \in SUBSET S : f \in SetToSeqs(T)
  BY DEF SetToAllKPermutations
<1>2. Cardinality(T) \in Nat
  BY <1>1, FS_Subset, FS_CardinalityType
<1>3. f \in [1..Cardinality(T) -> T] /\ \A i, j \in 1..Cardinality(T) : i # j => f[i] # f[j]
  BY <1>1 DEF SetToSeqs
<1>4. f \in [1..Cardinality(T) -> S]
  BY <1>1, <1>3
<1> QED
  BY <1>2, <1>3, <1>4 DEF Distinct

\* What a handler found, if it succeeded.
FoundFits(r) == r.status = "SUCCEEDED" => r.found \in Finds(r.call.tool)

\* DeletionsAreNamed of a second call.
NamedNext(r, call) ==
  \/ /\ call.tool = "memory.forget" /\ Succeeded(r, "memory.search")
     /\ call.arguments["memory_id"].parts = r.found
  \/ /\ call.tool = "system.cleanup_retained_data" /\ Succeeded(r, "system.preview_data_retention")
     /\ [k \in DOMAIN call.arguments["candidate_paths"].parts |->
           call.arguments["candidate_paths"].parts[k].parts[1]] = r.found

LEMMA ForgetNext ==
  ASSUME NEW p, NEW r, FoundFits(r), Forgettable(p, r)
  PROVE  LET call == Call("memory.forget", [memory_id |-> Id(36, r.found[1])])
         IN  Fit(p, call) /\ NamedNext(r, call)
<1>1. PICK v, call : v = Id(36, r.found[1]) /\ call = Call("memory.forget", [memory_id |-> v])
  OBVIOUS
<1>2. call.tool = "memory.forget" /\ call.arguments = [memory_id |-> v]
  BY <1>1 DEF Call
<1>3. Accepted(p, "memory.forget", "memory_id", v)
  BY <1>1, TextAccepted, DeletionProperties
<1>4. Fit(p, call)
  BY <1>2, <1>3, Required DEF Fit, AllAccepted, Requires
<1>5. r.found \in SetToAllKPermutations(Memories) /\ Len(r.found) = 1
  BY DEF FoundFits, Forgettable, Succeeded, Finds
<1>6. PICK n \in Nat : r.found \in [1..n -> Memories]
  BY <1>5, OfflineAssumption, Permuted
<1>7. r.found = <<r.found[1]>>
  BY <1>5, <1>6
<1>8. v.parts = r.found
  BY <1>1, <1>7 DEF Id
<1>9. NamedNext(r, call)
  BY <1>2, <1>8 DEF NamedNext, Forgettable
<1> QED
  BY <1>1, <1>4, <1>9

\* The names a cleanup is asked with are as many as the files.
Names(files) == [i \in DOMAIN files |-> Name(files[i])]

LEMMA NamesAreDistinct ==
  ASSUME NEW n \in Nat, NEW f, DOMAIN f = 1..n, Distinct(f, n)
  PROVE  /\ Len(Names(f)) = n /\ Cardinality(ToSet(Names(f))) = n
         /\ DOMAIN Names(f) = 1..n /\ \A i \in 1..n : Names(f)[i] = Name(f[i])
<1>1. PICK names : names = Names(f)
  OBVIOUS
<1>2. names = [i \in 1..n |-> names[i]] /\ \A i \in 1..n : names[i] = Name(f[i])
  BY <1>1 DEF Names
<1>3. DOMAIN names = 1..n /\ Len(names) = n
  BY <1>2
<1>4. \A i, j \in 1..n : i # j => names[i] # names[j]
  <2>1. \A x, y : Name(x) = Name(y) => x = y
    BY DEF Name
  <2> QED
    BY <1>2, <2>1 DEF Distinct
<1>5. names \in [1..n -> ToSet(names)] /\ \A x \in ToSet(names) : \E i \in 1..n : names[i] = x
  BY <1>2, <1>3 DEF ToSet
<1>6. names \in Bijection(1..n, ToSet(names))
  BY <1>4, <1>5 DEF Bijection, Injection, Surjection, IsInjective
<1>7. Cardinality(1..n) = n /\ IsFiniteSet(1..n)
  BY FS_Interval
<1>8. Cardinality(ToSet(names)) = Cardinality(1..n)
  BY <1>6, <1>7, FS_Bijection DEF ExistsBijection
<1> QED
  BY <1>1, <1>2, <1>3, <1>7, <1>8

LEMMA SameCardinality == \A S : Cat!Cardinality(S) = Cardinality(S)
BY DEF Cat!Cardinality, Cardinality

LEMMA CleanupNext ==
  ASSUME NEW p, NEW r, FoundFits(r), CleanupPlanned(p, r), r.found # <<>>
  PROVE  Fit(p, Cleanup(r.found)) /\ NamedNext(r, Cleanup(r.found))
<1> DEFINE t == "system.cleanup_retained_data"
<1>1. PICK names, v, call : /\ names = [i \in DOMAIN r.found |-> Name(r.found[i])]
                            /\ v = List("array", names)
                            /\ call = Cleanup(r.found)
  OBVIOUS
<1>2. call.tool = t /\ call.arguments = [plan_id |-> Id(36, "plan"), candidate_paths |-> v]
  BY <1>1 DEF Cleanup, Call
<1>3. r.found \in SetToAllKPermutations(Files) /\ Len(r.found) <= 100
  BY DEF FoundFits, CleanupPlanned, Succeeded, Finds, CandidateLimit
<1>4. PICK n \in Nat : r.found \in [1..n -> Files] /\ Distinct(r.found, n)
  BY <1>3, OfflineAssumption, Permuted
<1>5. n \in 1..100
  <2>1. Len(r.found) = n
    BY <1>4
  <2>2. n # 0
    BY <1>4
  <2> QED
    BY <1>3, <1>4, <2>1, <2>2
<1>6. /\ Len(names) = n /\ Cardinality(ToSet(names)) = n
      /\ DOMAIN names = 1..n /\ \A i \in 1..n : names[i] = Name(r.found[i])
  <2>1. names = Names(r.found) /\ DOMAIN r.found = 1..n
    BY <1>1, <1>4 DEF Names
  <2> QED
    BY <1>4, <2>1, NamesAreDistinct
<1>7. v.type = "array" /\ v.parts = names
  BY <1>1 DEF List
<1>8. \A i \in DOMAIN names : Cat!ValidScalar(Text(1, 512), names[i])
  BY <1>6 DEF Cat!ValidScalar, Cat!InRange, Text, Sized, Name
<1>9. PICK s : /\ s = Each("array", 1, 100, Text(1, 512), TRUE)
               /\ Property(t, "candidate_paths", s)
  BY DeletionProperties
<1>10. s.type = "array" /\ s.low = 1 /\ s.high = 100 /\ s.parts = Text(1, 512)
  BY <1>9 DEF Each
<1>11. Cat!ValidValue(s, v)
  <2>1. Cat!Composite(s) /\ v.type = s.type
    BY <1>7, <1>10 DEF Cat!Composite
  <2>2. Cat!InRange(s, Len(v.parts))
    BY <1>5, <1>6, <1>7, <1>10 DEF Cat!InRange
  <2>3. \A i \in DOMAIN v.parts : Cat!ValidScalar(s.parts, v.parts[i])
    BY <1>7, <1>8, <1>10
  <2>4. Len(v.parts) = Cat!Cardinality(Cat!ToSet(v.parts))
    BY <1>6, <1>7, SameCardinality DEF ToSet, Cat!ToSet
  <2> QED
    BY <2>1, <2>2, <2>3, <2>4 DEF Cat!ValidValue
<1>12. Accepted(p, t, "candidate_paths", v)
  BY <1>9, <1>11 DEF Accepted, Property, Has
<1>13. Accepted(p, t, "plan_id", Id(36, "plan"))
  BY TextAccepted, DeletionProperties
<1>14. Fit(p, call)
  BY <1>2, <1>12, <1>13, Required DEF Fit, AllAccepted, Requires
<1>15. [k \in DOMAIN v.parts |-> v.parts[k].parts[1]] = r.found
  <2>1. DOMAIN v.parts = 1..n /\ DOMAIN r.found = 1..n
    BY <1>4, <1>6, <1>7
  <2>2. \A i \in 1..n : v.parts[i].parts[1] = r.found[i]
    BY <1>6, <1>7 DEF Name
  <2>3. r.found = [i \in 1..n |-> r.found[i]]
    BY <1>4
  <2> QED
    BY <2>1, <2>2, <2>3
<1>16. NamedNext(r, call)
  BY <1>2, <1>15 DEF NamedNext, CleanupPlanned
<1> QED
  BY <1>1, <1>14, <1>16

\* The model's decision with results is a good call, or none.
LEMMA NextIsGood ==
  ASSUME NEW p, NEW r, FoundFits(r), NEW d, d = NextDecision(p, r), d.tool # "none"
  PROVE  Fit(p, d) /\ NamedNext(r, d)
<1>1. CASE Forgettable(p, r)
  <2>1. d = Call("memory.forget", [memory_id |-> Id(36, r.found[1])])
    BY <1>1, Zenon DEF NextDecision
  <2> QED
    BY <1>1, <2>1, ForgetNext
<1>2. CASE ~Forgettable(p, r) /\ CleanupPlanned(p, r)
  <2>1. CASE r.found = <<>>
    BY <1>2, <2>1 DEF NextDecision, Says
  <2>2. CASE r.found # <<>>
    <3>1. d = Cleanup(r.found)
      BY <1>2, <2>2, Zenon DEF NextDecision
    <3> QED
      BY <1>2, <2>2, <3>1, CleanupNext
  <2> QED
    BY <2>1, <2>2
<1>3. CASE ~Forgettable(p, r) /\ ~CleanupPlanned(p, r)
  <2>1. d = AnswerFromResult(r)
    BY <1>3, Zenon DEF NextDecision
  <2> QED
    BY <2>1 DEF AnswerFromResult, Says
<1> QED
  BY <1>1, <1>2, <1>3

-----------------------------------------------------------------------------
(* The task.  OfflineInv lists its five phases; no action leads out of     *)
(* them, because what is asked after a second result is nothing.           *)

\* A call that opens a task, what came of a call, and a call that follows.
FirstCall(p, call) ==
  call.tool \in Cat!Catalog /\ Fit(p, call) /\ Taken(call) /\ NamedFirst(p, call)
Answered(call, r) == r.call = call /\ FoundFits(r)
SecondCall(p, r, call) == Fit(p, call) /\ NamedNext(r, call)

\* A task before its first call, waiting for its result, with it, and so again.
Opening == asked = <<>> /\ results = <<>> /\ stage \in {"start", "model", "end"}
Waiting ==
  \E c : asked = <<c>> /\ FirstCall(prompt, c) /\ results = <<>> /\ stage \in {"confirm", "invoke", "end"}
Told ==
  \E c, r : /\ asked = <<c>> /\ FirstCall(prompt, c) /\ results = <<r>> /\ Answered(c, r)
            /\ stage \in {"model", "end"}
WaitingAgain ==
  \E c, r, d : /\ asked = <<c, d>> /\ FirstCall(prompt, c) /\ results = <<r>> /\ Answered(c, r)
               /\ SecondCall(prompt, r, d) /\ stage \in {"confirm", "invoke", "end"}
ToldAgain ==
  \E c, r, d, q : /\ asked = <<c, d>> /\ FirstCall(prompt, c) /\ results = <<r, q>> /\ Answered(c, r)
                  /\ SecondCall(prompt, r, d) /\ Answered(d, q) /\ stage \in {"model", "end"}

Phases == Opening \/ Waiting \/ Told \/ WaitingAgain \/ ToldAgain

OfflineInv == prompt \in Prompts /\ visible \subseteq Cat!Catalog /\ Phases

\* How the sequences of calls and results grow.
LEMMA Lasts ==
  /\ \A x : Last(<<x>>) = x /\ Append(<<>>, x) = <<x>>
  /\ \A x, y : Last(<<x, y>>) = y /\ Append(<<x>>, y) = <<x, y>> /\ <<x>> # <<>> /\ <<x, y>> # <<>>
<1>1. ASSUME NEW x PROVE Last(<<x>>) = x
  <2>1. PICK s : s = <<x>>
    OBVIOUS
  <2>2. Len(s) = 1 /\ s[1] = x
    BY <2>1
  <2> QED
    BY <2>1, <2>2 DEF Last
<1>2. ASSUME NEW x, NEW y PROVE Last(<<x, y>>) = y
  <2>1. PICK s : s = <<x, y>>
    OBVIOUS
  <2>2. Len(s) = 2 /\ s[2] = y
    BY <2>1
  <2> QED
    BY <2>1, <2>2 DEF Last
<1>3. \A x : Append(<<>>, x) = <<x>>
  OBVIOUS
<1>4. ASSUME NEW x, NEW y PROVE Append(<<x>>, y) = <<x, y>>
  <2>1. PICK s, t : s = <<x>> /\ t = Append(s, y)
    OBVIOUS
  <2>2. s \in Seq({x, y}) /\ Len(s) = 1 /\ s[1] = x
    BY <2>1
  <2>3. t \in Seq({x, y}) /\ Len(t) = 2 /\ t[1] = x /\ t[2] = y
    BY <2>1, <2>2, AppendProperties
  <2>4. t = <<x, y>>
    BY <2>3
  <2> QED
    BY <2>1, <2>4
<1>5. \A x, y : <<x>> # <<>> /\ <<x, y>> # <<>>
  OBVIOUS
<1> QED
  BY <1>1, <1>2, <1>3, <1>4, <1>5

\* Every action keeps the phases: an end, a call, a result.
LEMMA AnswerStays ==
  OfflineInv /\ UNCHANGED <<prompt, visible, asked, results>> /\ stage' = "end" => OfflineInv'
BY DEF OfflineInv, Phases, Opening, Waiting, Told, WaitingAgain, ToldAgain

LEMMA AskingKeeps == OfflineInv /\ ModelAsks => OfflineInv'
<1> SUFFICES ASSUME OfflineInv, ModelAsks PROVE OfflineInv'
  OBVIOUS
<1>1. PICK d : d = Decision
  OBVIOUS
<1>2. /\ stage = "model" /\ d.tool \in Cat!Catalog /\ d.tool # "none" /\ d.tool # "system.shell"
      /\ asked' = Append(asked, d) /\ stage' \in {"confirm", "invoke", "end"}
      /\ UNCHANGED <<prompt, visible, results>>
  BY <1>1, Unregistered DEF ModelAsks, OfflineInv
<1>3. prompt' \in Prompts /\ visible' \subseteq Cat!Catalog
  BY <1>2 DEF OfflineInv
<1>4. Opening \/ Told \/ ToldAgain
  BY <1>2 DEF OfflineInv, Phases, Waiting, WaitingAgain
<1>5. CASE Opening
  <2>1. d = FirstDecision(prompt)
    BY <1>1, <1>5 DEF Decision, Opening
  <2>2. FirstCall(prompt, d)
    BY <1>2, <2>1, FirstIsGood DEF FirstCall, Good, OfflineInv
  <2>3. asked' = <<d>> /\ results' = <<>> /\ FirstCall(prompt', d)
    BY <1>2, <1>5, <2>2, Lasts DEF Opening
  <2>4. Waiting'
    BY <1>2, <2>3 DEF Waiting
  <2> QED
    BY <1>3, <2>4 DEF OfflineInv, Phases
<1>6. CASE Told
  <2>1. PICK c, r : asked = <<c>> /\ FirstCall(prompt, c) /\ results = <<r>> /\ Answered(c, r)
    BY <1>6 DEF Told
  <2>2. d = NextDecision(prompt, r)
    BY <1>1, <2>1, Lasts DEF Decision
  <2>3. SecondCall(prompt, r, d)
    BY <1>2, <2>1, <2>2, NextIsGood DEF SecondCall, Answered
  <2>4. /\ asked' = <<c, d>> /\ FirstCall(prompt', c) /\ results' = <<r>> /\ SecondCall(prompt', r, d)
    BY <1>2, <2>1, <2>3, Lasts
  <2>5. WaitingAgain'
    BY <1>2, <2>1, <2>4 DEF WaitingAgain
  <2> QED
    BY <1>3, <2>5 DEF OfflineInv, Phases
<1>7. CASE ToldAgain
  <2>1. PICK c, r, e, q : results = <<r, q>> /\ SecondCall(prompt, r, e) /\ Answered(e, q)
    BY <1>7 DEF ToldAgain
  <2>2. d = NextDecision(prompt, q)
    BY <1>1, <2>1, Lasts DEF Decision
  <2>3. FoundFits(q) /\ q.call = e
    BY <2>1 DEF Answered
  <2>4. NamedNext(r, e) /\ NamedNext(q, d)
    BY <1>2, <2>1, <2>2, <2>3, NextIsGood DEF SecondCall
  <2>5. e.tool \in {"memory.forget", "system.cleanup_retained_data"}
    BY <2>4 DEF NamedNext
  <2>6. e.tool \in {"memory.search", "system.preview_data_retention"}
    BY <2>3, <2>4 DEF NamedNext, Succeeded
  <2> QED
    BY <2>5, <2>6
<1> QED
  BY <1>4, <1>5, <1>6, <1>7

LEMMA ReturningKeeps ==
  ASSUME NEW status, NEW found, NEW stale, OfflineInv, stage = "invoke",
         Returned(status, found, stale), status = "SUCCEEDED"
             => found \in Finds(Last(asked).tool)
  PROVE  OfflineInv'
<1>1. PICK r : r = [call |-> Last(asked), status |-> status, found |-> found, stale |-> stale]
  OBVIOUS
<1>2. /\ results' = Append(results, r) /\ stage' = "model" /\ UNCHANGED <<prompt, visible, asked>>
  BY <1>1 DEF Returned
<1>3. Answered(Last(asked), r)
  BY <1>1 DEF Answered, FoundFits
<1>4. prompt' \in Prompts /\ visible' \subseteq Cat!Catalog
  BY <1>2 DEF OfflineInv
<1>5. Waiting \/ WaitingAgain
  BY DEF OfflineInv, Phases, Opening, Told, ToldAgain
<1>6. CASE Waiting
  <2>1. PICK c : asked = <<c>> /\ FirstCall(prompt, c) /\ results = <<>>
    BY <1>6 DEF Waiting
  <2>2. asked' = <<c>> /\ FirstCall(prompt', c) /\ results' = <<r>> /\ Answered(c, r)
    BY <1>2, <1>3, <2>1, Lasts
  <2>3. Told'
    BY <1>2, <2>2 DEF Told
  <2> QED
    BY <1>4, <2>3 DEF OfflineInv, Phases
<1>7. CASE WaitingAgain
  <2>1. PICK c, s, d : /\ asked = <<c, d>> /\ FirstCall(prompt, c) /\ results = <<s>> /\ Answered(c, s)
                       /\ SecondCall(prompt, s, d)
    BY <1>7 DEF WaitingAgain
  <2>2. /\ asked' = <<c, d>> /\ FirstCall(prompt', c) /\ results' = <<s, r>> /\ Answered(d, r)
        /\ SecondCall(prompt', s, d)
    BY <1>2, <1>3, <2>1, Lasts
  <2>3. ToldAgain'
    BY <1>2, <2>1, <2>2 DEF ToldAgain
  <2> QED
    BY <1>4, <2>3 DEF OfflineInv, Phases
<1> QED
  BY <1>5, <1>6, <1>7

LEMMA OfflineStep == OfflineInv /\ [OfflineNext]_offlineVars => OfflineInv'
<1> SUFFICES ASSUME OfflineInv, [OfflineNext]_offlineVars PROVE OfflineInv'
  OBVIOUS
<1>1. ASSUME NEW hits \in Found(prompt), Begin(hits) PROVE OfflineInv'
  <2>1. Opening /\ stage' = "model" /\ UNCHANGED <<prompt, asked, results>>
    BY <1>1 DEF Begin, OfflineInv, Phases, Waiting, Told, WaitingAgain, ToldAgain
  <2>2. visible' \subseteq Cat!Catalog
    BY <1>1 DEF Begin
  <2>3. Opening'
    BY <2>1 DEF Opening
  <2> QED
    BY <2>1, <2>2, <2>3 DEF OfflineInv, Phases
<1>2. CASE ModelAnswers \/ RouteDenies \/ GuardDenies \/ Refuse
  BY <1>2, AnswerStays DEF ModelAnswers, RouteDenies, GuardDenies, Refuse, EndsAs
<1>3. CASE ModelAsks
  BY <1>3, AskingKeeps
<1>4. CASE Grant
  <2>1. stage = "confirm" /\ stage' = "invoke" /\ UNCHANGED <<prompt, visible, asked, results>>
    BY <1>4 DEF Grant
  <2>2. Waiting \/ WaitingAgain
    BY <2>1 DEF OfflineInv, Phases, Opening, Told, ToldAgain
  <2>3. Waiting' \/ WaitingAgain'
    BY <2>1, <2>2 DEF Waiting, WaitingAgain
  <2> QED
    BY <2>1, <2>3 DEF OfflineInv, Phases
<1>5. CASE RegistryRejects
  <2>1. PICK status : status = Rejection(Last(asked))
    OBVIOUS
  <2>2. status # "SUCCEEDED"
    BY <2>1 DEF Rejection
  <2> QED
    BY <1>5, <2>1, <2>2, ReturningKeeps DEF RegistryRejects
<1>6. CASE HandlerRuns
  <2>1. stage = "invoke"
    BY <1>6 DEF HandlerRuns
  <2>2. ASSUME NEW found \in Finds(Last(asked).tool), NEW stale \in BOOLEAN,
               Returned("SUCCEEDED", found, stale)
        PROVE  OfflineInv'
    BY <2>1, <2>2, ReturningKeeps
  <2>3. CASE Returned("TOOL_EXECUTION_FAILED", <<>>, FALSE)
    BY <2>1, <2>3, ReturningKeeps
  <2> QED
    BY <1>6, <2>2, <2>3 DEF HandlerRuns
<1>7. CASE UNCHANGED offlineVars
  BY <1>7 DEF offlineVars, OfflineInv, Phases, Opening, Waiting, Told, WaitingAgain, ToldAgain
<1> QED
  BY <1>1, <1>2, <1>3, <1>4, <1>5, <1>6, <1>7 DEF OfflineNext

\* What a second call follows did not wait for the user.
LEMMA SearchIsFree ==
  /\ ~Cat!NeedsConfirmation("memory.search")
  /\ ~Cat!NeedsConfirmation("system.preview_data_retention")
<1>1. "memory.search" \notin Confirmed /\ "system.preview_data_retention" \notin Confirmed
  BY DEF Confirmed
<1>2. \A t \in DOMAIN DefaultRules : DefaultRules[t].confirm = (t \in Confirmed)
  BY DEF DefaultRules
<1> QED
  BY <1>1, <1>2 DEF Cat!NeedsConfirmation

\* The calls of a phase: none, a good first one, or two.
CallsOf ==
  \/ asked = <<>>
  \/ \E c : asked = <<c>> /\ FirstCall(prompt, c)
  \/ \E c, r, d : /\ asked = <<c, d>> /\ FirstCall(prompt, c) /\ results[1] = r /\ r.call = c
                  /\ SecondCall(prompt, r, d)

LEMMA PhaseCalls == OfflineInv => CallsOf
<1> SUFFICES ASSUME OfflineInv PROVE CallsOf
  OBVIOUS
<1>1. CASE Opening
  BY <1>1 DEF Opening, CallsOf
<1>2. CASE Waiting \/ Told
  BY <1>2 DEF Waiting, Told, CallsOf
<1>3. CASE WaitingAgain
  <2>1. PICK c, r, d : /\ asked = <<c, d>> /\ FirstCall(prompt, c) /\ results = <<r>> /\ Answered(c, r)
                       /\ SecondCall(prompt, r, d)
    BY <1>3 DEF WaitingAgain
  <2> QED
    BY <2>1 DEF CallsOf, Answered
<1>4. CASE ToldAgain
  <2>1. PICK c, r, d, q : /\ asked = <<c, d>> /\ FirstCall(prompt, c) /\ results = <<r, q>> /\ Answered(c, r)
                          /\ SecondCall(prompt, r, d)
    BY <1>4 DEF ToldAgain
  <2> QED
    BY <2>1 DEF CallsOf, Answered
<1> QED
  BY <1>1, <1>2, <1>3, <1>4 DEF OfflineInv, Phases

\* The parts of OfflineIsSound about one call.
Fitting(call) ==
  LET schema  == DefaultSchemas[call.tool]
      Fits(n) == /\ n \in DOMAIN schema.properties
                 /\ Cat!ValidValue(schema.properties[n], call.arguments[n])
  IN  /\ schema.required \subseteq DOMAIN call.arguments
      /\ \A n \in DOMAIN call.arguments :
           \/ Fits(n)
           \/ call.arguments[n] \in Given
           \/ ToSet(call.arguments[n].parts) \cap Given # {}
           \/ n = "status" /\ call.tool = "inventory.get_removed_items"

Deleting(i) ==
  /\ asked[i].tool = "memory.forget" =>
       \/ asked[i].arguments["memory_id"] \in Given
       \/ /\ i > 1 /\ Succeeded(results[i - 1], "memory.search")
          /\ asked[i].arguments["memory_id"].parts = results[i - 1].found
  /\ asked[i].tool = "system.cleanup_retained_data" =>
       /\ i > 1 /\ Succeeded(results[i - 1], "system.preview_data_retention")
       /\ [k \in DOMAIN asked[i].arguments["candidate_paths"].parts |->
             asked[i].arguments["candidate_paths"].parts[k].parts[1]] = results[i - 1].found

LEMMA FitIsFitting == ASSUME NEW call, Fit(prompt, call) PROVE Fitting(call)
BY DEF Fit, Fitting, AllAccepted, Accepted, Given, GivenBy

\* OfflineIsSound of one call and of two.
LEMMA OnePhase == ASSUME NEW c, asked = <<c>>, FirstCall(prompt, c) PROVE OfflineIsSound
<1>1. DOMAIN asked = {1} /\ asked[1] = c /\ Len(asked) = 1
  OBVIOUS
<1>2. CallsFitSchemas
  <2>1. Fitting(c)
    BY FitIsFitting DEF FirstCall
  <2> QED
    BY <1>1, <2>1 DEF CallsFitSchemas, Fitting
<1>3. SummariesAreTaken
  BY <1>1 DEF SummariesAreTaken, FirstCall, Taken
<1>4. DeletionsAreNamed
  BY <1>1 DEF DeletionsAreNamed, FirstCall, NamedFirst, Given, GivenBy
<1>5. CallsEnd
  BY <1>1 DEF CallsEnd
<1> QED
  BY <1>2, <1>3, <1>4, <1>5 DEF OfflineIsSound

LEMMA TwoPhases ==
  ASSUME NEW c, NEW r, NEW d, asked = <<c, d>>, FirstCall(prompt, c), results[1] = r,
      r.call = c,
         SecondCall(prompt, r, d)
  PROVE  OfflineIsSound
<1>1. DOMAIN asked = {1, 2} /\ asked[1] = c /\ asked[2] = d /\ Len(asked) = 2 /\ results[2 - 1] = r
  OBVIOUS
<1>2. NamedNext(r, d)
  BY DEF SecondCall
<1>3. CallsFitSchemas
  <2>1. Fitting(c) /\ Fitting(d)
    BY FitIsFitting DEF FirstCall, SecondCall
  <2> QED
    BY <1>1, <2>1 DEF CallsFitSchemas, Fitting
<1>4. SummariesAreTaken
  BY <1>1, <1>2 DEF SummariesAreTaken, FirstCall, Taken, NamedNext
<1>5. DeletionsAreNamed
  <2>1. Deleting(1)
    BY <1>1 DEF Deleting, FirstCall, NamedFirst, Given, GivenBy
  <2>2. Deleting(2)
    BY <1>1, <1>2 DEF Deleting, NamedNext
  <2> QED
    BY <1>1, <2>1, <2>2 DEF DeletionsAreNamed, Deleting
<1>6. CallsEnd
  BY <1>1, <1>2, SearchIsFree DEF CallsEnd, NamedNext, Succeeded
<1> QED
  BY <1>3, <1>4, <1>5, <1>6 DEF OfflineIsSound

LEMMA InvIsSound == OfflineInv => OfflineIsSound
<1> SUFFICES ASSUME CallsOf PROVE OfflineIsSound
  BY PhaseCalls
<1>1. CASE asked = <<>>
  BY <1>1 DEF OfflineIsSound, CallsFitSchemas, SummariesAreTaken, DeletionsAreNamed, CallsEnd
<1> QED
  BY <1>1, OnePhase, TwoPhases DEF CallsOf

LEMMA OfflineStarts == OfflineInit => OfflineInv
BY DEF OfflineInit, OfflineInv, Phases, Opening

\* For every message, every set of tools the router finds in it and everything
\* the tools may answer, what the offline model asks of them makes sense: the
\* calls fit their schemas but for what the user gave, a summary that passes is
\* not refused, what is deleted was named, and a second call is the last.
THEOREM OfflineIsSoundHolds == OfflineSpec => []OfflineIsSound
BY OfflineStarts, OfflineStep, InvIsSound, PTL DEF OfflineSpec
=============================================================================
