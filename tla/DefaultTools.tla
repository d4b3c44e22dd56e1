---------------------------- MODULE DefaultTools ----------------------------
(***************************************************************************)
(* The tools the project registers (packages/harness/default_tools.py):    *)
(* their names, input schemas and policy, in the form ToolCatalog takes.   *)
(* A schema that is a number or a text says what sizes it allows, an       *)
(* enumeration how many values it has, a list or an object what its parts  *)
(* are.                                                                    *)
(***************************************************************************)
EXTENDS Integers, Sequences

\* A record of one field, and two records put together: what :> and @@ of TLC
\* are, which have no definition a proof could expand.
Field(name, value) == [n \in {name} |-> value]
f ++ g == [n \in DOMAIN f \cup DOMAIN g |-> IF n \in DOMAIN f THEN f[n] ELSE g[n]]

\* The schemas of values; every schema of the project is closed.
Sized(type, low, high) ==
  [type |-> type, low |-> low, high |-> high, unique |-> FALSE, parts |-> <<>>]
Whole(low, high) == Sized("integer", low, high)
Text(low, high)  == Sized("string", low, high)
OneOf(n)         == Text(1, n)
Flag             == Sized("boolean", 0, 1)
Each(type, low, high, part, unique) ==
  [type |-> type, low |-> low, high |-> high, unique |-> unique, parts |-> part]
Label == Text(1, 64)

Takes(properties, required) ==
  [properties |-> properties, required |-> required, closed |-> TRUE]

EventFilters ==
  [event_type |-> Label, object_class |-> Label, camera_id |-> Label,
   status |-> OneOf(2), severity |-> OneOf(4)]
Window == [minutes |-> Whole(1, 1440)]

EventQuerySchema ==
  Takes(EventFilters ++ Window ++ [limit |-> Whole(1, 100), cursor |-> Text(1, 2048)], {})
WeatherSchema == Takes([location |-> Text(2, 80)], {})
MemorySearchSchema ==
  Takes([query |-> Text(0, 100), kind |-> OneOf(2), limit |-> Whole(1, 20)], {})
MemoryRememberSchema ==
  Takes([kind |-> OneOf(2), key |-> Text(1, 80), value |-> Text(1, 500)],
        {"kind", "key", "value"})
MemoryForgetSchema == Takes([memory_id |-> Text(36, 36)], {"memory_id"})
\* bucket_minutes is one of three numbers: its place in that list is its size.
EventSummarySchema ==
  Takes(EventFilters ++ Window
        ++ [recent_limit |-> Whole(1, 10), bucket_minutes |-> Whole(1, 3),
            compare_previous |-> Flag, comparison_offset_minutes |-> Whole(1, 10080),
            include_reference_baselines |-> Flag,
            change_threshold_percent |-> Whole(1, 500),
            change_threshold_events |-> Whole(1, 1000)], {})
EvidenceVerifySchema == Takes(Window ++ [limit |-> Whole(1, 100)], {})
Nothing == [name \in {} |-> Flag]
NoArgumentsSchema == Takes(Nothing, {})
RetentionCleanupSchema ==
  Takes([plan_id |-> Text(36, 36), candidate_paths |-> Each("array", 1, 100, Text(1, 512), TRUE)],
        {"plan_id", "candidate_paths"})
RetentionHistorySchema == Takes([limit |-> Whole(1, 20)], {})
ZoneStatusSchema == Takes([zone_id |-> Label], {})
CountObjectsSchema ==
  Takes([classes |-> Each("array", 1, 20, Label, TRUE), zone_id |-> Label,
         minimum_confidence |-> Sized("number", 0, 1)], {"classes"})
TrackHistorySchema ==
  Takes([track_id |-> Whole(1, 2147483647), object_class |-> Label, limit |-> Whole(1, 20)], {})
InventoryStateSchema == Takes([object_class |-> Label], {})
InventoryCompareSchema ==
  Takes([expected_counts |-> Each("object", 1, 20, Whole(0, 100), FALSE)], {"expected_counts"})
RemovedItemsSchema ==
  Takes(Window ++ [object_class |-> Label, camera_id |-> Label, limit |-> Whole(1, 50)], {})
ReportSchema ==
  Takes([date |-> Text(10, 10), camera_id |-> Label, object_class |-> Label], {})
EventIdSchema == Takes([event_id |-> Text(36, 36)], {"event_id"})
RecoveryStatusSchema == Takes([limit |-> Whole(1, 20)], {})
RecoveryPreviewSchema == Takes([backup_id |-> Text(35, 35)], {"backup_id"})

-----------------------------------------------------------------------------
(* build_default_registry: what each tool takes, by the part of the system *)
(* it belongs to.                                                          *)

RecoveryTools ==
  Field("recovery.create_backup", NoArgumentsSchema)
  ++ Field("recovery.get_status", RecoveryStatusSchema)
  ++ Field("recovery.preview_restore", RecoveryPreviewSchema)
CameraTools ==
  [t \in {"camera.capture_snapshot", "camera.get_status", "camera.restart"} |-> NoArgumentsSchema]
EventTools ==
  Field("report.generate", ReportSchema) ++ Field("evidence.verify_event", EventIdSchema)
  ++ Field("evidence.verify_recent", EvidenceVerifySchema) ++ Field("event.acknowledge", EventIdSchema)
  ++ Field("event.get_detail", EventIdSchema) ++ Field("event.query", EventQuerySchema)
  ++ Field("event.summarize", EventSummarySchema)
InventoryTools ==
  Field("inventory.get_current_state", InventoryStateSchema)
  ++ Field("inventory.compare_state", InventoryCompareSchema)
  ++ Field("inventory.get_removed_items", RemovedItemsSchema)
MemoryTools ==
  Field("memory.search", MemorySearchSchema) ++ Field("memory.remember", MemoryRememberSchema)
  ++ Field("memory.forget", MemoryForgetSchema)
SystemTools ==
  [t \in {"system.get_health", "system.get_runtime_benchmark", "system.get_storage_usage",
          "system.preview_data_retention"} |-> NoArgumentsSchema]
  ++ Field("system.get_retention_cleanup_history", RetentionHistorySchema)
  ++ Field("system.cleanup_retained_data", RetentionCleanupSchema)
ModelTools ==
  [t \in {"vision.get_model_info", "vision.get_performance"} |-> NoArgumentsSchema]
VisionTools ==
  [t \in {"vision.get_people_count", "vision.get_current_objects"} |-> NoArgumentsSchema]
  ++ Field("vision.get_zone_status", ZoneStatusSchema)
  ++ Field("vision.count_objects", CountObjectsSchema)
  ++ Field("vision.get_track_history", TrackHistorySchema)
WeatherTools == Field("weather.get_current", WeatherSchema)

DefaultSchemas ==
  RecoveryTools ++ CameraTools ++ EventTools ++ InventoryTools ++ MemoryTools ++ SystemTools
  ++ ModelTools ++ VisionTools ++ WeatherTools

\* The tools that wait for the user; every other one runs at once.
Confirmed ==
  {"recovery.create_backup", "memory.remember", "memory.forget", "camera.capture_snapshot",
   "camera.restart", "report.generate", "event.acknowledge", "system.cleanup_retained_data"}

DefaultRules ==
  [t \in DOMAIN DefaultSchemas |->
     [enabled |-> TRUE, auto |-> t \notin Confirmed, confirm |-> t \in Confirmed]]

\* ROUTE_DEPENDENCIES: what a tool is chosen together with.
DefaultDepends ==
  Field("recovery.preview_restore", "recovery.get_status") ++ Field("memory.forget", "memory.search")
  ++ Field("event.acknowledge", "event.get_detail")
  ++ Field("system.cleanup_retained_data", "system.preview_data_retention")

\* In the order of their names, by which the router orders equal scores.
ToolNames ==
  <<"camera.capture_snapshot", "camera.get_status", "camera.restart", "event.acknowledge",
    "event.get_detail", "event.query", "event.summarize", "evidence.verify_event",
    "evidence.verify_recent", "inventory.compare_state", "inventory.get_current_state",
    "inventory.get_removed_items", "memory.forget", "memory.remember", "memory.search",
    "recovery.create_backup", "recovery.get_status", "recovery.preview_restore", "report.generate",
    "system.cleanup_retained_data", "system.get_health", "system.get_retention_cleanup_history",
    "system.get_runtime_benchmark", "system.get_storage_usage", "system.preview_data_retention",
    "vision.count_objects", "vision.get_current_objects", "vision.get_model_info",
    "vision.get_people_count", "vision.get_performance", "vision.get_track_history",
    "vision.get_zone_status", "weather.get_current">>
=============================================================================
