---------------------------- MODULE OfflineAgent ----------------------------
(***************************************************************************)
(* A task of the agent loop on the offline model (packages/harness/        *)
(* mock_model.py), the one the service falls back to and is accepted with. *)
(* The model reads keywords and decides; the router reads the same text    *)
(* with other keywords and says which tools the task may call; schema and  *)
(* policy have the last word.  Nothing in the code makes the three agree.  *)
(* A text is abstracted to the groups of keywords of generate it "says"    *)
(* and to the ids, numbers and names it "gives"; what the router finds in  *)
(* it is "Found".                                                           *)
(***************************************************************************)
EXTENDS DefaultTools, SequencesExt, FiniteSets

CONSTANTS Prompts,    \* what users say: [says, gives, skill]
          Found(_),   \* the sets of tools the router may find in such a text
          Memories,   \* ids of remembered records
          Files       \* paths a retention preview may list

SkillTools == {"event.query", "event.get_detail", "evidence.verify_event"}

Cat == INSTANCE ToolCatalog
         WITH Tools <- ToolNames, Rules <- DefaultRules, Schemas <- DefaultSchemas,
              External <- {"weather.get_current"}, Depends <- DefaultDepends, MaxRouted <- 6

ASSUME SchemasAreFlat ==
  \A t \in DOMAIN DefaultSchemas :
    LET properties == DefaultSchemas[t].properties
    IN  \A n \in DOMAIN properties : Cat!Flat(properties[n])

ASSUME OfflineAssumption ==
  /\ IsFiniteSet(Memories) /\ IsFiniteSet(Files)
  /\ \A p \in Prompts : \A name \in DOMAIN p.gives : p.gives[name].size \in Int

VARIABLES prompt,    \* the user's message
          visible,   \* the tools of the task's route
          stage,     \* "start", "model", "confirm", "invoke" or "end"
          asked,     \* the calls the model asked for, in order
          results,   \* their results: [call, status, found, stale]
          verdict    \* how the task ended, "none" before

offlineVars == <<prompt, visible, stage, asked, results, verdict>>

-----------------------------------------------------------------------------
(* What the model decides: one call, or an answer of some kind.            *)

Number(n)   == [type |-> "integer", size |-> n, parts |-> <<>>]
Choice(n)   == [type |-> "string", size |-> n, parts |-> <<>>]
True        == [type |-> "boolean", size |-> 1, parts |-> <<>>]
Name(text)  == [type |-> "string", size |-> 1, parts |-> <<text>>]   \* a short fixed one
Id(n, text) == [type |-> "string", size |-> n, parts |-> <<text>>]   \* of n characters
List(type, parts) == [type |-> type, size |-> 0, parts |-> parts]

Call(tool, arguments) == [tool |-> tool, arguments |-> arguments, text |-> "none"]
Says(text)            == [tool |-> "none", arguments |-> Nothing, text |-> text]

Gives(p, name) == name \in DOMAIN p.gives
Optional(p, name, as) == IF Gives(p, name) THEN Field(as, p.gives[name]) ELSE Nothing
Only(p, name) == IF Gives(p, name) THEN <<p.gives[name]>> ELSE <<>>
Limit(n) == [limit |-> Number(n)]

Rule(when, then) == [when |-> when, then |-> then]
Topic(p, topic, then) == Rule(topic \in p.says, then)

RecoveryRules(p) ==
  <<Topic(p, "shell", Call("system.shell", Nothing)),
    Topic(p, "restore preview",
          IF Gives(p, "backup_id")
          THEN Call("recovery.preview_restore", Optional(p, "backup_id", "backup_id"))
          ELSE Call("recovery.get_status", Limit(5))),
    Topic(p, "create backup", Call("recovery.create_backup", Nothing)),
    Topic(p, "backups", Call("recovery.get_status", Limit(5)))>>

\* _extract_memory_query: what is left of the message, cut at 100 characters.
Recall(p) == Call("memory.search", Optional(p, "query", "query") ++ Limit(5))

\* _extract_memory_record finds a key and a value or nothing.
Record(p) == [kind |-> Choice(IF "preference" \in p.says THEN 2 ELSE 1)]
             ++ Optional(p, "key", "key") ++ Optional(p, "value", "value")

MemoryRules(p) ==
  <<Topic(p, "forget", IF Gives(p, "memory_id")
                       THEN Call("memory.forget", Optional(p, "memory_id", "memory_id"))
                       ELSE Recall(p)),
    Rule(Gives(p, "key") /\ Gives(p, "value"), Call("memory.remember", Record(p))),
    Topic(p, "recall", Recall(p))>>

CameraRules(p) ==
  <<Topic(p, "snapshot", Call("camera.capture_snapshot", Nothing)),
    Topic(p, "restart", Call("camera.restart", Nothing)),
    Topic(p, "model", Call("vision.get_model_info", Nothing)),
    Topic(p, "performance", Call("vision.get_performance", Nothing)),
    Topic(p, "benchmark", Call("system.get_runtime_benchmark", Nothing)),
    Topic(p, "camera status", Call("camera.get_status", Nothing))>>

\* _extract_weather_location may leave one character, or none.
Location(p) ==
  IF Gives(p, "location") /\ p.gives["location"].size > 0
  THEN [location |-> p.gives["location"]] ELSE Nothing

DataRules(p) ==
  <<Topic(p, "weather", Call("weather.get_current", Location(p))),
    Topic(p, "cleanup history", Call("system.get_retention_cleanup_history", Limit(10))),
    Topic(p, "cleanup", Call("system.preview_data_retention", Nothing)),
    Topic(p, "retention", Call("system.preview_data_retention", Nothing)),
    Topic(p, "storage", Call("system.get_storage_usage", Nothing)),
    Topic(p, "health", Call("system.get_health", Nothing))>>

EventId(p) == Optional(p, "event_id", "event_id")

ExactRules(p) ==
  <<Topic(p, "evidence", IF Gives(p, "event_id") THEN Call("evidence.verify_event", EventId(p))
                         ELSE Call("evidence.verify_recent", Limit(50))),
    Topic(p, "report", Call("report.generate", Nothing)),
    Topic(p, "acknowledge", IF Gives(p, "event_id") THEN Call("event.acknowledge", EventId(p))
                            ELSE Says("which event")),
    Rule(Gives(p, "event_id") /\ "detail" \in p.says, Call("event.get_detail", EventId(p)))>>

TrackOf(p) ==
  Optional(p, "track_id", "track_id")
  ++ (IF "person" \in p.says /\ ~Gives(p, "class") THEN [object_class |-> Name("person")]
      ELSE Optional(p, "class", "object_class"))

Zone(p) ==
  IF "left" \in p.says THEN [zone_id |-> Name("left_zone")]
  ELSE IF "right" \in p.says THEN [zone_id |-> Name("right_zone")]
  ELSE Nothing

Comparing(p) == {"compare", "stock"} \subseteq p.says

CountRules(p) ==
  <<Topic(p, "track", IF TrackOf(p) = Nothing THEN Says("which track")
                      ELSE Call("vision.get_track_history", TrackOf(p) ++ Limit(10))),
    Rule(Gives(p, "class") /\ ~Comparing(p) /\ "how many" \in p.says,
         Call("vision.count_objects",
              [classes |-> List("array", Only(p, "class"))]
              ++ Optional(p, "confidence", "minimum_confidence") ++ Zone(p))),
    Rule(Comparing(p),
         IF Gives(p, "class") /\ Gives(p, "expected")
         THEN Call("inventory.compare_state",
                   [expected_counts |-> List("object", Only(p, "expected"))])
         ELSE Says("which count"))>>

\* The words for the disposition of events; open ones first.
Status(p) ==
  IF "open" \in p.says THEN [status |-> Choice(1)]
  ELSE IF "handled" \in p.says THEN [status |-> Choice(2)]
  ELSE Nothing

Minutes(p, otherwise) ==
  [minutes |-> IF Gives(p, "minutes") THEN p.gives["minutes"] ELSE Number(otherwise)]

StockRules(p) ==
  <<Rule("removed" \in p.says /\ (Gives(p, "minutes") \/ "removals" \in p.says),
         Call("inventory.get_removed_items",
              Minutes(p, 10) ++ Limit(20) ++ Status(p) ++ Optional(p, "class", "object_class"))),
    Rule({"stock", "tally"} \cap p.says # {},
         Call("inventory.get_current_state", Optional(p, "class", "object_class"))),
    Rule("zone" \in p.says /\ "zone event" \notin p.says, Call("vision.get_zone_status", Zone(p))),
    Topic(p, "people", Call("vision.get_people_count", Nothing)),
    Topic(p, "objects", Call("vision.get_current_objects", Nothing))>>

\* _event_severity: the first of the four levels that is named.
Severity(p) == Optional(p, "severity", "severity")

MinutesADay  == 1440
MinutesAWeek == 10080

\* A comparison with the same hour of yesterday or of last week.
Aligned(p)  == {"yesterday", "last week"} \cap p.says # {}
Compares(p) == Aligned(p) \/ {"compare events", "assess"} \cap p.says # {}

Span(p) ==
  IF Aligned(p) THEN 60 ELSE IF Compares(p) \/ "trend" \in p.says THEN 1440 ELSE 10

Buckets(p) == IF "trend" \in p.says THEN [bucket_minutes |-> Number(3)] ELSE Nothing

Thresholds(p) ==
  IF "assess" \in p.says
  THEN [change_threshold_percent |-> Number(25), change_threshold_events |-> Number(10)]
  ELSE Nothing

\* With both days the fixed baselines are asked for, else one comparison.
SummaryOf(p) ==
  IF {"yesterday", "last week"} \subseteq p.says THEN [include_reference_baselines |-> True]
  ELSE (IF Compares(p) THEN [compare_previous |-> True] ELSE Nothing)
       ++ (IF "yesterday" \in p.says THEN [comparison_offset_minutes |-> Number(MinutesADay)]
           ELSE IF "last week" \in p.says THEN [comparison_offset_minutes |-> Number(MinutesAWeek)]
           ELSE Nothing)

Subject(p) ==
  IF "bottle" \in p.says THEN [object_class |-> Name("bottle")]
  ELSE IF "person" \in p.says THEN [object_class |-> Name("person")]
  ELSE Nothing

Summarize(p) ==
  Call("event.summarize",
       Minutes(p, Span(p)) ++ [recent_limit |-> Number(5)] ++ Buckets(p) ++ Thresholds(p)
       ++ SummaryOf(p) ++ Status(p) ++ Severity(p) ++ Subject(p))

\* What the words for dwelling and for cameras filter by.
Kind(p) ==
  IF "bottle" \in p.says THEN [object_class |-> Name("bottle")]
  ELSE IF "dwell" \in p.says
  THEN [object_class |-> Name("person"), event_type |-> Name("ZONE_DWELL")]
  ELSE IF "camera" \notin p.says THEN Nothing
  ELSE [object_class |-> Name("camera")]
       ++ (IF ("offline" \in p.says) = ("recovered" \in p.says) THEN Nothing
           ELSE [event_type |-> Name(IF "offline" \in p.says THEN "CAMERA_OFFLINE"
                                         ELSE "CAMERA_RECOVERED")])

\* The topics whose words also ask for events.
SummaryTopics == {"summary", "trend", "compare events", "assess", "yesterday", "last week"}
EventTopics   == {"events", "dwell", "offline", "recovered"}

EventRules(p) ==
  <<Rule(p.says \cap SummaryTopics # {}, Summarize(p)),
    Rule(p.says \cap EventTopics # {},
         Call("event.query", Limit(5) ++ Optional(p, "minutes", "minutes") ++ Status(p)
                             ++ Severity(p) ++ Kind(p))),
    Rule(TRUE, Says("what is supported"))>>

\* The skill for removed items opens with its own query.
SkillRules(p) ==
  <<Rule(p.skill, Call("event.query", [event_type |-> Name("OBJECT_REMOVED")] ++ Limit(5)
                       ++ (IF "bottle" \in p.says THEN [object_class |-> Name("bottle")]
                           ELSE Nothing)))>>

\* OfflineMockModel.generate without results: the first rule that applies.
FirstDecision(p) ==
  LET rules == SkillRules(p) \o RecoveryRules(p) \o MemoryRules(p) \o CameraRules(p)
               \o DataRules(p) \o ExactRules(p) \o CountRules(p) \o StockRules(p) \o EventRules(p)
  IN  rules[SelectInSeq(rules, LAMBDA rule : rule.when)].then

-----------------------------------------------------------------------------
(* With results: two chains go on, everything else is answered.            *)

Succeeded(result, tool) == result.status = "SUCCEEDED" /\ result.call.tool = tool

FaultyForgettable(p, result) ==      \* the newest of several
  "forget" \in p.says /\ Succeeded(result, "memory.search") /\ result.found # <<>>

Forgettable(p, result) ==
  "forget" \in p.says /\ Succeeded(result, "memory.search") /\ Len(result.found) = 1

CleanupPlanned(p, result) ==
  "cleanup" \in p.says /\ Succeeded(result, "system.preview_data_retention")

Cleanup(files) ==
  Call("system.cleanup_retained_data",
       [plan_id         |-> Id(36, "plan"),
        candidate_paths |-> List("array", [i \in DOMAIN files |-> Name(files[i])])])

\* The tools whose answer says that the vision state is stale.
SaysStale ==
  {"vision.get_people_count", "vision.get_current_objects", "vision.count_objects",
   "vision.get_track_history", "inventory.get_current_state", "inventory.compare_state",
   "vision.get_zone_status"}

\* _answer_from_result: a refusal, a warning, or what was found.
AnswerFromResult(result) ==
  IF result.status # "SUCCEEDED" THEN Says("refused")
  ELSE IF result.call.tool \in SaysStale /\ result.stale THEN Says("stale")
  ELSE Says("told")

NextDecision(p, result) ==
  IF Forgettable(p, result) THEN Call("memory.forget", [memory_id |-> Id(36, result.found[1])])
  ELSE IF CleanupPlanned(p, result)
  THEN IF result.found = <<>> THEN Says("nothing to clean") ELSE Cleanup(result.found)
  ELSE AnswerFromResult(result)

Decision == IF results = <<>> THEN FirstDecision(prompt) ELSE NextDecision(prompt, Last(results))

-----------------------------------------------------------------------------
(* The task.                                                               *)

OfflineInit ==
  /\ prompt \in Prompts /\ visible = {} /\ stage = "start"
  /\ asked = <<>> /\ results = <<>> /\ verdict = "none"

\* The route is made once, from the scores of the message or from the skill;
\* it is a choice among the schemas of the registry.
Begin(hits) ==
  /\ stage = "start"
  /\ stage' = "model"
  /\ LET route == Cat!Route(IF prompt.skill THEN SkillTools ELSE {},
                            [t \in Cat!Catalog |-> IF t \in hits THEN 1 ELSE 0])
     IN  visible' = {t \in Cat!Catalog : t \in ToSet(route)}
  /\ UNCHANGED <<prompt, asked, results, verdict>>

EndsAs(how) ==
  stage' = "end" /\ verdict' = how /\ UNCHANGED <<prompt, visible, asked, results>>

Denied(tool) == tool \in Cat!Catalog \ visible

ModelAnswers ==
  /\ stage = "model" /\ Decision.tool = "none"
  /\ EndsAs(Decision.text)

\* A registered tool off the route ends the task.
RouteDenies ==
  /\ stage = "model" /\ Denied(Decision.tool)
  /\ EndsAs("TOOL_ROUTE_NOT_ALLOWED")

\* One that is not registered gets past the route, and the guard before the
\* call rejects what is not visible.
GuardDenies ==
  /\ stage = "model" /\ Decision.tool \notin Cat!Catalog \cup {"none"}
  /\ EndsAs("HOOK_REJECTED")

ModelAsks ==
  /\ stage = "model" /\ Decision.tool \in visible
  /\ asked' = Append(asked, Decision)
  /\ stage' = IF Cat!NeedsConfirmation(Decision.tool) THEN "confirm" ELSE "invoke"
  /\ UNCHANGED <<prompt, visible, results, verdict>>

\* The user confirms the pending call, or cancels the task.
Grant ==
  /\ stage = "confirm"
  /\ stage' = "invoke"
  /\ UNCHANGED <<prompt, visible, asked, results, verdict>>

Refuse ==
  stage = "confirm" /\ EndsAs("CANCELLED")

CandidateLimit == 100    \* of the files a preview lists

Finds(tool) ==
  IF tool = "memory.search" THEN SetToAllKPermutations(Memories)
  ELSE IF tool = "system.preview_data_retention"
  THEN {files \in SetToAllKPermutations(Files) : Len(files) <= CandidateLimit}
  ELSE {<<>>}

\* ToolRegistry.invoke: policy, schema, then the handler; what waits for the
\* user was granted by now.
Rejection(call) ==
  IF Cat!Reason(call.tool, TRUE) # "ALLOWED" THEN "POLICY_DENIED"
  ELSE IF ~Cat!ValidArguments(DefaultSchemas[call.tool], call.arguments) THEN "INVALID_ARGUMENTS"
  ELSE "none"

Returned(status, found, stale) ==
  /\ results' = Append(results, [call |-> Last(asked), status |-> status,
                                 found |-> found, stale |-> stale])
  /\ stage' = "model"
  /\ UNCHANGED <<prompt, visible, asked, verdict>>

RegistryRejects ==
  /\ stage = "invoke" /\ Rejection(Last(asked)) # "none"
  /\ Returned(Rejection(Last(asked)), <<>>, FALSE)

HandlerRuns ==
  /\ stage = "invoke" /\ Rejection(Last(asked)) = "none"
  /\ \/ \E found \in Finds(Last(asked).tool), stale \in BOOLEAN :
          /\ stale => Last(asked).tool \in SaysStale
          /\ Returned("SUCCEEDED", found, stale)
     \/ Returned("TOOL_EXECUTION_FAILED", <<>>, FALSE)

OfflineNext ==
  \/ \E hits \in Found(prompt) : Begin(hits)
  \/ ModelAnswers \/ RouteDenies \/ GuardDenies \/ ModelAsks \/ Grant \/ Refuse
  \/ RegistryRejects \/ HandlerRuns

OfflineSpec == OfflineInit /\ [][OfflineNext]_offlineVars

-----------------------------------------------------------------------------
(* Properties                                                              *)

Given == {prompt.gives[name] : name \in DOMAIN prompt.gives}

\* The model and the schemas agree: a call has what its tool requires, and
\* every argument the model chose itself is accepted.  Only a number or name
\* the user gave can be out of range, and a status asked of removed items,
\* which that tool does not know.
CallsFitSchemas ==
  \A i \in DOMAIN asked :
    LET call   == asked[i]
        schema == DefaultSchemas[call.tool]
        Fits(n) == /\ n \in DOMAIN schema.properties
                   /\ Cat!ValidValue(schema.properties[n], call.arguments[n])
    IN  /\ schema.required \subseteq DOMAIN call.arguments
        /\ \A n \in DOMAIN call.arguments :
             \/ Fits(n)
             \/ call.arguments[n] \in Given
             \/ ToSet(call.arguments[n].parts) \cap Given # {}
             \/ n = "status" /\ call.tool = "inventory.get_removed_items"

\* EventSummaryService.summarize raises for some combinations its schema
\* allows; the model asks for none of them.
SummariesAreTaken ==
  \A i \in DOMAIN asked :
    LET a == asked[i].arguments
    IN  /\ asked[i].tool = "event.summarize" /\ "comparison_offset_minutes" \in DOMAIN a
        /\ Cat!ValidArguments(EventSummarySchema, a)
        => /\ "compare_previous" \in DOMAIN a
           /\ a["comparison_offset_minutes"].size >= a["minutes"].size

\* What is deleted was named: a record is forgotten by the id the user gave or
\* by that of the only record the search before found; a cleanup takes the
\* plan and the files of the preview before it, all of them and no other.
DeletionsAreNamed ==
  \A i \in DOMAIN asked :
    /\ asked[i].tool = "memory.forget" =>
         \/ asked[i].arguments["memory_id"] \in Given
         \/ /\ i > 1 /\ Succeeded(results[i - 1], "memory.search")
            /\ asked[i].arguments["memory_id"].parts = results[i - 1].found
    /\ asked[i].tool = "system.cleanup_retained_data" =>
         /\ i > 1 /\ Succeeded(results[i - 1], "system.preview_data_retention")
         /\ [k \in DOMAIN asked[i].arguments["candidate_paths"].parts |->
               asked[i].arguments["candidate_paths"].parts[k].parts[1]] = results[i - 1].found

\* No loop: at most one call follows another, to another tool, and one that
\* waits for the user is the last.
CallsEnd ==
  /\ Len(asked) <= 2
  /\ Len(asked) = 2 => /\ asked[1].tool # asked[2].tool
                       /\ ~Cat!NeedsConfirmation(asked[1].tool)

\* All of them: what the offline model asks of the tools makes sense.
OfflineIsSound == CallsFitSchemas /\ SummariesAreTaken /\ DeletionsAreNamed /\ CallsEnd

\* "Clean the previewed old logs": when the preview lists files the task waits
\* for the user to confirm the cleanup.
PreviewedCleanupIsOffered ==
  verdict # "none" /\ "cleanup" \in prompt.says /\ results # <<>>
    /\ Succeeded(results[1], "system.preview_data_retention") /\ results[1].found # <<>>
  => Len(asked) = 2
=============================================================================
