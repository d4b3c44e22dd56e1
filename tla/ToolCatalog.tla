---------------------------- MODULE ToolCatalog -----------------------------
(***************************************************************************)
(* What decides over a tool call before its handler runs, without state of *)
(* its own: the policy (packages/harness/policy.py), the route a task gets *)
(* (tool_router.py) and the validation of arguments by a schema            *)
(* (registry.py).  A value is [type, size, parts]: its number, the length  *)
(* of its text, its place in an enumeration or the number of its parts is *)
(* its size.                                                               *)
(***************************************************************************)
EXTENDS Integers, Sequences, SequencesExt, FiniteSets

CONSTANTS Tools,        \* the registered tools, in the order of their names
          Rules,        \* the policy of some of them: [enabled, auto, confirm]
          Schemas,      \* their input schemas: [properties, required, closed]
          External,     \* the tools with openWorldHint
          Depends,      \* ROUTE_DEPENDENCIES: a function of some tools
          MaxRouted     \* max_tools of the router

Catalog == ToSet(Tools)

\* The parts of a list or an object are no lists or objects again: no schema
\* of the registered tools nests deeper.
Composite(schema) == schema.type \in {"object", "array"}
Flat(schema) == Composite(schema) => ~Composite(schema.parts)

ASSUME CatalogAssumption ==
  /\ Tools \in Seq(Catalog) /\ Len(Tools) = Cardinality(Catalog)
  /\ \A t \in DOMAIN Rules : Rules[t] \in [enabled : BOOLEAN, auto : BOOLEAN, confirm : BOOLEAN]
  /\ DOMAIN Schemas = Catalog /\ External \subseteq Catalog
  /\ \A t \in Catalog : LET properties == Schemas[t].properties
                        IN  \A n \in DOMAIN properties : Flat(properties[n])
  \* What a tool depends on depends on nothing itself.
  /\ \A t \in DOMAIN Depends : Depends[t] \in Catalog \ DOMAIN Depends
  /\ MaxRouted \in 1..8

FaultyReason(tool, granted) ==
  IF tool \notin DOMAIN Rules THEN "TOOL_NOT_ALLOWLISTED"
  ELSE IF ~Rules[tool].enabled THEN "TOOL_DISABLED"
  ELSE "ALLOWED"

\* PolicyEngine.evaluate: the first reason that applies.
Reason(tool, granted) ==
  IF tool \notin DOMAIN Rules THEN "TOOL_NOT_ALLOWLISTED"
  ELSE IF ~Rules[tool].enabled THEN "TOOL_DISABLED"
  ELSE IF Rules[tool].confirm /\ ~granted THEN "CONFIRMATION_REQUIRED"
  ELSE IF ~Rules[tool].auto /\ ~granted THEN "AUTO_EXECUTE_DISABLED"
  ELSE "ALLOWED"

NeedsConfirmation(tool) == tool \in DOMAIN Rules /\ Rules[tool].confirm

-----------------------------------------------------------------------------
InRange(schema, size) == schema.low <= size /\ size <= schema.high

\* ToolRegistry._validate_value, of a value without parts and of any.
ValidScalar(schema, value) ==
  CASE schema.type = "number" ->
         value.type \in {"integer", "number"} /\ InRange(schema, value.size)
    [] schema.type \in {"integer", "string"} ->
         value.type = schema.type /\ InRange(schema, value.size)
    [] schema.type = "boolean" -> value.type = "boolean"
    [] OTHER -> FALSE

ValidValue(schema, value) ==
  IF ~Composite(schema) THEN ValidScalar(schema, value)
  ELSE /\ value.type = schema.type
       /\ InRange(schema, Len(value.parts))
       /\ \A i \in DOMAIN value.parts : ValidScalar(schema.parts, value.parts[i])
       /\ schema.unique => Len(value.parts) = Cardinality(ToSet(value.parts))

\* ToolRegistry._validate_arguments.
ValidArguments(schema, arguments) ==
  /\ schema.closed => DOMAIN arguments \subseteq DOMAIN schema.properties
  /\ schema.required \subseteq DOMAIN arguments
  /\ \A name \in DOMAIN arguments \cap DOMAIN schema.properties :
       ValidValue(schema.properties[name], arguments[name])

-----------------------------------------------------------------------------
\* sorted: as many of the set stand before an element as its place says.
InOrder(set, before) ==
  [i \in 1..Cardinality(set) |->
     CHOOSE t \in set : Cardinality({u \in set : <<u, t>> \in before}) = i - 1]

\* By name, and by score with the best first, by name among equals.
Place(tool) == CHOOSE i \in DOMAIN Tools : Tools[i] = tool
ByName(set) == {p \in set \X set : Place(p[1]) < Place(p[2])}
ByScore(set, scores) ==
  {p \in set \X set : \/ scores[p[1]] > scores[p[2]]
                      \/ scores[p[1]] = scores[p[2]] /\ Place(p[1]) < Place(p[2])}

Ranked(scores) ==
  LET found == {t \in Catalog : scores[t] > 0} IN InOrder(found, ByScore(found, scores))

\* _add_dependencies: behind the tools found, while there is room.
FaultyWithDependency(selected, tool) ==
  IF tool \in DOMAIN Depends /\ Depends[tool] \notin ToSet(selected)
  THEN Append(selected, Depends[tool]) ELSE selected

WithDependency(selected, tool) ==
  IF /\ tool \in DOMAIN Depends
     /\ Depends[tool] \in Catalog \ ToSet(selected)
     /\ Len(selected) < MaxRouted
  THEN Append(selected, Depends[tool])
  ELSE selected

WithDependencies(found) ==
  LET selected[i \in 0..Len(found)] ==
        IF i = 0 THEN found ELSE WithDependency(selected[i - 1], found[i])
  IN  selected[Len(found)]

Routable(required) == Cardinality(required) <= MaxRouted /\ required \subseteq Catalog

\* ToolSchemaRouter.route: the tools of a skill, or the best scored ones.
Route(required, scores) ==
  IF required # {}
  THEN InOrder(required, ByName(required))
  ELSE LET ranked == Ranked(scores)
       IN  WithDependencies(SubSeq(ranked, 1, IF Len(ranked) < MaxRouted
                                              THEN Len(ranked) ELSE MaxRouted))

\* validate_route: what a checkpoint may bring back.
ValidRoute(route) ==
  /\ Len(route) <= MaxRouted
  /\ Len(route) = Cardinality(ToSet(route))
  /\ ToSet(route) \subseteq Catalog
=============================================================================
