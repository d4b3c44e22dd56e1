------------------------------ MODULE ToolTurn ------------------------------
(***************************************************************************)
(* The turns of one task in AgentLoop._execute under its ExecutionControl  *)
(* (packages/harness/execution_control.py), its route, its skill and the   *)
(* hooks (hooks.py): what may be asked of the model, which of its calls    *)
(* reach a handler, and what stops the task.  Another thread may request   *)
(* the cancellation at any step, and time passes between any two.          *)
(* Confirmed tools, checkpoints and their crashes are in AgentTask.        *)
(***************************************************************************)
EXTENDS ToolCatalog

CONSTANTS MaxWall, MaxModelCalls, MaxToolCalls, MaxExternalCalls, MaxTokens,
          InputRate, OutputRate, MaxCost,   \* the rate card, in micro dollars
          MaxSteps,        \* max_steps of the loop or of the active skill
          MaxCalls,        \* tool calls a model answer may hold (8)
          Skills,          \* the required tools of the skills, {} for none
          Scores,          \* what a message may score
          Usages,          \* usage reports of a provider: [prompt, completion, total]
          Requests         \* tool calls of a model: [tool, arguments]

ASSUME TurnAssumption ==
  /\ {MaxWall, MaxModelCalls, MaxToolCalls, MaxTokens, MaxCost, MaxSteps, MaxCalls} \subseteq Nat \ {0}
  /\ {MaxExternalCalls, InputRate, OutputRate} \subseteq Nat
  /\ Scores \subseteq [Catalog -> Nat]
  /\ Usages \subseteq [prompt : Nat, completion : Nat, total : Nat]

VARIABLES skill, route,    \* the active skill's tools, the selected tools
          at, turn,        \* where the loop is, step_number
          elapsed, cancelled,   \* what _check_locked looks at
          used,            \* the counters of the control
          calls,           \* tool calls of the answer that are still to run
          outcome,         \* how the task ended
          ran,             \* history: the calls whose handler ran, in order
          asked,           \* history: requests to the model
          late             \* history: model requests, handlers begun after the cancellation

turnVars == <<skill, route, at, turn, elapsed, cancelled, used, calls, outcome, ran, asked, late>>
limitVars == <<skill, route>>

NoUse == [model |-> 0, tool |-> 0, external |-> 0, prompt |-> 0, completion |-> 0,
          total |-> 0, micro |-> 0]

TurnInit ==
  /\ skill = {} /\ route = <<>>
  /\ at = "start" /\ turn = 1
  /\ elapsed = 0 /\ cancelled = "no"
  /\ used = NoUse /\ calls = <<>>
  /\ outcome = "none" /\ ran = <<>> /\ asked = 0
  /\ late = [model |-> 0, tool |-> 0]

\* A task starts: its skill is active, its route is chosen from its message.
StartTurn(required, scores) ==
  /\ at = "start" /\ Routable(required)
  /\ skill' = required /\ route' = Route(required, scores)
  /\ at' = "model"
  /\ UNCHANGED <<turn, elapsed, cancelled, used, calls, outcome, ran, asked, late>>

Visible == IF skill = {} THEN ToSet(route) ELSE ToSet(route) \cap skill

Ends(code) ==
  /\ at' = "end" /\ outcome' = code
  /\ UNCHANGED <<limitVars, turn, calls, ran, asked, late>>

FaultyStop == IF elapsed >= MaxWall THEN "DEADLINE_EXCEEDED" ELSE "none"

\* _check_locked.
Stop ==
  IF cancelled = "yes" THEN "TASK_CANCELLED"
  ELSE IF elapsed >= MaxWall THEN "DEADLINE_EXCEEDED"
  ELSE "none"

\* consume_model_call.
ModelStop ==
  IF Stop # "none" THEN Stop
  ELSE IF used.model >= MaxModelCalls THEN "MODEL_CALL_BUDGET_EXCEEDED"
  ELSE "none"

FaultyToolStop(tool) ==
  IF Stop # "none" THEN Stop
  ELSE IF used.tool >= MaxToolCalls THEN "TOOL_CALL_BUDGET_EXCEEDED"
  ELSE IF tool \in External /\ used.tool >= MaxExternalCalls + 1
       THEN "EXTERNAL_REQUEST_BUDGET_EXCEEDED"
  ELSE "none"

\* consume_tool_call: the annotations of a tool that is not visible are empty.
ToolStop(tool) ==
  IF Stop # "none" THEN Stop
  ELSE IF used.tool >= MaxToolCalls THEN "TOOL_CALL_BUDGET_EXCEEDED"
  ELSE IF tool \in External /\ tool \in Visible /\ used.external >= MaxExternalCalls
       THEN "EXTERNAL_REQUEST_BUDGET_EXCEEDED"
  ELSE "none"

\* A guard hook fails closed: it denies, or it is not done within its time,
\* whatever it answers then.  An observer hook changes nothing, how it ends
\* does not matter to the loop.
Rejected(allows, inTime) == ~allows \/ inTime = "no"

OutputGuard(answer) == Len(answer) <= MaxCalls
ToolGuard(tool) == tool \in Visible

AskModel(inTime) ==
  /\ at = "model"
  /\ UNCHANGED <<elapsed, cancelled>>
  /\ IF ModelStop # "none" THEN Ends(ModelStop) /\ UNCHANGED used
     ELSE /\ used' = [used EXCEPT !.model = @ + 1]
          /\ IF Rejected(TRUE, inTime) THEN Ends("HOOK_TIMEOUT")
             ELSE /\ at' = "ask"
                  /\ UNCHANGED <<limitVars, turn, calls, outcome, ran, asked, late>>

SendRequest ==
  /\ at = "ask"
  /\ at' = "answer" /\ asked' = asked + 1
  /\ late' = IF cancelled = "yes" THEN [late EXCEPT !.model = @ + 1] ELSE late
  /\ UNCHANGED <<limitVars, turn, elapsed, cancelled, used, calls, outcome, ran>>

Spent(usage) ==
  [used EXCEPT !.prompt = @ + usage.prompt, !.completion = @ + usage.completion,
               !.total = @ + usage.total,
               !.micro = @ + usage.prompt * InputRate + usage.completion * OutputRate]

ValidUsage(usage) == usage.total >= usage.prompt + usage.completion

FaultySpendStop(spent) ==
  IF spent.total > MaxTokens THEN "MODEL_TOKEN_BUDGET_EXCEEDED" ELSE "none"

\* record_model_usage: what was spent is counted before it may stop the task.
SpendStop(spent) ==
  IF spent.total > MaxTokens THEN "MODEL_TOKEN_BUDGET_EXCEEDED"
  ELSE IF spent.micro > MaxCost THEN "MODEL_COST_BUDGET_EXCEEDED"
  ELSE "none"

\* The checks of an answer, in the order of the loop.
Confirmations(answer) ==
  {i \in DOMAIN answer : answer[i].tool \in Visible /\ NeedsConfirmation(answer[i].tool)}

FaultyVerdict(answer, inTime) ==
  IF Rejected(OutputGuard(answer), inTime) THEN "HOOK_REJECTED"
  ELSE IF answer = <<>> THEN "COMPLETED"
  ELSE "tools"

Verdict(answer, inTime) ==
  LET named == {answer[i].tool : i \in DOMAIN answer}
  IN  IF skill # {} /\ ~(named \subseteq skill) THEN "SKILL_TOOL_NOT_ALLOWED"
      ELSE IF (named \cap Catalog) \ Visible # {} THEN "TOOL_ROUTE_VIOLATION"
      ELSE IF Rejected(OutputGuard(answer), inTime) THEN "HOOK_REJECTED"
      ELSE IF answer = <<>> THEN "COMPLETED"
      ELSE IF Confirmations(answer) = {} THEN "tools"
      ELSE IF Len(answer) # 1 THEN "AMBIGUOUS_CONFIRMATION"
      ELSE "AWAITING_CONFIRMATION"

Judge(answer, inTime) ==
  IF Stop # "none" THEN Ends(Stop)
  ELSE IF Verdict(answer, inTime) # "tools" THEN Ends(Verdict(answer, inTime))
  ELSE /\ at' = "call" /\ calls' = answer
       /\ UNCHANGED <<limitVars, turn, outcome, ran, asked, late>>

\* The model answers: with a usage report that is sound, broken or missing.
ModelAnswers(answer, usage, inTime) ==
  /\ at = "answer"
  /\ UNCHANGED <<elapsed, cancelled>>
  /\ IF ~ValidUsage(usage) THEN Ends("MODEL_USAGE_INVALID") /\ UNCHANGED used
     ELSE /\ used' = Spent(usage)
          /\ IF SpendStop(used') # "none" THEN Ends(SpendStop(used')) ELSE Judge(answer, inTime)

ModelFails ==
  /\ at = "answer"
  /\ Ends("MODEL_REQUEST_FAILED")
  /\ UNCHANGED <<elapsed, cancelled, used>>

\* A call is charged before its hook and its handler.
ChargeCall(inTime) ==
  /\ at = "call"
  /\ UNCHANGED <<elapsed, cancelled>>
  /\ LET tool == Head(calls).tool
     IN  IF ToolStop(tool) # "none" THEN Ends(ToolStop(tool)) /\ UNCHANGED used
         ELSE /\ used' = [used EXCEPT !.tool = @ + 1,
                                      !.external = IF tool \in External \cap Visible THEN @ + 1 ELSE @]
              /\ IF Rejected(ToolGuard(tool), inTime) THEN Ends("HOOK_REJECTED")
                 ELSE /\ at' = "invoke"
                      /\ UNCHANGED <<limitVars, turn, calls, outcome, ran, asked, late>>

\* ToolRegistry.invoke: the handler runs only past policy, lookup and schema;
\* all its failures become the result of the call.
Handles(call) ==
  /\ Reason(call.tool, FALSE) = "ALLOWED"
  /\ call.tool \in Catalog
  /\ ValidArguments(Schemas[call.tool], call.arguments)

Invoke ==
  /\ at = "invoke"
  /\ at' = "result"
  /\ IF Handles(Head(calls))
     THEN /\ ran' = Append(ran, Head(calls))
          /\ late' = IF cancelled = "yes" THEN [late EXCEPT !.tool = @ + 1] ELSE late
     ELSE UNCHANGED <<ran, late>>
  /\ UNCHANGED <<limitVars, turn, elapsed, cancelled, used, calls, outcome, asked>>

\* The check after a tool, then the next call or the next step.
AfterTool ==
  /\ at = "result"
  /\ UNCHANGED <<elapsed, cancelled, used>>
  /\ IF Stop # "none" THEN Ends(Stop)
     ELSE IF Len(calls) > 1
     THEN /\ calls' = Tail(calls) /\ at' = "call"
          /\ UNCHANGED <<limitVars, turn, outcome, ran, asked, late>>
     ELSE IF turn = MaxSteps THEN Ends("MAX_STEPS_EXCEEDED")
     ELSE /\ calls' = <<>> /\ at' = "model" /\ turn' = turn + 1
          /\ UNCHANGED <<limitVars, outcome, ran, asked, late>>

CancelTurn ==
  /\ cancelled = "no" /\ at \notin {"start", "end"}
  /\ cancelled' = "yes"
  /\ UNCHANGED <<limitVars, at, turn, elapsed, used, calls, outcome, ran, asked, late>>

Elapse ==
  /\ elapsed < MaxWall /\ at \notin {"start", "end"}
  /\ elapsed' = elapsed + 1
  /\ UNCHANGED <<limitVars, at, turn, cancelled, used, calls, outcome, ran, asked, late>>

TurnNext ==
  \/ \E required \in Skills, scores \in Scores : StartTurn(required, scores)
  \/ \E inTime \in {"yes", "no"} :
       \/ AskModel(inTime) \/ ChargeCall(inTime)
       \/ \E answer \in SeqOf(Requests, MaxCalls + 1), usage \in Usages :
            ModelAnswers(answer, usage, inTime)
  \/ SendRequest \/ ModelFails \/ Invoke \/ AfterTool \/ CancelTurn \/ Elapse

TurnSpec == TurnInit /\ [][TurnNext]_turnVars

-----------------------------------------------------------------------------
RanOf(tools) == {i \in DOMAIN ran : ran[i].tool \in tools}

\* Nothing runs unseen: a handler was begun only for a tool the task's route
\* and skill show, that the policy lets run without a person, with arguments
\* its schema accepts.
OnlyGovernedRun ==
  \A i \in DOMAIN ran :
    /\ ran[i].tool \in Visible
    /\ Rules[ran[i].tool] = [enabled |-> TRUE, auto |-> TRUE, confirm |-> FALSE]
    /\ ValidArguments(Schemas[ran[i].tool], ran[i].arguments)

\* The budgets bound what really happened, not what was counted: handlers,
\* requests to outside services and to the model, and after the answer that
\* broke a token or cost budget nothing is asked or run any more.
BudgetsHold ==
  /\ Len(ran) <= MaxToolCalls /\ Cardinality(RanOf(External)) <= MaxExternalCalls
  /\ asked <= MaxModelCalls /\ asked <= MaxSteps
  /\ used.total > MaxTokens \/ used.micro > MaxCost => at = "end"

\* A cancellation takes effect at the next safe point: after it at most the
\* one request or the one handler begins whose check was already passed.
CancelIsPrompt == late.model + late.tool <= 1

\* A route fits its limit, names no tool twice, and brings the tool that must
\* be used first with every tool that depends on it unless it is full.
RouteIsUsable ==
  /\ ValidRoute(route)
  /\ skill = {} => \A t \in ToSet(route) \cap DOMAIN Depends :
                     Depends[t] \in ToSet(route) \/ Len(route) = MaxRouted

\* A call reaches its handler only within the rules, the budgets and the life
\* of its task, in every order of answers, hooks, time and cancellation.
CallsAreGoverned == OnlyGovernedRun /\ BudgetsHold /\ CancelIsPrompt /\ RouteIsUsable
=============================================================================
