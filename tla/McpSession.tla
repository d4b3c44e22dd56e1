----------------------------- MODULE McpSession -----------------------------
(***************************************************************************)
(* One MCP host, its client and the servers it starts                      *)
(* (packages/mcp/host.py, client.py, server.py): requests and answers over *)
(* the pipes of a child process.  The client waits for one answer at a     *)
(* time and only so long; its queue of answers and its request numbers     *)
(* outlive the process, answers can be late, unreadable or never come.     *)
(* An answer reaches the queue in the step that writes it.                 *)
(***************************************************************************)
EXTENDS Naturals, SequencesExt

CONSTANTS
    McpServers,     \* what may be started: [own, tools, uris, prompts]
    AllowedOpen,    \* allowed_open_world_tools
    Wanted,         \* what callers ask for: [method, name]
    MaxSpawns, MaxRequests, MaxMcpFaults  \* bounds: starts, request ids, crashes and bad lines

VARIABLES
    remote,      \* the child process: [state, spec, initialized, ready]
    wire,        \* its standard input
    replies,     \* _responses
    reading,     \* _read_stdout runs
    client,      \* [pc, job, ask, id, initialized], the caller's request
    next_id, spawns, mcp_faults,
    host,        \* [tools, uris, prompts, discovered]
    taken,       \* history: the start whose three lists discover() read last, 0 before
    strayed      \* history: a caller was given the answer to another request

mcpVars == <<remote, wire, replies, reading, client, next_id, spawns, mcp_faults, host, taken,
             strayed>>

NoAsk == [method |-> "none", name |-> "none"]
NoServer == [own |-> TRUE, tools |-> <<>>, uris |-> {}, prompts |-> {}]
Initialize == [method |-> "initialize", name |-> "none"]
Lists == <<"tools/list", "resources/list", "prompts/list">>
Stopped == [state |-> "none", spec |-> NoServer, initialized |-> FALSE, ready |-> FALSE]

McpInit ==
    /\ remote = Stopped /\ wire = <<>> /\ replies = <<>> /\ reading = FALSE
    /\ client = [pc |-> "idle", job |-> "none", ask |-> NoAsk, id |-> 0, initialized |-> FALSE]
    /\ next_id = 1 /\ spawns = 0 /\ mcp_faults = 0
    /\ host = [tools |-> {}, uris |-> {}, prompts |-> {}, discovered |-> FALSE]
    /\ taken = 0
    /\ strayed = FALSE

-----------------------------------------------------------------------------
(* The server.                                                             *)

Callable(t) == t.level = "L0"
\* _list_tools: another server lists what it likes.
Offered(spec) == IF spec.own THEN SelectSeq(spec.tools, Callable) ELSE spec.tools
Named(things, name) == \E t \in things : t.name = name
ToolsNamed(spec, name) == {t \in ToSet(spec.tools) : t.name = name}

Ready == remote.initialized /\ remote.ready

\* _call_tool: what needs a confirmation is refused by invoke() and comes back as a failure.
ToolOutcomes(name) ==
    IF ToolsNamed(remote.spec, name) = {} THEN {"error"}
    ELSE {"failed"} \union {kind \in {"result"} : \E t \in ToolsNamed(remote.spec, name) : Callable(t)}

\* EdgeSentinelResources.read: an unknown URI, or a reader that raises.
ReadOutcomes(name) ==
    IF Named(remote.spec.uris, name) THEN {"payload", "raises"} ELSE {"raises"}
\* EdgeSentinelPrompts.get: an unknown name, or arguments that are refused.
PromptGets(name) ==
    IF Named(remote.spec.prompts, name) THEN {"payload", "raises"} ELSE {"raises"}

\* _read_resource, _get_prompt: what raises becomes a protocol error.
Translated(got) == {IF g = "payload" THEN "result" ELSE "error" : g \in got}

\* What handle_message may answer: a result, an error, or a tool that failed.
Outcomes(ask) ==
    CASE ask.method = "initialize" -> IF remote.initialized THEN {"error"} ELSE {"result"}
      [] ask.method # "initialize" /\ ~Ready -> {"error"}
      [] ask.method = "tools/call" -> ToolOutcomes(ask.name)
      [] ask.method = "resources/read" -> Translated(ReadOutcomes(ask.name))
      [] ask.method = "prompts/get" -> Translated(PromptGets(ask.name))
      [] OTHER -> {"result"}

Handled(request) ==
    [remote EXCEPT
       !.initialized = @ \/ request.ask.method = "initialize",
       !.ready = @ \/ (request.ask.method = "notifications/initialized" /\ remote.initialized)]

\* StdioTransport.run takes one line; only requests are answered.
Serve ==
    /\ remote.state \in {"up", "closing"} /\ wire # <<>>
    /\ LET request == Head(wire) IN
         IF request.id = 0
           THEN UNCHANGED replies
           ELSE \E kind \in Outcomes(request.ask) :
                  replies' = IF reading THEN Append(replies, [request EXCEPT !.kind = kind])
                                        ELSE replies
    /\ remote' = Handled(Head(wire)) /\ wire' = Tail(wire)
    /\ UNCHANGED <<reading, client, next_id, spawns, mcp_faults, host, taken, strayed>>

\* A line that is too long or no object: the reader reports it and ends.
BadLine ==
    /\ remote.state \in {"up", "closing"} /\ reading /\ mcp_faults < MaxMcpFaults
    /\ replies' = Append(replies, [id |-> 0, ask |-> NoAsk, kind |-> "bad"])
    /\ reading' = FALSE /\ mcp_faults' = mcp_faults + 1
    /\ UNCHANGED <<remote, wire, client, next_id, spawns, host, taken, strayed>>

RemoteDies ==
    /\ remote.state = "up" /\ mcp_faults < MaxMcpFaults
    /\ remote' = [remote EXCEPT !.state = "dead"] /\ wire' = <<>>
    /\ reading' = FALSE /\ mcp_faults' = mcp_faults + 1
    /\ UNCHANGED <<replies, client, next_id, spawns, host, taken, strayed>>

-----------------------------------------------------------------------------
(* The client.                                                             *)

\* _request writes and waits; a write to an ended process raises.
Sends(job, ask, pipe) ==
    /\ next_id <= MaxRequests
    /\ next_id' = next_id + 1
    /\ wire' = Append(pipe, [id |-> next_id, ask |-> ask, kind |-> "request"])
    /\ client' = [client EXCEPT !.pc = "wait", !.job = job, !.ask = ask, !.id = next_id]

FaultyStartRemote(spec) ==
    /\ remote.state = "none" /\ client.pc = "idle" /\ spawns < MaxSpawns
    /\ remote' = [Stopped EXCEPT !.state = "up", !.spec = spec]
    /\ reading' = TRUE /\ spawns' = spawns + 1
    /\ next_id' = 2 /\ wire' = <<[id |-> 1, ask |-> Initialize, kind |-> "request"]>>
    /\ client' = [client EXCEPT !.pc = "wait", !.job = "start", !.ask = Initialize, !.id = 1]
    /\ UNCHANGED <<replies, mcp_faults, host, taken, strayed>>

StartRemote(spec) ==
    /\ remote.state = "none" /\ client.pc = "idle" /\ spawns < MaxSpawns
    /\ remote' = [Stopped EXCEPT !.state = "up", !.spec = spec]
    /\ reading' = TRUE /\ spawns' = spawns + 1
    /\ Sends("start", Initialize, <<>>)
    /\ UNCHANGED <<replies, mcp_faults, host, taken, strayed>>

Asking(job, ask) ==
    /\ client.pc = "idle" /\ client.initialized /\ remote.state \in {"up", "dead"}
    /\ IF remote.state = "up" THEN Sends(job, ask, wire)
       ELSE next_id <= MaxRequests /\ next_id' = next_id + 1 /\ UNCHANGED <<wire, client>>

Rests(c) == [c EXCEPT !.pc = "idle", !.job = "none", !.ask = NoAsk, !.id = 0]

\* After a failed start() the caller closes the process, else it is idle again.
Fails == IF client.job = "start" THEN [client EXCEPT !.pc = "close"] ELSE Rests(client)

TimesOut ==
    /\ client.pc = "wait" /\ replies = <<>>
    /\ client' = Fails
    /\ UNCHANGED <<remote, wire, replies, reading, next_id, spawns, mcp_faults, host, taken,
                   strayed>>

FaultyMine(reply) == reply.kind # "bad"
Mine(reply) == reply.kind # "bad" /\ reply.id = client.id

\* get() returned an answer that raises.
TakesTrouble ==
    /\ client.pc = "wait" /\ replies # <<>>
    /\ ~Mine(Head(replies)) \/ Head(replies).kind \in {"error", "failed"}
    /\ replies' = Tail(replies) /\ client' = Fails
    /\ UNCHANGED <<remote, wire, reading, next_id, spawns, mcp_faults, host, taken, strayed>>

Takes(job) ==
    /\ client.pc = "wait" /\ client.job = job /\ replies # <<>>
    /\ Mine(Head(replies)) /\ Head(replies).kind = "result"
    /\ replies' = Tail(replies)
    /\ strayed' = (strayed \/ Head(replies).ask # client.ask)

\* The handshake ends with a notification; without a process to write to, start() fails.
TakesStart ==
    /\ Takes("start")
    /\ IF remote.state = "up"
         THEN /\ wire' = Append(wire, [id |-> 0, kind |-> "request",
                           ask |-> [method |-> "notifications/initialized", name |-> "none"]])
              /\ client' = [Rests(client) EXCEPT !.initialized = TRUE]
         ELSE client' = Fails /\ UNCHANGED wire
    /\ UNCHANGED <<remote, reading, next_id, spawns, mcp_faults, host, taken>>

TakesAnswer ==
    /\ Takes("ask")
    /\ client' = Rests(client)
    /\ UNCHANGED <<remote, wire, reading, next_id, spawns, mcp_faults, host, taken>>

\* close() ends the input of the process; it may serve what it was sent.
BeginClose ==
    /\ client.pc \in {"idle", "close"} /\ remote.state \in {"up", "dead"}
    /\ client' = [Rests(client) EXCEPT !.pc = "closing"]
    /\ remote' = [remote EXCEPT !.state = IF @ = "up" THEN "closing" ELSE @]
    /\ UNCHANGED <<wire, replies, reading, next_id, spawns, mcp_faults, host, taken, strayed>>

FinishClose ==
    /\ client.pc = "closing"
    /\ remote' = Stopped /\ wire' = <<>> /\ reading' = FALSE
    /\ client' = [Rests(client) EXCEPT !.initialized = FALSE]
    /\ UNCHANGED <<replies, next_id, spawns, mcp_faults, host, taken, strayed>>

-----------------------------------------------------------------------------
(* The host.                                                               *)

Discover ==
    /\ Asking("discover", [method |-> Lists[1], name |-> "none"])
    /\ UNCHANGED <<remote, replies, reading, spawns, mcp_faults, host, taken, strayed>>

\* Safe tools are taken up to the first that is not.
UnsafeAt(tools) == {i \in DOMAIN tools : ~Callable(tools[i])}
Schema(t) == [name |-> t.name, open |-> t.open]
SafePrefix(tools) ==
    {Schema(tools[i]) : i \in {j \in DOMAIN tools \ UnsafeAt(tools) :
                                 \A k \in UnsafeAt(tools) : j < k}}
Trusted(things) == {t.name : t \in {u \in things : u.ok}}

\* What discover() leaves behind when it raises half-way, and what at its end.
Finds(spec, tools) ==
    IF UnsafeAt(Offered(spec)) # {} THEN [host EXCEPT !.tools = tools]
    ELSE IF \E u \in spec.uris : ~u.ok
      THEN [host EXCEPT !.tools = tools, !.uris = Trusted(spec.uris)]
    ELSE IF \E p \in spec.prompts : ~p.ok
      THEN [host EXCEPT !.tools = tools, !.uris = Trusted(spec.uris),
                        !.prompts = Trusted(spec.prompts)]
    ELSE [tools |-> tools, uris |-> Trusted(spec.uris), prompts |-> Trusted(spec.prompts),
          discovered |-> TRUE]
FaultyFound(spec) == Finds(spec, SafePrefix(Offered(spec)) \union host.tools)
Found(spec) == Finds(spec, SafePrefix(Offered(spec)))

TakesList ==
    /\ Takes("discover")
    /\ LET step == CHOOSE i \in DOMAIN Lists : Lists[i] = client.ask.method IN
         IF step < Len(Lists)
           THEN IF remote.state = "up"
                  THEN /\ Sends("discover", [method |-> Lists[step + 1], name |-> "none"], wire)
                       /\ UNCHANGED <<host, taken>>
                  ELSE /\ client' = Fails /\ UNCHANGED <<next_id, wire, host, taken>>
           ELSE /\ host' = Found(remote.spec)
                /\ taken' = spawns
                /\ client' = Rests(client)
                /\ UNCHANGED <<next_id, wire>>
    /\ UNCHANGED <<remote, reading, spawns, mcp_faults>>

\* call_tool, read_resource and get_prompt pass on what was discovered.
Passes(ask) ==
    CASE ask.method = "tools/call" ->
           \E t \in host.tools : t.name = ask.name /\ (t.open => t.name \in AllowedOpen)
      [] ask.method = "resources/read" -> ask.name \in host.uris
      [] ask.method = "prompts/get" -> ask.name \in host.prompts
      [] OTHER -> FALSE

HostAsks(ask) ==
    /\ host.discovered /\ Passes(ask) /\ Asking("ask", ask)
    /\ UNCHANGED <<remote, replies, reading, spawns, mcp_faults, host, taken, strayed>>

McpNext ==
    \/ \E spec \in McpServers : StartRemote(spec)
    \/ \E ask \in Wanted : HostAsks(ask)
    \/ Discover
    \/ Serve
    \/ BadLine
    \/ RemoteDies
    \/ TimesOut
    \/ TakesTrouble
    \/ TakesStart
    \/ TakesAnswer
    \/ TakesList
    \/ BeginClose
    \/ FinishClose

McpSpec == McpInit /\ [][McpNext]_mcpVars

-----------------------------------------------------------------------------
(* Properties.                                                             *)

\* A caller is given the answer to its own request: not one that came after its own
\* caller had stopped waiting, nor one that an earlier process left in the queue.
AnswersAreOwn == ~strayed

\* A client that believes the handshake done has had it with the process that runs now,
\* whatever answers earlier processes left behind.
HandshakeHolds ==
    client.initialized /\ remote.state = "up" =>
        /\ remote.initialized
        /\ remote.ready \/ \E i \in DOMAIN wire : wire[i].ask.method = "notifications/initialized"

\* What a server lists that is safe to call.
Safe(spec) == {Schema(t) : t \in {u \in ToSet(Offered(spec)) : Callable(u)}}

\* Once discover() has read all three lists of the running process, whatever it then made of them,
\* the host knows no tool but those this process lists as safe, nothing of the processes before it,
\* and a call that is on its way to it is for one of them, an open one only if that is allowed.
\* Until then, also when a discovery stops before the third list, the host keeps and passes on what
\* it knows of an earlier process; all of it was listed as safe by some server.
HostFollowsTheLists ==
    /\ taken = spawns /\ remote.state # "none" => host.tools \subseteq Safe(remote.spec)
    /\ taken = spawns /\ client.pc = "wait" /\ client.job = "ask" /\ client.ask.method = "tools/call" =>
         \E t \in Safe(remote.spec) : t.name = client.ask.name /\ (t.open => t.name \in AllowedOpen)
    /\ \A t \in host.tools : \E spec \in McpServers : t \in Safe(spec)

\* The session as a whole.
McpIsSound == AnswersAreOwn /\ HandshakeHolds /\ HostFollowsTheLists
=============================================================================
