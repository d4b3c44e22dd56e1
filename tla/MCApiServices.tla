--------------------------- MODULE MCApiServices ---------------------------
EXTENDS ApiServices, TLC

CONSTANTS c1, c2, a1, a2, u1, u2, u3

MCTools == <<"cleanup", "preview", "weather">>
MCRules ==
  [t \in ToSet(MCTools) |-> [enabled |-> TRUE, auto |-> t # "cleanup", confirm |-> t = "cleanup"]]
Days == [type |-> "array", low |-> 1, high |-> 2, unique |-> TRUE,
         parts |-> [type |-> "integer", low |-> 1, high |-> 3, unique |-> FALSE]]
MCSchemas ==
  [t \in ToSet(MCTools) |->
     [properties |-> [n \in {"days"} |-> Days], closed |-> TRUE,
      required |-> IF t = "preview" THEN {"days"} ELSE {}]]
MCDepends == "cleanup" :> "preview"

Number(n) == [type |-> "integer", size |-> n, parts |-> <<>>]
List(s) == [type |-> "array", size |-> 0, parts |-> s]
MCRequests ==
  {[tool |-> "weather", arguments |-> <<>>],
   [tool |-> "cleanup", arguments |-> <<>>],
   [tool |-> "preview", arguments |-> "days" :> List(<<Number(1), Number(3)>>)],
   [tool |-> "preview", arguments |-> "days" :> List(<<Number(1), Number(1)>>)],
   [tool |-> "unknown", arguments |-> "days" :> Number(1)]}
MCSkills == {{}, {"preview"}}
MCScores == {[t \in ToSet(MCTools) |-> IF t = "cleanup" THEN 2 ELSE IF t = "weather" THEN 1 ELSE 0],
             [t \in ToSet(MCTools) |-> IF t = "cleanup" THEN 0 ELSE 1]}
MCUsages == {[prompt |-> 0, completion |-> 0, total |-> 0],
             [prompt |-> 1, completion |-> 1, total |-> 2],
             [prompt |-> 1, completion |-> 0, total |-> 3],
             [prompt |-> 1, completion |-> 1, total |-> 1]}

\* Events are <<time, first key, second key>>: two share their time.
MCEvents == {<<1, 1, 1>>, <<2, 1, 1>>, <<2, 1, 2>>}
MCKind == [e \in MCEvents |-> IF e[3] = 1 THEN "entered" ELSE "left"]

MCFold == [n \in {"lamp", "Lamp", "desk"} |-> IF n = "Lamp" THEN "lamp" ELSE n]
MCStore == [u \in {u1, u2, u3} |-> IF u = u3 THEN "cli" ELSE "api"]

\* A server of this project, and another one that lists an unsafe tool second.
Own == [own |-> TRUE, uris |-> {[name |-> "vision", ok |-> TRUE]},
        prompts |-> {[name |-> "scene", ok |-> TRUE]},
        tools |-> <<[name |-> "health", level |-> "L0", open |-> FALSE],
                    [name |-> "restart", level |-> "L1", open |-> FALSE],
                    [name |-> "weather", level |-> "L0", open |-> TRUE]>>]
Other == [own |-> FALSE, uris |-> {}, prompts |-> {[name |-> "scene", ok |-> FALSE]},
          tools |-> <<[name |-> "backup", level |-> "L0", open |-> FALSE],
                      [name |-> "restart", level |-> "L1", open |-> FALSE]>>]
MCMcpServers == {Own, Other}
MCWanted == {[method |-> "tools/call", name |-> "weather"], [method |-> "resources/read", name |-> "vision"],
             [method |-> "prompts/get", name |-> "scene"]}

\* Neither the clients nor the accounts differ from each other.
ServiceSymmetry == Permutations({c1, c2}) \cup Permutations({a1, a2})

MCLabels == <<"a", "b", "c">>
Ask(offset, bucket) == [span |-> 2, offset |-> offset, bucket |-> bucket, padded |-> "no"]
MCQuestions == {Ask(0, 3), Ask(3, 0), Ask(-1, 0), Ask(1, 0), [Ask(0, 3) EXCEPT !.padded = "yes"]}
=============================================================================
