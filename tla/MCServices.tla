----------------------------- MODULE MCServices -----------------------------
(***************************************************************************)
(* Small instances of the modules of what an agent run calls on: memory,   *)
(* MCP, configuration, profiles, models, graph documents, data protection, *)
(* patches, sign-in keys, evidence and skills.  They share no variable: a  *)
(* behaviour is one of the module "part" names while the others stay as    *)
(* they begin, each at one of its beginnings.                              *)
(***************************************************************************)
EXTENDS SharedMemory, MemoryUpkeep, MemoryReview, McpTasks, Configuration,
        ProfileDocuments, ProfileAuthority, ModelClients, GraphDocuments,
        ContentProtection, WorkspacePatches, SigningKeys, RunEvidence, Skills, TLC

CONSTANTS
    Parts,   \* the modules a run explores
    x        \* the one value a configuration key takes

VARIABLE part

Some(S) == CHOOSE e \in S : TRUE

\* McpConnections: nothing in the way, or one thing.
MCObstacleSets == {{}} \union {{o} : o \in Obstacles}

\* Configuration: a credential, or an MCP server that uses one.
KeySet(k) == [Empty EXCEPT ![k] = x]
MCServer  == [KeySet("profile") EXCEPT !["transport"] = "http", !["url"] = x,
                                       !["credential"] = x]
MCLayers  == {<<Empty, Empty>>, <<KeySet("profile"), Empty>>, <<Empty, KeySet("subject")>>}
MCLocalFiles == {Empty, KeySet("profile"), MCServer}

\* ProfileDocuments: a profile begins with one fact.
MCFirstFacts == {<<"f0">>}

\* ProfileAuthority: four layers, under three policies.
MCAsks(decision, tools, allow, deny, roots, subagents, budget, writing, model) ==
    [decision |-> decision, policy |-> tools, allow |-> allow, deny |-> deny,
     roots |-> roots, subagents |-> subagents, budget |-> budget,
     writeback |-> writing, model |-> model]
MCLayerings ==
    {MCAsks("unset", "inherit", {}, {}, {}, {Unset}, 0, "propose", Unset),
     MCAsks("allow", "allowlist", {"t1", "t2"}, {}, {"in", "out"}, {"q"}, 2, "auto", "m2"),
     MCAsks("ask", "allowlist", {"t2"}, {}, {"in"}, {"p", "q"}, 1, "auto", "m3"),
     MCAsks("deny", "denylist", {}, {"t2"}, {"out"}, {}, 3, "off", Unset)}
MCParents == {<<>>, <<"q">>, <<"q", "r">>}
MCPolicies ==
    {[decision |-> d, tools |-> {"t1", "t2"}, roots |-> {"in"}, budget |-> b,
      writeback |-> "auto", model |-> "m1", routes |-> {"m1", "m2"}] :
        d \in {"ask", "allow"}, b \in {0, 2}}

\* ModelClients: two texts, and two tool calls whose parts are interleaved.
MCReplies ==
    {<<Text("a"), Text("b")>>,
     <<Text("a"), CallPart(1, "n1", ""), CallPart(2, "n2", ""), CallPart(1, "", "p"),
       CallPart(2, "", "q"), CallPart(1, "", "r")>>}
MCDocuments == {<<"p", "r">>, <<"q">>, <<"p", "q", "r">>}

\* GraphDocuments: gates before, beside and after what they guard; alternates,
\* compensations and a body behind a reference.
Node(kind, tries, guarded) ==
    [kind |-> kind, join |-> "all", conditional |-> FALSE, attempts |-> tries, width |-> 0,
     body |-> 0, hidden |-> 0, gated |-> guarded, asks |-> {}, alternates |-> {},
     compensation |-> {}]
Task   == Node("task", 1, FALSE)
Push   == Node("task", 1, TRUE)
Gate   == Node("gate", 1, FALSE)
Loop   == [Node("loop", 1, FALSE) EXCEPT !.width = 2, !.body = 1]
Edge(tail, head, kind) == [from |-> tail, to |-> head, kind |-> kind]
Graph(nodes, edges, entries) ==
    [nodes |-> nodes, edges |-> edges, entries |-> entries, level |-> 1, sound |-> TRUE]
MCGraphSources ==
    {Graph([a |-> Task, b |-> [Gate EXCEPT !.conditional = TRUE],
            c |-> [Push EXCEPT !.attempts = 2]],
           {Edge("a", "b", "sequence"), Edge("b", "c", "sequence")}, {"a"}),
     Graph([a |-> Gate, b |-> Loop, c |-> Push],
           {Edge("a", "b", "sequence"), Edge("b", "c", "sequence")}, {"a"}),
     Graph([a |-> Gate, b |-> Task, c |-> Push], {Edge("b", "c", "sequence")}, {"a", "b"}),
     Graph([a |-> Gate, b |-> [Task EXCEPT !.compensation = {"c"}],
            c |-> [Push EXCEPT !.join = "any"]],
           {Edge("a", "c", "on_failure"), Edge("b", "c", "sequence")}, {"a", "b"}),
     Graph([a |-> Gate, b |-> [Task EXCEPT !.compensation = {"c"}], c |-> Push],
           {Edge("a", "c", "sequence")}, {"a", "b"}),
     Graph([a |-> Gate, b |-> [Push EXCEPT !.compensation = {"c"}, !.alternates = {"c"}],
            c |-> Task], {Edge("a", "b", "sequence")}, {"a"}),
     Graph([a |-> [Task EXCEPT !.alternates = {"b"}], b |-> [Task EXCEPT !.alternates = {"a"}]],
           {}, {"a"}),
     Graph([a |-> [Loop EXCEPT !.body = 0, !.hidden = 1]], {}, {"a"}),
     [Graph([a |-> [Task EXCEPT !.asks = {"command"}]], {}, {"a"}) EXCEPT !.level = 3],
     [Graph([a |-> Task], {}, {"a"}) EXCEPT !.sound = FALSE]}
MCDrafts == {g \in MCGraphSources : Cardinality(DOMAIN g.nodes) = 1}
GraphRules(enabled, level, nodes, refuses, generation) ==
    [enabled |-> enabled, level |-> level, maxNodes |-> nodes, refuses |-> refuses,
     generation |-> generation]
MCGraphPolicies ==
    {GraphRules(TRUE, 2, 3, {"command"}, TRUE), GraphRules(TRUE, 3, 2, {}, FALSE),
     GraphRules(FALSE, 1, 3, {}, TRUE)}

\* ContentProtection: a strict, a lenient and a blocking surface.
MCPatterns == {[kind |-> "key", classification |-> 3], [kind |-> "note", classification |-> 1]}
MCSurfaces ==
    {[maximum |-> 1, action |-> "redact", allowed |-> {}],
     [maximum |-> 2, action |-> "redact", allowed |-> {"note"}],
     [maximum |-> 2, action |-> "block", allowed |-> {}]}
MCSettings ==
    {[enabled |-> TRUE, blocks |-> blocks, override |-> ~blocks, default |-> 1] :
        blocks \in BOOLEAN}

\* WorkspacePatches: two hunks of one file, each with a line of context, in files
\* with LF and with CRLF, and diffs that modify, create, delete and rename, change
\* the last newline, or have sections that the parser passes over or refuses.
FileText(lines, breaks, ended) == [lines |-> lines, breaks |-> breaks, ended |-> ended]
Lf(lines) == FileText(lines, "lf", lines # <<>>)
Part(old, new, hunks) ==
    [form |-> "headed", old |-> old, new |-> new, hunks |-> hunks, unended |-> FALSE]
Hunk(at, before, after) == [at |-> at, before |-> before, after |-> after]
Trees(ofF, ofG) == [name \in Files |-> IF name = "f" THEN ofF ELSE ofG]
TwoHunks(lines, breaks, k, first, second) ==
    LET n == Len(lines)
    IN  [from |-> Trees(FileText(lines, breaks, TRUE), NoFile),
         sections |->
           <<Part("f", "f", <<Hunk(1, <<lines[1]>>, <<lines[1]>> \o first),
                              Hunk(k, SubSeq(lines, k, n), SubSeq(lines, k, n - 1) \o second)>>)>>,
         to |-> Trees(FileText(<<lines[1]>> \o first \o SubSeq(lines, 2, n - 1) \o second,
                           breaks, TRUE), NoFile)]
AtoB == Part("f", "f", <<Hunk(1, <<"a">>, <<"b">>)>>)
Made == Part(NoFile, "g", <<Hunk(0, <<>>, <<"a">>)>>)
Unended(headed) == [headed EXCEPT !.unended = TRUE]
MCDiffs ==
    {TwoHunks(lines, "lf", 3, first, second) :
        lines \in [1..3 -> {"a", "b"}] \cup [1..4 -> {"a", "b"}],
        first \in {<<"a">>, <<"b", "a">>}, second \in {<<>>, <<"b">>}}
    \cup
    {TwoHunks(<<"a", "b", "a">>, "crlf", 3, <<"a">>, <<"b">>),
     [from |-> Trees(Lf(<<"a">>), NoFile), sections |-> <<AtoB, Made>>,
      to |-> Trees(Lf(<<"b">>), Lf(<<"a">>))],
     [from |-> Trees(Lf(<<"a">>), NoFile), sections |-> <<Unended(AtoB), Unended(Made)>>,
      to |-> Trees(FileText(<<"b">>, "lf", FALSE), FileText(<<"a">>, "lf", FALSE))],
     [from |-> Trees(FileText(<<"a">>, "lf", FALSE), NoFile), sections |-> <<AtoB>>,
      to |-> Trees(Lf(<<"b">>), NoFile)],
     [from |-> Trees(FileText(<<"a">>, "lf", FALSE), NoFile), sections |-> <<Unended(AtoB)>>,
      to |-> Trees(FileText(<<"b">>, "lf", FALSE), NoFile)],
     [from |-> Trees(Lf(<<>>), NoFile),
      sections |-> <<Part("f", "f", <<Hunk(0, <<>>, <<"a">>)>>)>>,
      to |-> Trees(Lf(<<"a">>), NoFile)],
     [from |-> Trees(Lf(<<"a">>), Lf(<<"b">>)),
      sections |-> <<Part("f", NoFile, <<Hunk(1, <<"a">>, <<>>)>>),
                     Part("g", "f", <<Hunk(1, <<"b">>, <<"a">>)>>)>>,
      to |-> Trees(Lf(<<"a">>), NoFile)],
     [from |-> Trees(Lf(<<"a", "b">>), NoFile),
      sections |-> <<Part("f", "g", <<Hunk(1, <<"a", "b">>, <<"b", "b">>)>>)>>,
      to |-> Trees(NoFile, Lf(<<"b", "b">>))]}
    \cup
    {[from |-> Trees(Lf(<<"a">>), NoFile), sections |-> <<AtoB, [Made EXCEPT !.form = form]>>,
      to |-> Trees(Lf(<<"b">>), Lf(<<"a">>))] : form \in {"bare", "malformed"}}
MCForeignTexts == {Lf(<<"b">>), Lf(<<"a", "a">>)}

\* RunEvidence: two runs of one session.
MCSessionOf == [r \in EvidenceRuns |-> "s"]

\* How the parts a behaviour does not explore begin.  Skills are edited from one
\* content also where they are explored.
OneBackend  == Some(Backends)
OnePolicy   == Some(Policies)
OneFile     == [n \in ProfileNames |-> [asks |-> Some(Layerings), extends |-> <<>>]]
OneRuleSet  == Some(GraphPolicies)
OneRequest  == Some(ProtectionRequests)
OneDiff     == Some(Diffs)
OneSource   == [s \in SkillNames |-> Some(Contents)]
-----------------------------------------------------------------------------
Init ==
    /\ part \in Parts
    /\ part # "memory" => backend = OneBackend
    /\ SharedMemoryInit
    /\ part # "upkeep" => isolated = FALSE /\ database = NoTables
    /\ UpkeepInit
    /\ MemoryReviewInit
    /\ part # "mcp" => obstacles = {} /\ pagesOfServer = 1
    /\ McpConnectionsInit
    /\ McpTasksInit
    /\ part # "configuration" =>
          /\ below = Empty /\ above = Empty /\ trouble = "none"
          /\ file = [exists |-> FALSE, keys |-> Empty]
    /\ ConfigurationInit
    /\ part # "profiles" => writeback = "propose"
    /\ ProfileDocumentsInit
    /\ part # "authority" => policy = OnePolicy /\ files = OneFile
    /\ ProfileAuthorityInit
    /\ part # "models" => protocol = "local" /\ streaming = FALSE
    /\ ModelClientsInit
    /\ part # "graphs" => graphPolicy = OneRuleSet /\ graphFile = NoGraph
    /\ GraphDocumentsInit
    /\ part # "protection" => protectRequest = OneRequest
    /\ ProtectionInit
    /\ part # "patches" => diff = OneDiff /\ dryRun = TRUE
    /\ PatchInit
    /\ KeysInit
    /\ part # "evidence" => chaining = TRUE
    /\ EvidenceInit
    /\ skillSource = OneSource
    /\ SkillsInit

Next ==
    /\ UNCHANGED part
    /\ \/ part = "memory" /\ SharedMemoryNext
       \/ part # "memory" /\ UNCHANGED sharedMemoryVars
    /\ \/ part = "upkeep" /\ UpkeepNext
       \/ part # "upkeep" /\ UNCHANGED upkeepVars
    /\ \/ part = "review" /\ MemoryReviewNext
       \/ part # "review" /\ UNCHANGED memoryReviewVars
    /\ \/ part = "mcp" /\ McpConnectionsNext
       \/ part # "mcp" /\ UNCHANGED mcpConnectionsVars
    /\ \/ part = "tasks" /\ McpTasksNext
       \/ part # "tasks" /\ UNCHANGED mcpTasksVars
    /\ \/ part = "configuration" /\ ConfigurationNext
       \/ part # "configuration" /\ UNCHANGED configurationVars
    /\ \/ part = "profiles" /\ ProfileDocumentsNext
       \/ part # "profiles" /\ UNCHANGED profileDocumentsVars
    /\ \/ part = "authority" /\ ProfileAuthorityNext
       \/ part # "authority" /\ UNCHANGED profileAuthorityVars
    /\ \/ part = "models" /\ ModelClientsNext
       \/ part # "models" /\ UNCHANGED modelClientsVars
    /\ \/ part = "graphs" /\ GraphDocumentsNext
       \/ part # "graphs" /\ UNCHANGED graphDocumentsVars
    /\ \/ part = "protection" /\ ProtectionNext
       \/ part # "protection" /\ UNCHANGED protectionVars
    /\ \/ part = "patches" /\ PatchNext
       \/ part # "patches" /\ UNCHANGED patchVars
    /\ \/ part = "keys" /\ KeysNext
       \/ part # "keys" /\ UNCHANGED keysVars
    /\ \/ part = "evidence" /\ EvidenceNext
       \/ part # "evidence" /\ UNCHANGED evidenceVars
    /\ \/ part = "skills" /\ SkillsNext
       \/ part # "skills" /\ UNCHANGED skillsVars

servicesVars ==
    <<part, sharedMemoryVars, upkeepVars, memoryReviewVars, mcpConnectionsVars, mcpTasksVars,
      configurationVars, profileDocumentsVars, profileAuthorityVars, modelClientsVars,
      graphDocumentsVars, protectionVars, patchVars, keysVars, evidenceVars, skillsVars>>

Spec == Init /\ [][Next]_servicesVars
=============================================================================
