---------------------------- MODULE GraphDocuments ----------------------------
(***************************************************************************)
(* A graph file from its authoring to its run: loro graph generate,        *)
(* validate, plan, run and resume, the managed graph policy and the plan a *)
(* person approves (loro/agraph, cli/graph.py).  How a run schedules and   *)
(* records its nodes is GraphRun's subject; here a run is what the policy  *)
(* and the plan make promises about.                                       *)
(*                                                                         *)
(* A document says for each node its kind, how it joins its predecessors,  *)
(* whether it has a condition of its own, its attempts, the most times its *)
(* body runs and how much of the body the plan sees, the nodes that stand  *)
(* in for it when it fails and the node that compensates for it, whether   *)
(* it holds a permission that needs a gate, and what else a policy could   *)
(* refuse.                                                                 *)
(***************************************************************************)
EXTENDS Naturals, FiniteSets

CONSTANTS
    GraphSources,      \* the graphs that may be in the file
    NoGraph,        \* no graph
    Drafts,         \* those among them that the generator compiles
    GraphPolicies,  \* managed policies: enabled, level, maxNodes, refuses, generation
    MaxExecutions,  \* max_node_executions
    MaxEdits        \* bounds how often somebody edits the file or asks for a draft

ASSUME GraphDocumentsAssumption ==
    /\ NoGraph \notin GraphSources /\ Drafts \subseteq GraphSources
    /\ \A g \in {h \in GraphSources : h.sound} :
          /\ IsFiniteSet(DOMAIN g.nodes)
          /\ \A e \in g.edges : e.from \in DOMAIN g.nodes /\ e.to \in DOMAIN g.nodes
          /\ \A n \in DOMAIN g.nodes : /\ g.nodes[n].attempts \in Nat \ {0}
                                       /\ g.nodes[n].width \in Nat /\ g.nodes[n].body \in Nat
                                       /\ g.nodes[n].hidden \in Nat
                                       /\ g.nodes[n].alternates \cup g.nodes[n].compensation
                                             \subseteq DOMAIN g.nodes

VARIABLES
    graphPolicy,    \* the managed policy
    graphFile,      \* the graph in the file, or none
    edits,          \* edits and drafts so far
    draft,          \* what the generator is doing
    graphRun        \* the run of the graph

graphDocumentsVars == <<graphPolicy, graphFile, edits, draft, graphRun>>

\* asShown: the graph that runs is the one whose plan was shown;
\* at: whose instructions are carried out for a node; ran: the nodes whose were;
\* executions: as _run_node counts them; tries: as the plan does, with attempts;
\* weighed and undoing: the nodes compensation has come to, and what it runs now.
NoGraphRun == [pc |-> "idle", shown |-> NoGraph, asShown |-> TRUE, graph |-> NoGraph,
               digest |-> NoGraph, forced |-> FALSE, status |-> NoGraph, at |-> NoGraph, ran |-> {},
               executions |-> 0, tries |-> 0, weighed |-> {}, undoing |-> {}]

GraphDocumentsInit ==
    /\ graphPolicy \in GraphPolicies
    /\ graphFile \in GraphSources \cup {NoGraph}
    /\ edits = 0
    /\ draft = [pc |-> "idle", attempt |-> 0]
    /\ graphRun = NoGraphRun

-----------------------------------------------------------------------------
\* effective_edges: the edges into a node.
Into(g, n) == {e \in g.edges : e.to = n}

Predecessors(g, n) == {e.from : e \in Into(g, n)}

\* A faulty GatePrecedes: any gate of the graph will do.
GateAnywhere(g, n) == \E m \in DOMAIN g.nodes : g.nodes[m].kind = "gate"

\* _has_gate_predecessor: some way back from the node meets a gate.
GatePrecedes(g, n) ==
    LET back[k \in 0 .. Cardinality(DOMAIN g.nodes)] ==
            IF k = 0 THEN Predecessors(g, n)
            ELSE back[k - 1] \cup UNION {Predecessors(g, m) : m \in back[k - 1]}
    IN \E m \in back[Cardinality(DOMAIN g.nodes)] : g.nodes[m].kind = "gate"

\* evaluate_policy, of the nodes at the top level of the document.
Denied(g) ==
    \/ ~graphPolicy.enabled
    \/ Cardinality(DOMAIN g.nodes) > graphPolicy.maxNodes
    \/ g.level > graphPolicy.level
    \/ \E n \in DOMAIN g.nodes :
          \/ g.nodes[n].asks \cap graphPolicy.refuses # {}
          \/ g.nodes[n].gated /\ ~GatePrecedes(g, n)

\* load_graph, validate_graph and the policy.
DraftAccepted == graphFile # NoGraph /\ graphFile.sound /\ ~Denied(graphFile)

\* The executions of some nodes, each node's numbered.
Executions(nodes, times) == UNION {{n} \X (1 .. times[n]) : n \in nodes}

\* Every attempt at a node, and in each the most passes through its body.  Of a
\* body behind a reference, and of alternates inside a body, it counts nothing:
\* they are hidden.
MostTimes(g) ==
    [n \in DOMAIN g.nodes |-> g.nodes[n].attempts * (1 + g.nodes[n].width * g.nodes[n].body)]

\* _worst_case: of all the nodes.
WorstCase(g) == Cardinality(Executions(DOMAIN g.nodes, MostTimes(g)))

-----------------------------------------------------------------------------
\* Somebody edits the file.
EditGraph(g) ==
    /\ edits < MaxEdits /\ g # graphFile
    /\ edits' = edits + 1 /\ graphFile' = g
    /\ UNCHANGED <<graphPolicy, draft, graphRun>>

\* The offline generator is governed by allow_generation.
BeginOffline ==
    /\ draft.pc = "idle" /\ graphPolicy.generation
    /\ edits < MaxEdits /\ edits' = edits + 1
    /\ draft' = [pc |-> "drafting", attempt |-> 1]
    /\ UNCHANGED <<graphPolicy, graphFile, graphRun>>

\* The one that asks the model is not, when it is started from the command line.
BeginWithModel ==
    /\ draft.pc = "idle"
    /\ edits < MaxEdits /\ edits' = edits + 1
    /\ draft' = [pc |-> "drafting", attempt |-> 1]
    /\ UNCHANGED <<graphPolicy, graphFile, graphRun>>

\* The model's answer is not a workflow: it is asked once more.
DraftUnusable ==
    /\ draft.pc = "drafting"
    /\ draft' = IF draft.attempt = 1 THEN [draft EXCEPT !.attempt = 2]
                ELSE [pc |-> "idle", attempt |-> 0]
    /\ UNCHANGED <<graphPolicy, graphFile, edits, graphRun>>

\* The draft is written before it is reviewed, over whatever was there.
WriteDraft(g) ==
    /\ draft.pc = "drafting" /\ graphFile' = g
    /\ draft' = [draft EXCEPT !.pc = "reviewing"]
    /\ UNCHANGED <<graphPolicy, edits, graphRun>>

\* What is refused is removed, and corrected once.
ReviewDraft ==
    /\ draft.pc = "reviewing"
    /\ IF DraftAccepted
       THEN draft' = [pc |-> "idle", attempt |-> 0] /\ UNCHANGED graphFile
       ELSE /\ graphFile' = NoGraph
            /\ draft' = IF draft.attempt = 1 THEN [pc |-> "drafting", attempt |-> 2]
                        ELSE [pc |-> "idle", attempt |-> 0]
    /\ UNCHANGED <<graphPolicy, edits, graphRun>>

-----------------------------------------------------------------------------
\* loro graph run: the plan and the digest are rendered for approval.
ShowPlan ==
    /\ graphRun.pc = "idle" /\ graphFile # NoGraph /\ graphFile.sound
    /\ graphRun' = [NoGraphRun EXCEPT !.pc = "asked", !.shown = graphFile]
    /\ UNCHANGED <<graphPolicy, graphFile, edits, draft>>

DeclinePlan ==
    /\ graphRun.pc = "asked"
    /\ graphRun' = NoGraphRun
    /\ UNCHANGED <<graphPolicy, graphFile, edits, draft>>

\* GraphExecutor.run loads the path again, checks it and consumes an approval
\* of the digest it finds.
StartApproved ==
    /\ graphRun.pc = "asked"
    /\ graphRun' = IF DraftAccepted
                   THEN [NoGraphRun EXCEPT !.pc = "running", !.graph = graphFile,
                             !.digest = graphFile, !.asShown = graphFile = graphRun.shown,
                             !.status = [n \in DOMAIN graphFile.nodes |-> "pending"],
                             !.at = [n \in DOMAIN graphFile.nodes |-> n]]
                   ELSE NoGraphRun
    /\ UNCHANGED <<graphPolicy, graphFile, edits, draft>>

Terminal == {"succeeded", "failed", "skipped", "blocked"}

\* ready_nodes: every predecessor has ended.
Due(n) ==
    /\ graphRun.pc = "running" /\ n \in DOMAIN graphRun.status
    /\ graphRun.status[n] = "pending"
    /\ \A m \in Predecessors(graphRun.graph, n) : graphRun.status[m] \in Terminal

ActiveEdges(n) ==
    {e \in Into(graphRun.graph, n) :
        graphRun.status[e.from] \in
            (IF e.kind = "on_failure" THEN {"failed", "blocked"} ELSE {"succeeded"})}

\* A node without predecessors begins only as an entrypoint.
NodesJoined(n) ==
    IF Into(graphRun.graph, n) = {} THEN n \in graphRun.graph.entries
    ELSE IF graphRun.graph.nodes[n].join = "any" THEN ActiveEdges(n) # {}
    ELSE ActiveEdges(n) = Into(graphRun.graph, n)

\* It is its turn in the run, or it compensates for another.
NodeBegins(n) ==
    \/ Due(n) /\ NodesJoined(n)
    \/ graphRun.pc = "compensating" /\ n \in graphRun.undoing

\* The instructions for it: its own or those of an alternate.
Instructions(n) == graphRun.graph.nodes[graphRun.at[n]]

Carries(n, kind) ==
    NodeBegins(n) /\ graphRun.executions < MaxExecutions /\ Instructions(n).kind = kind

CarriedOut(n, executions, tries) ==
    [graphRun EXCEPT !.ran = @ \cup {graphRun.at[n]}, !.executions = @ + executions,
                     !.tries = @ + tries]

NodeEnds(n, outcome, run) ==
    graphRun' = [run EXCEPT !.status[n] = outcome, !.at[n] = n, !.undoing = {}]

\* Nobody is there to answer: the run pauses when the others have ended; a
\* compensation goes on.
NodeWaits(n, run) ==
    \/ /\ graphRun.pc = "running"
       /\ \A m \in DOMAIN graphRun.at \ {n} : graphRun.at[m] = m
       /\ graphRun' = [run EXCEPT !.pc = "paused", !.at[n] = n, !.executions = 0, !.tries = 0]
    \/ graphRun.pc = "compensating" /\ NodeEnds(n, "awaiting_human", run)

\* Its edges do not let it begin, or its own condition does not hold.
SkipNode(n) ==
    /\ Due(n) /\ (NodesJoined(n) => graphRun.graph.nodes[n].conditional)
    /\ NodeEnds(n, "skipped", graphRun)
    /\ UNCHANGED <<graphPolicy, graphFile, edits, draft>>

\* _run_node refuses beyond the ceiling on executions.
RefuseNode(n) ==
    /\ NodeBegins(n) /\ graphRun.executions >= MaxExecutions
    /\ NodeEnds(n, "failed", graphRun)
    /\ UNCHANGED <<graphPolicy, graphFile, edits, draft>>

\* A task is tried until its criteria hold or its attempts are used up; when it
\* fails or is blocked, an alternate may be carried out in its stead.
RunTask(n) ==
    /\ Carries(n, "task")
    /\ \E tries \in 1 .. Instructions(n).attempts :
          LET run == CarriedOut(n, 1, tries)
          IN  \/ \E outcome \in Terminal : NodeEnds(n, outcome, run)
              \/ \E m \in Instructions(n).alternates : graphRun' = [run EXCEPT !.at[n] = m]
              \/ NodeWaits(n, run)
    /\ UNCHANGED <<graphPolicy, graphFile, edits, draft>>

\* A loop, map or subgraph: some of the passes it may make through its body.
RunBody(n) ==
    /\ Carries(n, "loop")
    /\ LET most == Instructions(n).width * (Instructions(n).body + Instructions(n).hidden)
       IN  \E tries \in 0 .. most, outcome \in {"succeeded", "failed"} :
             \E executions \in 0 .. tries :
              NodeEnds(n, outcome, CarriedOut(n, 1 + executions, 1 + tries))
    /\ UNCHANGED <<graphPolicy, graphFile, edits, draft>>

\* A gate is decided, or nobody is there.
RunGate(n) ==
    /\ Carries(n, "gate")
    /\ \/ \E outcome \in {"succeeded", "failed", "blocked"} :
             NodeEnds(n, outcome, CarriedOut(n, 1, 1))
       \/ NodeWaits(n, CarriedOut(n, 1, 1))
    /\ UNCHANGED <<graphPolicy, graphFile, edits, draft>>

\* The tokens, the cost or the time are used up: what is pending is blocked.
ExceedBudget ==
    /\ graphRun.pc = "running" /\ \A n \in DOMAIN graphRun.at : graphRun.at[n] = n
    /\ graphRun' = [graphRun EXCEPT
                       !.pc = "compensating",
                       !.status = [n \in DOMAIN graphRun.status |->
                                      IF graphRun.status[n] = "pending" THEN "blocked"
                                      ELSE graphRun.status[n]]]
    /\ UNCHANGED <<graphPolicy, graphFile, edits, draft>>

\* Every node has ended: a run that failed is compensated.
FinishNodes ==
    /\ graphRun.pc = "running" /\ \A n \in DOMAIN graphRun.status : graphRun.status[n] \in Terminal
    /\ graphRun' = IF \E n \in DOMAIN graphRun.status : graphRun.status[n] \in {"failed", "blocked"}
                   THEN [graphRun EXCEPT !.pc = "compensating"] ELSE NoGraphRun
    /\ UNCHANGED <<graphPolicy, graphFile, edits, draft>>

\* _compensate comes to the nodes against their order.
WeighNode(n) ==
    /\ graphRun.pc = "compensating" /\ graphRun.undoing = {} /\ n \notin graphRun.weighed
    /\ \A e \in graphRun.graph.edges : e.from = n => e.to \in graphRun.weighed
    /\ graphRun' = [graphRun EXCEPT
                       !.weighed = @ \cup {n},
                       !.undoing = IF graphRun.status[n] = "succeeded"
                                   THEN graphRun.graph.nodes[n].compensation ELSE {}]
    /\ UNCHANGED <<graphPolicy, graphFile, edits, draft>>

\* loro graph resume: a changed digest is refused.
ResumeRun ==
    /\ graphRun.pc = "paused" /\ DraftAccepted /\ graphFile = graphRun.digest
    /\ graphRun' = [graphRun EXCEPT !.pc = "running"]
    /\ UNCHANGED <<graphPolicy, graphFile, edits, draft>>

\* With --force the new digest is approved; the record keeps the nodes of the
\* old one, so a graph with other nodes stops the run.
ForceResume ==
    /\ graphRun.pc = "paused" /\ DraftAccepted
    /\ graphRun' = IF DOMAIN graphFile.nodes = DOMAIN graphRun.status
                   THEN [graphRun EXCEPT !.pc = "running", !.graph = graphFile,
                             !.digest = graphFile, !.forced = TRUE]
                   ELSE [graphRun EXCEPT !.digest = graphFile]
    /\ UNCHANGED <<graphPolicy, graphFile, edits, draft>>

\* The record of the run is saved with its end.
EndRun ==
    /\ graphRun.pc = "compensating" /\ graphRun.undoing = {}
    /\ graphRun.weighed = DOMAIN graphRun.status
    /\ graphRun' = NoGraphRun
    /\ UNCHANGED <<graphPolicy, graphFile, edits, draft>>

\* The process ends at any point, or nobody resumes the run.
GiveUpRun ==
    /\ graphRun.pc \in {"running", "paused", "compensating"}
    /\ graphRun' = NoGraphRun
    /\ UNCHANGED <<graphPolicy, graphFile, edits, draft>>

GraphDocumentsNext ==
    \/ \E g \in GraphSources \cup {NoGraph} : EditGraph(g)
    \/ BeginOffline \/ BeginWithModel \/ DraftUnusable \/ ReviewDraft
    \/ \E g \in Drafts : WriteDraft(g)
    \/ ShowPlan \/ DeclinePlan \/ StartApproved \/ ResumeRun \/ ForceResume \/ GiveUpRun
    \/ ExceedBudget \/ FinishNodes \/ EndRun
    \/ graphRun.pc \in {"running", "compensating"} /\ \E n \in DOMAIN graphRun.status :
          SkipNode(n) \/ RefuseNode(n) \/ RunTask(n) \/ RunBody(n) \/ RunGate(n) \/ WeighNode(n)

GraphDocumentsSpec == GraphDocumentsInit /\ [][GraphDocumentsNext]_graphDocumentsVars

-----------------------------------------------------------------------------
RunActive == graphRun.pc \in {"running", "paused", "compensating"} /\ ~graphRun.forced

\* The nodes that may be carried out outside their turn.
Recoveries(g) ==
    UNION {g.nodes[n].alternates \cup g.nodes[n].compensation : n \in DOMAIN g.nodes}

\* The graphs for which the policy's search settles the matter: every edge is a
\* sequence, every join waits for all, and neither a gate nor a node that needs
\* one stands in or compensates for another.
Sequential(g) ==
    /\ \A e \in g.edges : e.kind = "sequence"
    /\ \A n \in DOMAIN g.nodes : g.nodes[n].join = "all"
    /\ \A n \in Recoveries(g) : g.nodes[n].kind # "gate" /\ ~g.nodes[n].gated

\* Those of which the plan counts all that may run.
Counted(g) == Recoveries(g) = {} /\ \A n \in DOMAIN g.nodes : g.nodes[n].hidden = 0

\* In a sequential graph a node of the top level that holds a permission which
\* needs a gate is carried out only after a gate was passed (LP005 of
\* evaluate_policy, with the scheduling of ready_nodes), also when alternates and
\* compensations of other nodes run.  A compensation that needs a gate itself runs
\* without one, and an alternate runs out of its turn.
GatesHold ==
    RunActive /\ Sequential(graphRun.graph) =>
        \A n \in graphRun.ran : graphRun.graph.nodes[n].gated =>
            \E m \in DOMAIN graphRun.status :
                graphRun.graph.nodes[m].kind = "gate" /\ graphRun.status[m] = "succeeded"

\* From a start or a resume to the next pause or the end, a run makes no more
\* tries than the plan announced as its worst case, whatever is retried and
\* however often its loops go round (_worst_case).  The plan counts each node in
\* its own turn, and nothing of what is hidden in a body: with either the run may
\* make more.
WithinWorstCase ==
    RunActive /\ Counted(graphRun.graph) => graphRun.tries <= WorstCase(graphRun.graph)

\* What a plan promises the one who approves it: its gates and its worst case.
PlanHolds == GatesHold /\ WithinWorstCase

\* What runs is the graph whose plan and digest were approved ("Approve this
\* exact graph digest for execution?", cli/graph.py).
ApprovedGraphRuns == RunActive => graphRun.asShown
=============================================================================
