------------------------------ MODULE GraphRun ------------------------------
(***************************************************************************)
(* loro/agraph: one Agentic Graph run.  GraphExecutor schedules the nodes  *)
(* of the graph in waves, runs the nodes of a wave on threads of a pool,   *)
(* and saves the run record after each outcome it merges; a composite node *)
(* runs its fragment with the same scheduler, in memory only.  A run       *)
(* pauses at human gates, stops at its budget, compensates when it fails,  *)
(* and is resumed from the saved record after a pause, a failure or a      *)
(* crash of the process.                                                   *)
(*                                                                         *)
(* A scope is the graph (Top) or a fragment, named by its composite node.  *)
(* What a node's own work does is one of the outcomes MayReturn gives it;  *)
(* the value of a `when` is chosen once for the whole run.  Fragments      *)
(* are inline, body or use fragments, which the schema gives no            *)
(* constraints: they run one node at a time.                               *)
(***************************************************************************)
EXTENDS Integers, Sequences, FiniteSets, SequencesExt

CONSTANTS
    Top,            \* the scope of the graph itself
    NoNode,
    NoGroup,
    Order,          \* the nodes in topological_order, a fragment's after its composite node
    Parent,         \* the scope of a node
    Kind,           \* "task", "decision", "gate", "subgraph", "loop" or "map"
    Mode,           \* mode of a loop, mode of a gate, on_item_failure of a map
    Edges,          \* effective_edges: [from, to, kind]
    Entrypoints,
    JoinCount,      \* active edges a node needs: join and join_count
    WhenNodes,      \* nodes that have a `when`
    WhenEdges,      \* edges that have a `when`
    Group,          \* constraints.concurrency_group
    Compensation,   \* failure.compensation
    MayReturn,      \* outcomes of a node's work, and of a gate's provider
    ParallelLimit,  \* _parallel_limit of the graph
    MaxExecutions,  \* max_node_executions
    MaxDepth,       \* max_subgraph_depth
    MaxIterations,  \* max_iterations of the loops
    MapItems,       \* numbers of items a map may find
    MinSuccesses,   \* min_successes of the maps
    UsageLimit,     \* cost or token limit, in recorded attempts
    WallLimited,    \* the graph has max_wall_clock_seconds
    MaxStarts,      \* bound on starts and resumes
    MaxCrashes      \* bound on crashes

Nodes    == ToSet(Order)
Position == [n \in Nodes |-> CHOOSE i \in DOMAIN Order : Order[i] = n]
Before(m, n) == Position[m] < Position[n]
Earliest(nodes) == CHOOSE n \in nodes : \A m \in nodes : Position[n] <= Position[m]
Latest(nodes) == CHOOSE n \in nodes : \A m \in nodes : Position[m] <= Position[n]

Inside(s) == {n \in Nodes : Parent[n] = s}
Composites == {n \in Nodes : Kind[n] \in {"subgraph", "loop", "map"}}
Modes    == {"repeat", "while", "until", "role", "notify", "approve", "input",
             "fail_fast", "continue", "threshold", "none"}
Scopes   == {Top} \union Composites

Terminal == {"succeeded", "failed", "skipped", "blocked"}
Outcomes == Terminal \union {"awaiting_human"}
NodeRecord == [status : Outcomes \union {"pending", "running"}, attempts : {0, 1}]
Result == [status : Outcomes \union {"raised", "none"}, ran : BOOLEAN]

ASSUME GraphAssumption ==
    /\ Order \in Seq(Nodes) /\ \A i, j \in DOMAIN Order : Order[i] = Order[j] => i = j
    /\ Top \notin Nodes /\ NoNode \notin Nodes
    /\ Parent \in [Nodes -> Scopes]
    /\ \A n \in Nodes : Parent[n] # Top => Before(Parent[n], n)
    /\ Entrypoints \subseteq Nodes
    /\ Mode \in [Nodes -> Modes]
    /\ IsFiniteSet(Edges)
    /\ \A e \in Edges : /\ e.from \in Nodes /\ e.to \in Nodes
                        /\ Parent[e.from] = Parent[e.to] /\ Before(e.from, e.to)
    /\ JoinCount \in [Nodes -> Nat]
    /\ Compensation \in [Nodes -> Nodes \union {NoNode}]
    /\ \A n \in Nodes : Compensation[n] # NoNode => Parent[Compensation[n]] = Parent[n]
    /\ MayReturn \in [Nodes -> SUBSET (Outcomes \union {"raised"})]
    /\ ParallelLimit \in Nat \ {0} /\ MaxDepth \in Nat /\ MaxIterations \in Nat
    /\ MapItems \subseteq Nat /\ MinSuccesses \in Nat
    /\ MaxExecutions \in Nat /\ UsageLimit \in Nat /\ WallLimited \in BOOLEAN
    /\ MaxStarts \in Nat /\ MaxCrashes \in Nat

VARIABLES
    disk,          \* the run record in GraphRunStore
    phase,         \* where _execute_scope stands, per scope
    rec,           \* the records' nodes in memory, fragments' included
    skips,         \* nodes ready_nodes marked skipped, in states only
    wave,          \* runnable nodes whose outcome is still to be merged
    thread,        \* the pool's thread of a node
    result,        \* what _run_node returned
    iter,          \* _loop_state, and the iterations of the record's nodes
    items,         \* the items a map has left, and how many succeeded
    depth,         \* _subgraph_depth
    executions,
    budgetFailed,
    undo,          \* nodes _compensate has still to visit
    provider,      \* a gate provider is set
    forced,        \* the resume was forced, and its approval given
    nodeWhen,      \* the value of each node's `when`
    edgeWhen,      \* the value of each edge's `when`
    starts,
    crashes,
    runs,          \* history: how often a node's work was begun
    completed,     \* history: nodes whose work succeeded
    unrecorded     \* history: nodes begun whose outcome no record holds

exec    == <<phase, rec, skips, wave, thread, result, iter, items, depth, executions,
             budgetFailed, undo>>
control == <<provider, forced, nodeWhen, edgeWhen, starts, crashes>>
history == <<runs, completed, unrecorded>>
vars    == <<disk, exec, control, history>>

NoRun    == [status |-> "none"]
Pending  == [status |-> "pending", attempts |-> 0]
NoResult == [status |-> "none", ran |-> FALSE]
NoItems  == [left |-> 0, won |-> 0]

Init ==
    /\ disk = NoRun
    /\ phase = [s \in Scopes |-> "off"]
    /\ rec = [n \in Nodes |-> Pending]
    /\ skips = {}
    /\ wave = [s \in Scopes |-> {}]
    /\ thread = [n \in Nodes |-> "off"]
    /\ result = [n \in Nodes |-> NoResult]
    /\ iter = [n \in Nodes |-> 0]
    /\ items = [n \in Nodes |-> NoItems]
    /\ depth = 0
    /\ executions = 0
    /\ budgetFailed = FALSE
    /\ undo = {}
    /\ provider = FALSE
    /\ forced = FALSE
    /\ nodeWhen \in [WhenNodes -> BOOLEAN]
    /\ edgeWhen \in [WhenEdges -> BOOLEAN]
    /\ starts = 0
    /\ crashes = 0
    /\ runs = [n \in Nodes |-> 0]
    /\ completed = {}
    /\ unrecorded = {}

\* The process ends, or dies, and its memory with it.
EndProcess ==
    /\ phase' = [s \in Scopes |-> "off"]
    /\ rec' = [n \in Nodes |-> Pending]
    /\ skips' = {}
    /\ wave' = [s \in Scopes |-> {}]
    /\ thread' = [n \in Nodes |-> "off"]
    /\ result' = [n \in Nodes |-> NoResult]
    /\ iter' = [n \in Nodes |-> 0]
    /\ items' = [n \in Nodes |-> NoItems]
    /\ depth' = 0
    /\ executions' = 0
    /\ budgetFailed' = FALSE
    /\ undo' = {}

-----------------------------------------------------------------------------
(* schedule.py: ready_nodes. *)

StateIn(sk, n) == IF n \in sk THEN "skipped" ELSE rec[n].status

Incoming(n) == {e \in Edges : e.to = n}
Resolved(sk, n) == \A e \in Incoming(n) : StateIn(sk, e.from) \in Terminal

\* Faulty variant: any outcome of the source lets an edge run.
ActiveTerminal(sk, e) == StateIn(sk, e.from) \in Terminal

Active(sk, e) ==
    /\ StateIn(sk, e.from) \in (IF e.kind = "on_failure" THEN {"failed", "blocked"}
                                                         ELSE {"succeeded"})
    /\ e \in WhenEdges => edgeWhen[e]

Joined(sk, n) ==
    IF Incoming(n) = {} THEN n \in Entrypoints
    ELSE Cardinality({e \in Incoming(n) : Active(sk, e)}) >= JoinCount[n]

PendingIn(s, sk) == {n \in Inside(s) : StateIn(sk, n) = "pending"}

\* One pass in topological order marks the nodes that can no longer run.  Edges go forward
\* in that order, so exactly one set of marks is what the pass leaves.
Markings(s) ==
    {sk \in {skips \union more : more \in SUBSET PendingIn(s, skips)} :
        \A n \in PendingIn(s, skips) : n \in sk <=> Resolved(sk, n) /\ ~Joined(sk, n)}

ReadyNodes(s, sk) == {n \in PendingIn(s, sk) : Resolved(sk, n) /\ Joined(sk, n)}

-----------------------------------------------------------------------------
(* _execute_scope: choosing a wave. *)

Limit(s) == IF s = Top THEN ParallelLimit ELSE 1
Candidates(s, sk) ==
    LET ready == ReadyNodes(s, sk)
    IN {n \in ready : Cardinality({m \in ready : Before(m, n)}) < Limit(s)}

WhenHolds(n) == n \in WhenNodes => nodeWhen[n]

\* The first candidate of a concurrency group runs; the others wait.
Runnable(cands) ==
    {n \in cands :
        /\ WhenHolds(n)
        /\ Group[n] # NoGroup =>
              \A m \in cands : Before(m, n) /\ WhenHolds(m) => Group[m] # Group[n]}

Schedule(s) ==
    /\ phase[s] = "schedule"
    /\ skips' \in Markings(s)
    /\ LET cands == Candidates(s, skips')
           chosen == Runnable(cands)
       IN IF cands = {}
          THEN /\ phase' = [phase EXCEPT ![s] = "done"]
               /\ UNCHANGED <<rec, wave, thread>>
          ELSE /\ rec' = [n \in Nodes |-> IF n \in cands /\ ~WhenHolds(n)
                                          THEN [rec[n] EXCEPT !.status = "skipped"]
                                          ELSE rec[n]]
               /\ wave' = [wave EXCEPT ![s] = chosen]
               /\ thread' = [n \in Nodes |-> IF n \in chosen THEN "queued" ELSE thread[n]]
               /\ phase' = [phase EXCEPT ![s] = IF chosen = {} THEN "schedule" ELSE "wave"]
    /\ UNCHANGED <<disk, result, iter, items, depth, executions, budgetFailed, undo,
                   control, history>>

-----------------------------------------------------------------------------
(* _run_node, on the node's thread. *)

Returns(n, status, ran) ==
    /\ thread' = [thread EXCEPT ![n] = "returned"]
    /\ result' = [result EXCEPT ![n] = [status |-> status, ran |-> ran]]

\* Faulty variant: _execution_lock is held while the node runs, not only counted.
AdmitLocked(n) ==
    /\ thread[n] = "queued"
    /\ \A m \in Nodes : thread[m] \notin {"working", "entering", "fragment"}
    /\ executions < MaxExecutions
    /\ executions' = executions + 1

Admit(n) ==
    /\ thread[n] = "queued"
    /\ executions < MaxExecutions
    /\ executions' = executions + 1

Exhausted(n) ==
    /\ thread[n] = "queued"
    /\ executions = MaxExecutions
    /\ Returns(n, "failed", FALSE)
    /\ UNCHANGED <<disk, phase, rec, skips, wave, iter, items, depth, executions,
                   budgetFailed, undo, control, history>>

\* Nodes that run a model; a decision records no attempt, so no usage.
Works(n) == Kind[n] \in {"task", "decision"}

\* A requirement is missing, or a checkpoint before the work is not approved.
Refrain(n) ==
    /\ Works(n)
    /\ Admit(n)
    /\ \E status \in MayReturn[n] \intersect {"blocked", "awaiting_human"} :
          Returns(n, status, FALSE)
    /\ UNCHANGED <<disk, phase, rec, skips, wave, iter, items, depth, budgetFailed,
                   undo, control, history>>

\* The runtime starts: from here on the node may have had effects.
Begin(n) ==
    /\ Works(n)
    /\ Admit(n)
    /\ thread' = [thread EXCEPT ![n] = "working"]
    /\ runs' = [runs EXCEPT ![n] = @ + 1]
    /\ unrecorded' = unrecorded \union {n}
    /\ UNCHANGED <<disk, phase, rec, skips, wave, result, iter, items, depth,
                   budgetFailed, undo, control, completed>>

End(n) ==
    /\ thread[n] = "working"
    /\ \E status \in MayReturn[n] :
          /\ Returns(n, status, Kind[n] = "task")
          /\ completed' = IF status = "succeeded" THEN completed \union {n} ELSE completed
    /\ UNCHANGED <<disk, phase, rec, skips, wave, iter, items, depth, executions,
                   budgetFailed, undo, control, runs, unrecorded>>

\* _run_gate: a role is missing, the gate only notifies, the provider answers
\* (without the input it asks for, or with an approval that is refused), or
\* there is no provider and the gate waits for a person.
GateReturns(n) ==
    CASE Mode[n] = "role"   -> {"blocked"}
      [] Mode[n] = "notify" -> {"succeeded"}
      [] OTHER              -> IF provider THEN MayReturn[n] ELSE {"awaiting_human"}

Gate(n) ==
    /\ Kind[n] = "gate"
    /\ Admit(n)
    /\ \E status \in GateReturns(n) : Returns(n, status, FALSE)
    /\ UNCHANGED <<disk, phase, rec, skips, wave, iter, items, depth, budgetFailed,
                   undo, control, history>>

-----------------------------------------------------------------------------
(* _run_composite and _run_fragment. *)

\* A new fragment record: every node of the fragment is pending.
OpenFragment(n) ==
    /\ phase' = [phase EXCEPT ![n] = "schedule"]
    /\ rec' = [m \in Nodes |-> IF Parent[m] = n THEN Pending ELSE rec[m]]
    /\ skips' = skips \ Inside(n)
    /\ thread' = [thread EXCEPT ![n] = "fragment"]

EnterSubgraph(n) ==
    /\ Kind[n] = "subgraph"
    /\ Admit(n)
    /\ IF depth >= MaxDepth
       THEN Returns(n, "failed", FALSE)
       ELSE thread' = [thread EXCEPT ![n] = "entering"] /\ UNCHANGED result
    /\ UNCHANGED <<disk, phase, rec, skips, wave, iter, items, depth, budgetFailed,
                   undo, control, history>>

Descend(n) ==
    /\ thread[n] = "entering"
    /\ depth' = depth + 1
    /\ OpenFragment(n)
    /\ UNCHANGED <<disk, wave, result, iter, items, executions, budgetFailed, undo,
                   control, history>>

LoopReturns(n, status) ==
    /\ Returns(n, status, FALSE)
    /\ phase' = [phase EXCEPT ![n] = "off"]
    /\ UNCHANGED <<rec, skips>>

\* The head of the loop: its iterations are consumed, its while condition is
\* false, or the body runs once more.
NextIteration(n) ==
    \/ /\ iter'[n] >= MaxIterations
       /\ LoopReturns(n, IF Mode[n] = "repeat" THEN "succeeded" ELSE "failed")
    \/ /\ iter'[n] < MaxIterations /\ Mode[n] = "while"
       /\ LoopReturns(n, "succeeded")
    \/ /\ iter'[n] < MaxIterations
       /\ OpenFragment(n)
       /\ UNCHANGED result

EnterLoop(n) ==
    /\ Kind[n] = "loop"
    /\ Admit(n)
    /\ UNCHANGED iter
    /\ NextIteration(n)
    /\ UNCHANGED <<disk, wave, items, depth, budgetFailed, undo, control, history>>

FragmentFailed(n) == \E m \in Inside(n) : rec[m].status = "failed"

FragmentOver(n) == phase[n] = "done"

\* _record_iterations.
Counted(n) == [iter EXCEPT ![n] = @ + 1]

\* The fragment is over: its outcome is the node's.
LeaveSubgraph(n) ==
    /\ Kind[n] = "subgraph"
    /\ FragmentOver(n)
    /\ depth' = depth - 1
    /\ Returns(n, IF FragmentFailed(n) THEN "failed" ELSE "succeeded", FALSE)
    /\ phase' = [phase EXCEPT ![n] = "off"]
    /\ UNCHANGED <<disk, rec, skips, wave, iter, items, executions, budgetFailed, undo,
                   control, history>>

\* An exception of the fragment passes through its node.
LeaveRaised(n) ==
    /\ n \in Composites
    /\ phase[n] = "raised"
    /\ depth' = IF Kind[n] = "subgraph" THEN depth - 1 ELSE depth
    /\ Returns(n, "raised", FALSE)
    /\ phase' = [phase EXCEPT ![n] = "off"]
    /\ UNCHANGED <<disk, rec, skips, wave, iter, items, executions, budgetFailed, undo,
                   control, history>>

LeaveIteration(n) ==
    /\ Kind[n] = "loop"
    /\ FragmentOver(n)
    /\ iter' = Counted(n)
    /\ \/ /\ FragmentFailed(n)
          /\ LoopReturns(n, "failed")
       \/ /\ ~FragmentFailed(n) /\ Mode[n] = "until"
          /\ LoopReturns(n, "succeeded")
       \/ /\ ~FragmentFailed(n)
          /\ NextIteration(n)
    /\ UNCHANGED <<disk, wave, items, depth, executions, budgetFailed, undo, control,
                   history>>

\* The items of a map are used up, or the body runs for the next one.
NextItem(n) ==
    \/ /\ items'[n].left = 0
       /\ LoopReturns(n, IF Mode[n] = "threshold" /\ items'[n].won < MinSuccesses
                         THEN "failed" ELSE "succeeded")
    \/ /\ items'[n].left > 0
       /\ OpenFragment(n)
       /\ UNCHANGED result

\* The value mapped over is no list or too long, or it has that many items.
EnterMap(n) ==
    /\ Kind[n] = "map"
    /\ Admit(n)
    /\ \/ Returns(n, "failed", FALSE) /\ UNCHANGED <<phase, rec, skips, items>>
       \/ \E count \in MapItems :
             /\ items' = [items EXCEPT ![n] = [left |-> count, won |-> 0]]
             /\ NextItem(n)
    /\ UNCHANGED <<disk, wave, iter, depth, budgetFailed, undo, control, history>>

LeaveItem(n) ==
    /\ Kind[n] = "map"
    /\ FragmentOver(n)
    /\ items' = [items EXCEPT ![n] = [left |-> @.left - 1,
                     won |-> IF FragmentFailed(n) THEN @.won ELSE @.won + 1]]
    /\ \/ /\ FragmentFailed(n) /\ Mode[n] = "fail_fast"
          /\ LoopReturns(n, "failed")
       \/ /\ FragmentFailed(n) => Mode[n] # "fail_fast"
          /\ NextItem(n)
    /\ UNCHANGED <<disk, wave, iter, depth, executions, budgetFailed, undo, control,
                   history>>

-----------------------------------------------------------------------------
(* _execute_scope: merging the outcomes of a wave. *)

Joinable(s) ==
    /\ phase[s] = "wave"
    /\ \A n \in wave[s] : thread[n] = "returned"

\* The nodes whose outcome an outcome of n stands for: n and all that is inside it.
Fragments ==
    [n \in Nodes |-> {m \in Nodes : \A S \in SUBSET Nodes :
        n \in S /\ (\A x \in Nodes : Parent[x] \in S => x \in S) => m \in S}]
Within(n) == Fragments[n]

Merged(n) ==
    [rec EXCEPT ![n] = [status |-> result[n].status,
                        attempts |-> IF result[n].ran THEN 1 ELSE @.attempts]]

Usage(s, nodes) == Cardinality({n \in Inside(s) : nodes[n].attempts = 1})

\* _budget_exceeded: only the graph's own record is held to the wall clock.
Exceeded(s, nodes) ==
    IF Usage(s, nodes) > UsageLimit THEN {TRUE}
    ELSE IF s = Top /\ WallLimited THEN BOOLEAN ELSE {FALSE}

\* Faulty variant: the iterations of the loops stay in memory.
SavedWithoutIter(status, nodes) ==
    [status |-> status,
     nodes |-> [n \in Inside(Top) |-> nodes[n]],
     iter |-> [n \in Inside(Top) |-> 0]]

SavedRecord(status, nodes) ==
    [status |-> status,
     nodes |-> [n \in Inside(Top) |-> nodes[n]],
     iter |-> [n \in Inside(Top) |-> iter[n]]]

\* Faulty variant: only the end of the run is saved.
SaveAtEnd(s, n) == UNCHANGED <<disk, unrecorded>>

\* store.save after each outcome; a fragment record has no run id.
SaveMerged(s, n) ==
    IF s = Top
    THEN /\ disk' = SavedRecord("running", Merged(n))
         /\ unrecorded' = unrecorded \ Within(n)
    ELSE UNCHANGED <<disk, unrecorded>>

Dismiss(s) == /\ wave' = [wave EXCEPT ![s] = {}]
              /\ thread' = [n \in Nodes |-> IF Parent[n] = s THEN "off" ELSE thread[n]]

\* The outcome asks for a person: the scope returns at once.
Pause(s) ==
    /\ rec' = Merged(Earliest(wave[s]))
    /\ result[Earliest(wave[s])].status = "awaiting_human"
    /\ Dismiss(s)
    /\ phase' = [phase EXCEPT ![s] = "done"]
    /\ UNCHANGED budgetFailed

\* The budget is exceeded: what is still pending is blocked.  A fragment record
\* has no diagnostics to append to, and the exception leaves the scope.
StopAtBudget(s) ==
    LET merged == Merged(Earliest(wave[s]))
    IN /\ result[Earliest(wave[s])].status # "awaiting_human"
       /\ TRUE \in Exceeded(s, merged)
       /\ rec' = [n \in Nodes |->
                    IF s = Top /\ Parent[n] = Top /\ n \notin skips
                       /\ merged[n].status = "pending"
                    THEN [merged[n] EXCEPT !.status = "blocked"] ELSE merged[n]]
       /\ Dismiss(s)
       /\ phase' = [phase EXCEPT ![s] = IF s = Top THEN "done" ELSE "raised"]
       /\ budgetFailed' = TRUE

Continue(s) ==
    LET n == Earliest(wave[s])
        rest == wave[s] \ {n}
    IN /\ result[n].status # "awaiting_human"
       /\ FALSE \in Exceeded(s, Merged(n))
       /\ rec' = Merged(n)
       /\ wave' = [wave EXCEPT ![s] = rest]
       /\ thread' = [thread EXCEPT ![n] = "off"]
       /\ phase' = [phase EXCEPT ![s] = IF rest = {} THEN "schedule" ELSE "wave"]
       /\ UNCHANGED budgetFailed

Merge(s) ==
    /\ Joinable(s)
    /\ \A n \in wave[s] : result[n].status # "raised"
    /\ SaveMerged(s, Earliest(wave[s]))
    /\ Pause(s) \/ StopAtBudget(s) \/ Continue(s)
    /\ UNCHANGED <<skips, result, iter, items, depth, executions, undo, control, runs,
                   completed>>

\* future.result() raises in the scheduler's thread, when the pool has drained.
RaiseInFragment(s) ==
    /\ s # Top
    /\ Joinable(s)
    /\ \E n \in wave[s] : result[n].status = "raised"
    /\ phase' = [phase EXCEPT ![s] = "raised"]
    /\ Dismiss(s)
    /\ UNCHANGED <<disk, rec, skips, result, iter, items, depth, executions,
                   budgetFailed, undo, control, history>>

-----------------------------------------------------------------------------
(* The end of _execute_document, and _compensate. *)

TopStatuses == {rec[n].status : n \in Inside(Top)}

\* Faulty variant: a blocked node does not fail the run.
RunFailedOnly == budgetFailed \/ "failed" \in TopStatuses

RunFailed == budgetFailed \/ TopStatuses \intersect {"failed", "blocked"} # {}

FinalSave(status) ==
    /\ disk' = SavedRecord(status, rec)
    /\ EndProcess
    /\ UNCHANGED <<control, runs, completed>>

Finish ==
    /\ phase[Top] = "done"
    /\ \/ "awaiting_human" \in TopStatuses /\ FinalSave("awaiting_human")
       \/ "awaiting_human" \notin TopStatuses /\ ~RunFailed /\ FinalSave("succeeded")
    /\ UNCHANGED unrecorded

StartCompensation ==
    /\ phase[Top] = "done"
    /\ "awaiting_human" \notin TopStatuses /\ RunFailed
    /\ phase' = [phase EXCEPT ![Top] = "compensate"]
    /\ undo' = Inside(Top)
    /\ UNCHANGED <<disk, rec, skips, wave, thread, result, iter, items, depth,
                   executions, budgetFailed, control, history>>

\* Faulty variant: the nodes that failed are compensated.
NeedsCompensationFailed(n) == rec[n].status = "failed" /\ Compensation[n] # NoNode

NeedsCompensation(n) == rec[n].status = "succeeded" /\ Compensation[n] # NoNode

PassOver ==
    /\ phase[Top] = "compensate" /\ undo # {}
    /\ ~NeedsCompensation(Latest(undo))
    /\ undo' = undo \ {Latest(undo)}
    /\ UNCHANGED <<disk, phase, rec, skips, wave, thread, result, iter, items, depth,
                   executions, budgetFailed, control, history>>

\* _run_node of the compensation, whose outcome is merged but not saved.
Compensate ==
    /\ phase[Top] = "compensate" /\ undo # {}
    /\ NeedsCompensation(Latest(undo))
    /\ undo' = undo \ {Latest(undo)}
    /\ LET target == Compensation[Latest(undo)]
           returns(statuses, attempts) ==
               \E status \in statuses :
                   rec' = [rec EXCEPT ![target] = [status |-> status, attempts |-> attempts]]
       IN \/ /\ executions < MaxExecutions
             /\ executions' = executions + 1
             /\ runs' = [runs EXCEPT ![target] = @ + 1]
             /\ unrecorded' = unrecorded \union {target}
             /\ returns(MayReturn[target] \ {"raised"}, 1)
          \/ /\ executions < MaxExecutions
             /\ executions' = executions + 1
             /\ returns(MayReturn[target] \intersect {"blocked", "awaiting_human"},
                        rec[target].attempts)
             /\ UNCHANGED <<runs, unrecorded>>
          \/ /\ executions = MaxExecutions
             /\ returns({"failed"}, rec[target].attempts)
             /\ UNCHANGED <<executions, runs, unrecorded>>
    /\ UNCHANGED <<disk, phase, skips, wave, thread, result, iter, items, depth,
                   budgetFailed, control, completed>>

\* An exception of a node of the graph, or of a compensation, leaves the executor,
\* which has not saved the wave, or the compensations before it.
Abandon ==
    /\ \/ /\ Joinable(Top)
          /\ \E n \in wave[Top] : result[n].status = "raised"
       \/ /\ phase[Top] = "compensate" /\ undo # {}
          /\ NeedsCompensation(Latest(undo))
          /\ "raised" \in MayReturn[Compensation[Latest(undo)]]
    /\ EndProcess
    /\ UNCHANGED <<disk, control, history>>

FinishFailed ==
    /\ phase[Top] = "compensate" /\ undo = {}
    /\ FinalSave("failed")
    /\ unrecorded' = unrecorded \ {Compensation[n] : n \in Nodes}

-----------------------------------------------------------------------------
(* GraphExecutor.run and resume, and crashes. *)

Stopped == phase[Top] = "off"

BeginProcess ==
    /\ Stopped
    /\ starts < MaxStarts
    /\ starts' = starts + 1
    /\ provider' \in BOOLEAN
    /\ phase' = [phase EXCEPT ![Top] = "schedule"]
    /\ UNCHANGED <<skips, wave, thread, result, items, depth, executions, budgetFailed,
                   undo, nodeWhen, edgeWhen, crashes, history>>

\* The plan is approved, the record saved, the document executed.
Run ==
    /\ disk = NoRun
    /\ BeginProcess
    /\ disk' = SavedRecord("running", rec)
    /\ UNCHANGED <<rec, iter, forced>>

Uncertain == {n \in Inside(Top) : disk.nodes[n].status = "running"}

\* Faulty variants: every node, or every failed node, is tried again; a waiting
\* node gets a status the schema does not know.
ResumedAll(node)    == [node EXCEPT !.status = "pending"]
ResumedFailed(node) == IF node.status \in {"awaiting_human", "failed"}
                       THEN [node EXCEPT !.status = "pending"] ELSE node
ResumedReady(node)  == IF node.status = "awaiting_human"
                       THEN [node EXCEPT !.status = "ready"] ELSE node

\* A record of any status is resumed; a waiting node is tried again.
Resumed(node) == IF node.status = "awaiting_human" THEN [node EXCEPT !.status = "pending"]
                                                   ELSE node

Resume ==
    /\ disk # NoRun
    /\ \E force \in BOOLEAN : /\ Uncertain # {} => force
                              /\ forced' = force
    /\ BeginProcess
    /\ rec' = [n \in Nodes |-> IF Parent[n] = Top THEN Resumed(disk.nodes[n]) ELSE Pending]
    /\ iter' = [n \in Nodes |-> IF Parent[n] = Top THEN disk.iter[n] ELSE 0]
    /\ UNCHANGED disk

\* The process dies: the saved record is all that is left of the run.
Crash ==
    /\ ~Stopped
    /\ crashes < MaxCrashes
    /\ crashes' = crashes + 1
    /\ EndProcess
    /\ UNCHANGED <<disk, provider, forced, nodeWhen, edgeWhen, starts, history>>

NodeStep(n) ==
    \/ Exhausted(n)
    \/ Refrain(n)
    \/ Begin(n)
    \/ End(n)
    \/ Gate(n)
    \/ EnterSubgraph(n)
    \/ Descend(n)
    \/ EnterLoop(n)
    \/ LeaveSubgraph(n)
    \/ LeaveRaised(n)
    \/ LeaveIteration(n)
    \/ EnterMap(n)
    \/ LeaveItem(n)

ExecutorStep ==
    \/ \E s \in Scopes : Schedule(s) \/ Merge(s) \/ RaiseInFragment(s)
    \/ \E n \in Nodes : NodeStep(n)
    \/ Abandon
    \/ Finish
    \/ StartCompensation
    \/ PassOver
    \/ Compensate
    \/ FinishFailed

Next == ExecutorStep \/ Run \/ Resume \/ Crash

Spec == Init /\ [][Next]_vars

\* A started executor keeps running: its thread and its pool's threads are scheduled.
FairSpec == Spec /\ WF_vars(ExecutorStep)

-----------------------------------------------------------------------------
(* Properties. *)

\* Every variable stays in its set.
TypeOK ==
    /\ disk = NoRun \/ disk \in [status : {"running", "awaiting_human", "failed", "succeeded"},
                                 nodes : [Inside(Top) -> NodeRecord],
                                 iter : [Inside(Top) -> 0..MaxIterations]]
    /\ phase \in [Scopes -> {"off", "schedule", "wave", "done", "raised", "compensate"}]
    /\ rec \in [Nodes -> NodeRecord]
    /\ skips \subseteq Nodes
    /\ \A s \in Scopes : wave[s] \subseteq Inside(s) /\ Cardinality(wave[s]) <= Limit(s)
    /\ thread \in [Nodes -> {"off", "queued", "working", "entering", "fragment", "returned"}]
    /\ result \in [Nodes -> Result]
    /\ iter \in [Nodes -> 0..MaxIterations]
    /\ items \in [Nodes -> [left : {0} \union UNION {0..k : k \in MapItems}, won : Nat]]
    /\ depth \in 0..MaxDepth + Cardinality(Nodes)
    /\ executions \in 0..MaxExecutions
    /\ undo \subseteq Inside(Top)
    /\ budgetFailed \in BOOLEAN /\ provider \in BOOLEAN /\ forced \in BOOLEAN
    /\ starts \in 0..MaxStarts /\ crashes \in 0..MaxCrashes
    /\ runs \in [Nodes -> Nat]
    /\ completed \subseteq Nodes /\ unrecorded \subseteq Nodes

Saved == disk # NoRun
Compensators == {Compensation[n] : n \in Nodes}

\* No work of a node, nor of the fragment in it, is done again once the record holds
\* the node as succeeded.
CompletedNotRepeated ==
    \A n \in Inside(Top) \ Compensators :
        disk.nodes[n].status = "succeeded" => \A m \in Within(n) : runs'[m] = runs[m]

\* No later save of this run, by this process or by one that resumes it, replaces an
\* outcome.
SavedOutcomesFinal ==
    \A n \in Inside(Top) \ Compensators :
        disk.nodes[n].status \in Terminal => disk'.nodes[n].status = disk.nodes[n].status

\* "Completed nodes are preserved" (recovery.py): whatever crashes, pauses and resumes
\* happen, what the record says was done stays so and is not done again.
CompletedWorkKept == [][Saved => CompletedNotRepeated /\ SavedOutcomesFinal]_vars

\* A node of the graph is started only when the outcomes its join needs are in the
\* saved record, so a gate's approval is durable before the work it guards, and a
\* crash never leaves effects whose cause is forgotten (ready_nodes, store.save).
DependenciesDurable ==
    \A n \in Inside(Top) :
        thread[n] # "off" =>
            \/ Incoming(n) = {} /\ n \in Entrypoints
            \/ Cardinality({e \in Incoming(n) :
                   disk.nodes[e.from].status \in
                       IF e.kind = "on_failure" THEN {"failed", "blocked"}
                                                ELSE {"succeeded"}}) >= JoinCount[n]

\* A run recorded as succeeded left nothing undone: no node failed, was blocked or
\* waits, and a node still pending is one its edges no longer let run.
SuccessIsComplete ==
    Saved /\ disk.status = "succeeded" =>
        \A n \in Inside(Top) :
            \/ disk.nodes[n].status \in {"succeeded", "skipped"}
            \/ /\ disk.nodes[n].status = "pending"
               /\ IF Incoming(n) = {} THEN n \notin Entrypoints ELSE
                     Cardinality({e \in Incoming(n) :
                         /\ e \in WhenEdges => edgeWhen[e]
                         /\ disk.nodes[e.from].status \in
                               IF e.kind = "on_failure" THEN {"failed", "blocked"}
                                                        ELSE {"succeeded"}}) < JoinCount[n]

\* A run is recorded as failed only after the compensation of every node it records
\* as succeeded was tried, even if the process died between two compensations.  What
\* compensates others may run after its own turn, and is not compensated itself.
FailureCompensated ==
    Saved /\ disk.status = "failed" =>
        \A n \in Inside(Top) \ Compensators :
            disk.nodes[n].status = "succeeded" /\ Compensation[n] # NoNode =>
                disk.nodes[Compensation[n]].status # "pending"

\* The same where processes crash and nodes raise: what is on record is enough for
\* what was started, and a failed run was compensated.
RecoveryTruthful == TypeOK /\ DependenciesDurable /\ FailureCompensated

\* max_iterations is "a whole-run budget, not a per-attempt one" (execute.py): a loop
\* paused and resumed never runs its body more often than that.
IterationsWholeRun ==
    \A n \in Inside(Top) :
        Kind[n] = "loop" => \A m \in Inside(n) : runs[m] <= MaxIterations

\* What a record without crashes says is what happened: a node starts on what is
\* recorded, loops stay within their budget, and success means that all is done.
RecordTruthful == TypeOK /\ DependenciesDurable /\ SuccessIsComplete /\ IterationsWholeRun

\* A started run stops: its threads never wait for each other for ever, whatever
\* the nodes return and raise (ThreadPoolExecutor per scope, nested).
RunStops == ~Stopped ~> Stopped

\* "Resume refuses uncertain effects unless explicitly reviewed": a resume that is
\* not forced starts with the outcome of every node begun so far on record.
UncertainEffectsReviewed ==
    [][Stopped /\ Saved /\ ~Stopped' /\ ~forced' => unrecorded = {}]_vars

\* "Completed nodes are preserved": when no process crashes, the work of a node of
\* the graph that succeeded is not done again by the resume that follows a pause.
PausedWorkKept ==
    [][\A n \in Inside(Top) \ Compensators : n \in completed => runs'[n] = runs[n]]_vars

\* "A gate without an available trusted approver moves the run to awaiting_human":
\* a fragment whose gate waits for a person does not count as succeeded.
NestedGateWaits ==
    \A n \in Composites :
        thread[n] = "returned" /\ result[n].status = "succeeded" =>
            \A m \in Inside(n) : rec[m].status # "awaiting_human"
=============================================================================
