---------------------------- MODULE GraphRunProofs ----------------------------
(***************************************************************************)
(* Proofs about GraphRun, for any graph and any bounds, whatever the nodes *)
(* return or raise and wherever the process dies: type correctness, that a *)
(* node starts on recorded outcomes, that recorded work is kept and not    *)
(* done again, that success is complete and failure compensated, and, when *)
(* nothing is interrupted, that max_iterations is a whole-run budget.      *)
(***************************************************************************)
EXTENDS GraphRun, FiniteSetTheorems, WellFoundedInduction, TLAPS

-----------------------------------------------------------------------------
(* The inductive invariant. *)

Shape == wave = [s \in Scopes |-> wave[s]] /\ TypeOK

\* A node's thread lives while the node is in the wave of its scope, and a fragment's
\* scope while its composite node's thread is in it.
ThreadInv ==
    /\ \A n \in Nodes : thread[n] # "off" <=> n \in wave[Parent[n]]
    /\ \A s \in Scopes : phase[s] = "wave" <=> wave[s] # {}
    /\ \A n \in Nodes : thread[n] = "fragment" => n \in Composites
    /\ \A c \in Composites : /\ phase[c] # "off" <=> thread[c] = "fragment"
                             /\ phase[c] # "compensate"

Deep == {n \in Nodes : Kind[n] = "subgraph" /\ thread[n] = "fragment"}

\* What a thread in its label has done, and what it will find.
LabelInv ==
    /\ \A n \in Nodes :
          /\ thread[n] = "working" => Works(n)
          /\ thread[n] = "entering" => Kind[n] = "subgraph"
          /\ thread[n] = "returned" => result[n].status # "none"
    /\ \A c \in Composites :
          phase[c] # "off" => /\ Kind[c] = "loop" => iter[c] < MaxIterations
                              /\ Kind[c] = "map" => items[c].left > 0
    /\ depth = Cardinality(Deep)

\* A node of a wave is pending in the record and not marked, and no record calls a node
\* running.
WaveInv ==
    /\ \A n \in Nodes : thread[n] # "off" => rec[n].status = "pending" /\ n \notin skips
    /\ \A n \in Nodes : rec[n].status \in Outcomes \union {"pending"}
    /\ Saved => \A n \in Inside(Top) : disk.nodes[n].status \in Outcomes \union {"pending"}

\* Nothing of a run is left in memory when no process executes it.
StoppedInv ==
    phase[Top] = "off" =>
        /\ \A s \in Scopes : phase[s] = "off" /\ wave[s] = {}
        /\ \A n \in Nodes : rec[n] = Pending
        /\ skips = {} /\ ~budgetFailed

\* The record in memory says of the graph's nodes what the saved one says, and between
\* the waves the saved one holds every outcome.
DiskInv ==
    phase[Top] # "off" =>
        /\ Saved
        /\ \A n \in Inside(Top) :
              /\ disk.nodes[n].status \in Terminal =>
                    \/ rec[n].status = disk.nodes[n].status
                    \/ phase[Top] = "compensate" /\ n \in Compensators
              /\ phase[Top] \in {"schedule", "wave"}
                    /\ rec[n].status \in {"succeeded", "failed", "blocked"} =>
                       disk.nodes[n].status = rec[n].status

\* A node marked skipped is pending in the record, and can no longer run.
SkipInv ==
    phase[Top] # "compensate" =>
        \A n \in Inside(Top) \intersect skips :
            rec[n].status = "pending" /\ Resolved(skips, n) /\ ~Joined(skips, n)

\* A scheduler that is done left nothing it could run.
DoneInv ==
    phase[Top] = "done" =>
        \/ "awaiting_human" \in TopStatuses
        \/ budgetFailed
        \/ \A n \in Inside(Top) : rec[n].status = "pending" => n \in skips

\* Every node that compensation has passed was compensated.
UndoInv ==
    phase[Top] = "compensate" =>
        \A n \in Inside(Top) \ (Compensators \union undo) :
            rec[n].status = "succeeded" /\ Compensation[n] # NoNode =>
                rec[Compensation[n]].status # "pending"

GraphInv == /\ Shape /\ ThreadInv /\ LabelInv /\ WaveInv /\ StoppedInv /\ DiskInv
            /\ SkipInv /\ DoneInv /\ UndoInv /\ DependenciesDurable /\ SuccessIsComplete
            /\ FailureCompensated

-----------------------------------------------------------------------------
(* Positions, scopes and finite sets. *)

\* Every set of natural numbers has a least element.
LEMMA LeastExists ==
    ASSUME NEW T \in SUBSET Nat, T # {}
    PROVE  \E k \in T : \A j \in T : k <= j
<1> DEFINE less == OpToRel(<, Nat)
<1>1. less = {ss \in Nat \X Nat : ss[1] < ss[2]}
  BY DEF OpToRel
<1>2. IsWellFoundedOn(less, Nat)
  BY NatLessThanWellFounded
<1> HIDE DEF less
<1>3. PICK k \in T : \A j \in T : ~(<<j, k>> \in less)
  BY <1>2, WFMin
<1>4. ASSUME NEW j \in T
      PROVE  k <= j
  <2> DEFINE pair == <<j, k>>
  <2>1. pair \in Nat \X Nat /\ pair[1] = j /\ pair[2] = k
    OBVIOUS
  <2>2. ~(pair \in less)
    BY <1>3
  <2> HIDE DEF pair
  <2>3. ~(pair[1] < pair[2])
    BY <1>1, <2>1, <2>2
  <2> QED
    BY <2>1, <2>3
<1> QED
  BY <1>4

\* The scopes are the graph and its composite nodes, and every node is in one.
LEMMA ScopeFacts ==
    /\ Top \in Scopes /\ Top \notin Nodes /\ Top \notin Composites
    /\ Composites \subseteq Nodes /\ Composites \subseteq Scopes
    /\ \A s \in Scopes : s = Top \/ s \in Composites
    /\ \A n \in Nodes : Parent[n] \in Scopes /\ n \in Inside(Parent[n])
    /\ \A s \in Scopes : Inside(s) \subseteq Nodes
BY GraphAssumption DEF Scopes, Composites, Inside

LEMMA PositionFacts ==
    /\ Position \in [Nodes -> Nat] /\ Len(Order) \in Nat
    /\ \A n \in Nodes : Position[n] \in 1..Len(Order)
    /\ \A m, n \in Nodes : Position[m] = Position[n] => m = n
<1>1. Len(Order) \in Nat /\ DOMAIN Order = 1..Len(Order)
  BY GraphAssumption
<1>2. ASSUME NEW n \in Nodes
      PROVE  Position[n] \in 1..Len(Order) /\ Order[Position[n]] = n
  <2>1. \E i \in DOMAIN Order : Order[i] = n
    BY DEF Nodes, ToSet
  <2> QED
    BY <1>1, <2>1 DEF Position
<1>3. Position = [n \in Nodes |-> Position[n]]
  BY DEF Position
<1> QED
  BY <1>1, <1>2, <1>3

LEMMA NodesFinite == IsFiniteSet(Nodes)
<1>1. IsFiniteSet(1..Len(Order))
  BY PositionFacts, FS_Interval
<1>2. Position \in Injection(Nodes, 1..Len(Order))
  BY PositionFacts DEF Injection, IsInjective
<1> QED
  BY <1>1, <1>2, FS_Injection DEF ExistsInjection

LEMMA EarliestIn ==
    ASSUME NEW nodes \in SUBSET Nodes, nodes # {}
    PROVE  /\ Earliest(nodes) \in nodes
           /\ \A m \in nodes : Position[Earliest(nodes)] <= Position[m]
<1> DEFINE T == {Position[n] : n \in nodes}
<1>1. T \in SUBSET Nat /\ T # {}
  BY PositionFacts
<1>2. PICK k \in T : \A j \in T : k <= j
  BY <1>1, LeastExists
<1>3. \E n \in nodes : \A m \in nodes : Position[n] <= Position[m]
  BY <1>2
<1> QED
  BY <1>3 DEF Earliest

LEMMA LatestIn ==
    ASSUME NEW nodes \in SUBSET Nodes, nodes # {}
    PROVE  /\ Latest(nodes) \in nodes
           /\ \A m \in nodes : Position[m] <= Position[Latest(nodes)]
<1> DEFINE T == {Len(Order) - Position[n] : n \in nodes}
<1>1. T \in SUBSET Nat /\ T # {}
  BY PositionFacts
<1>2. PICK k \in T : \A j \in T : k <= j
  BY <1>1, LeastExists
<1>3. PICK n \in nodes : k = Len(Order) - Position[n]
  OBVIOUS
<1>4. ASSUME NEW m \in nodes
      PROVE  Position[m] <= Position[n]
  <2>1. k <= Len(Order) - Position[m]
    BY <1>2
  <2>2. Position[m] \in Nat /\ Position[n] \in Nat /\ Len(Order) \in Nat
    BY PositionFacts
  <2> QED
    BY <1>3, <2>1, <2>2
<1> QED
  BY <1>4 DEF Latest

\* Edges of the graph join nodes of one scope.
LEMMA EdgeFacts ==
    ASSUME NEW n \in Nodes, NEW e \in Incoming(n)
    PROVE  /\ e \in Edges /\ e.to = n /\ e.from \in Nodes
           /\ Parent[e.from] = Parent[n] /\ Position[e.from] < Position[n]
BY GraphAssumption DEF Incoming, Before

\* The edges of one set are at least as many as those of a part of it.
LEMMA MoreEdges ==
    ASSUME NEW A \in SUBSET Edges, NEW B \in SUBSET Edges, A \subseteq B
    PROVE  /\ IsFiniteSet(A) /\ IsFiniteSet(B)
           /\ Cardinality(A) \in Nat /\ Cardinality(B) \in Nat
           /\ Cardinality(A) <= Cardinality(B)
<1>1. IsFiniteSet(A) /\ IsFiniteSet(B)
  BY GraphAssumption, FS_Subset
<1> QED
  BY <1>1, FS_Subset, FS_CardinalityType

-----------------------------------------------------------------------------
(* What the steps leave alone. *)

\* Nothing of the graph's own scope changes, nor what is saved of it.
TopStill ==
    /\ disk' = disk /\ undo' = undo /\ edgeWhen' = edgeWhen
    /\ phase'[Top] = phase[Top]
    /\ budgetFailed => budgetFailed'
    /\ \A n \in Inside(Top) : /\ rec'[n] = rec[n]
                              /\ n \in skips' <=> n \in skips
                              /\ thread'[n] # "off" <=> thread[n] # "off"

LEMMA TypeFacts ==
    ASSUME GraphInv
    PROVE  /\ phase \in [Scopes -> {"off", "schedule", "wave", "done", "raised", "compensate"}]
           /\ rec \in [Nodes -> NodeRecord]
           /\ skips \subseteq Nodes
           /\ wave = [s \in Scopes |-> wave[s]]
           /\ \A s \in Scopes : wave[s] \subseteq Inside(s) /\ wave[s] \subseteq Nodes
           /\ thread \in [Nodes -> {"off", "queued", "working", "entering", "fragment", "returned"}]
           /\ result \in [Nodes -> Result]
           /\ iter \in [Nodes -> 0..MaxIterations]
           /\ undo \subseteq Inside(Top)
BY ScopeFacts DEF GraphInv, Shape, TypeOK

\* A step of a node is a step of its thread, under a running executor.
LEMMA NodeRuns ==
    ASSUME GraphInv, NEW n \in Nodes, NodeStep(n)
    PROVE  thread[n] # "off" /\ phase[Top] # "off"
<1>1. thread[n] # "off"
  <2>1. CASE phase[n] \in {"done", "raised"} /\ n \in Composites
    BY <2>1 DEF GraphInv, ThreadInv
  <2>2. CASE thread[n] \in {"queued", "working", "entering"}
    BY <2>2
  <2>3. (phase[n] \in {"done", "raised"} /\ n \in Composites)
        \/ thread[n] \in {"queued", "working", "entering"}
    BY DEF NodeStep, Exhausted, Refrain, Begin, End, Gate, EnterSubgraph, Descend, EnterLoop,
           LeaveSubgraph, LeaveRaised, LeaveIteration, EnterMap, LeaveItem, Admit,
           FragmentOver, Composites
  <2> QED
    BY <2>1, <2>2, <2>3
<1>2. n \in wave[Parent[n]] /\ Parent[n] \in Scopes
  BY <1>1, ScopeFacts DEF GraphInv, ThreadInv
<1> QED
  BY <1>1, <1>2 DEF GraphInv, StoppedInv

\* The thread of the node and the fragment in it are all that a node's step moves.
LEMMA OpenFragmentStill ==
    ASSUME GraphInv, NEW n \in Nodes, thread[n] # "off", OpenFragment(n)
    PROVE  /\ phase'[Top] = phase[Top]
           /\ \A m \in Inside(Top) : /\ rec'[m] = rec[m]
                                     /\ m \in skips' <=> m \in skips
                                     /\ thread'[m] # "off" <=> thread[m] # "off"
<1>1. n # Top /\ Top \in Scopes
  BY ScopeFacts
<1>2. \A m \in Inside(Top) : m \in Nodes /\ Parent[m] = Top /\ m \notin Inside(n)
  BY <1>1 DEF Inside
<1> QED
  BY <1>1, <1>2, TypeFacts DEF OpenFragment

LEMMA ReturnsStill ==
    ASSUME GraphInv, NEW n \in Nodes, thread[n] # "off", NEW x, NEW b, Returns(n, x, b)
    PROVE  \A m \in Nodes : thread'[m] # "off" <=> thread[m] # "off"
BY TypeFacts DEF Returns

LEMMA LoopReturnsStill ==
    ASSUME GraphInv, NEW n \in Nodes, thread[n] # "off", NEW x, LoopReturns(n, x)
    PROVE  /\ phase'[Top] = phase[Top] /\ rec' = rec /\ skips' = skips
           /\ \A m \in Nodes : thread'[m] # "off" <=> thread[m] # "off"
<1>1. n # Top /\ Top \in Scopes
  BY ScopeFacts
<1> QED
  BY <1>1, TypeFacts, ReturnsStill DEF LoopReturns

LEMMA NodeQuiet ==
    ASSUME GraphInv, NEW n \in Nodes, NodeStep(n)
    PROVE  TopStill
<1>1. thread[n] # "off" /\ n # Top /\ Top \in Scopes
  BY NodeRuns, ScopeFacts
<1>2. \A m \in Inside(Top) : m \in Nodes
  BY DEF Inside
<1> USE DEF control, TopStill
<1>3. ASSUME Exhausted(n) \/ Refrain(n) \/ Begin(n) \/ End(n) \/ Gate(n) PROVE TopStill
  <2>1. /\ disk' = disk /\ undo' = undo /\ edgeWhen' = edgeWhen
        /\ phase' = phase /\ rec' = rec /\ skips' = skips /\ budgetFailed' = budgetFailed
    BY <1>3 DEF Exhausted, Refrain, Begin, End, Gate
  <2>2. CASE Begin(n)
    BY <1>1, <1>2, <2>1, <2>2, TypeFacts DEF Begin
  <2>3. CASE \E x : \E b : Returns(n, x, b)
    BY <1>1, <1>2, <2>1, <2>3, ReturnsStill
  <2> QED
    BY <1>3, <2>2, <2>3 DEF Exhausted, Refrain, End, Gate
<1>4. ASSUME EnterSubgraph(n) PROVE TopStill
  <2>1. /\ disk' = disk /\ undo' = undo /\ edgeWhen' = edgeWhen
        /\ phase' = phase /\ rec' = rec /\ skips' = skips /\ budgetFailed' = budgetFailed
    BY <1>4 DEF EnterSubgraph
  <2>2. CASE thread' = [thread EXCEPT ![n] = "entering"]
    BY <1>1, <1>2, <2>1, <2>2, TypeFacts
  <2>3. CASE Returns(n, "failed", FALSE)
    BY <1>1, <1>2, <2>1, <2>3, ReturnsStill
  <2> QED
    BY <1>4, <2>2, <2>3 DEF EnterSubgraph
<1>5. ASSUME Descend(n) PROVE TopStill
  BY <1>1, <1>5, OpenFragmentStill DEF Descend
<1>6. ASSUME EnterLoop(n) \/ LeaveIteration(n) PROVE TopStill
  <2>1. disk' = disk /\ undo' = undo /\ edgeWhen' = edgeWhen /\ budgetFailed' = budgetFailed
    BY <1>6 DEF EnterLoop, LeaveIteration
  <2>2. OpenFragment(n) \/ \E x : LoopReturns(n, x)
    BY <1>6 DEF EnterLoop, LeaveIteration, NextIteration
  <2>3. CASE OpenFragment(n)
    BY <1>1, <2>1, <2>3, OpenFragmentStill
  <2>4. CASE \E x : LoopReturns(n, x)
    BY <1>1, <1>2, <2>1, <2>4, LoopReturnsStill
  <2> QED
    BY <2>2, <2>3, <2>4
<1>7. ASSUME EnterMap(n) \/ LeaveItem(n) PROVE TopStill
  <2>1. disk' = disk /\ undo' = undo /\ edgeWhen' = edgeWhen /\ budgetFailed' = budgetFailed
    BY <1>7 DEF EnterMap, LeaveItem
  <2>2. \/ OpenFragment(n)
        \/ \E x : LoopReturns(n, x)
        \/ phase' = phase /\ rec' = rec /\ skips' = skips /\ Returns(n, "failed", FALSE)
    BY <1>7 DEF EnterMap, LeaveItem, NextItem
  <2>3. CASE OpenFragment(n)
    BY <1>1, <2>1, <2>3, OpenFragmentStill
  <2>4. CASE \E x : LoopReturns(n, x)
    BY <1>1, <1>2, <2>1, <2>4, LoopReturnsStill
  <2>5. CASE phase' = phase /\ rec' = rec /\ skips' = skips /\ Returns(n, "failed", FALSE)
    BY <1>1, <1>2, <2>1, <2>5, ReturnsStill
  <2> QED
    BY <2>2, <2>3, <2>4, <2>5
<1>8. ASSUME LeaveSubgraph(n) \/ LeaveRaised(n) PROVE TopStill
  <2>1. /\ disk' = disk /\ undo' = undo /\ edgeWhen' = edgeWhen
        /\ rec' = rec /\ skips' = skips /\ budgetFailed' = budgetFailed
        /\ phase' = [phase EXCEPT ![n] = "off"]
        /\ \E x : \E b : Returns(n, x, b)
    BY <1>8 DEF LeaveSubgraph, LeaveRaised
  <2> QED
    BY <1>1, <1>2, <2>1, TypeFacts, ReturnsStill
<1> QED
  BY <1>3, <1>4, <1>5, <1>6, <1>7, <1>8 DEF NodeStep

\* A fragment's scheduler moves the nodes of its fragment only.
LEMMA FragmentQuiet ==
    ASSUME GraphInv, NEW s \in Scopes, s # Top, Schedule(s) \/ Merge(s) \/ RaiseInFragment(s)
    PROVE  TopStill
<1>1. s \in Nodes /\ Top \in Scopes
  BY ScopeFacts
<1>2. \A m \in Inside(Top) : m \in Nodes /\ Parent[m] # s /\ m \notin Inside(s)
  BY GraphAssumption, ScopeFacts DEF Inside
<1> USE DEF control
<1>3. ASSUME Schedule(s) PROVE TopStill
  <2>1. disk' = disk /\ undo' = undo /\ edgeWhen' = edgeWhen /\ budgetFailed' = budgetFailed
    BY <1>3 DEF Schedule
  <2>2. phase'[Top] = phase[Top]
    BY <1>3, <1>1, TypeFacts DEF Schedule
  <2>3. \A m \in Inside(Top) : m \in skips' <=> m \in skips
    <3>1. skips' \in Markings(s)
      BY <1>3 DEF Schedule
    <3>2. PICK more \in SUBSET PendingIn(s, skips) : skips' = skips \union more
      BY <3>1 DEF Markings
    <3> QED
      BY <1>2, <3>2 DEF PendingIn
  <2>4. ASSUME NEW m \in Inside(Top)
        PROVE  rec'[m] = rec[m] /\ thread'[m] = thread[m]
    <3>1. m \notin Candidates(s, skips') /\ m \notin Runnable(Candidates(s, skips'))
      BY <1>2 DEF Runnable, Candidates, ReadyNodes, PendingIn
    <3> QED
      BY <1>2, <1>3, <3>1, TypeFacts DEF Schedule
  <2> QED
    BY <2>1, <2>2, <2>3, <2>4 DEF TopStill
<1>4. ASSUME Merge(s) PROVE TopStill
  <2> DEFINE n == Earliest(wave[s])
  <2>1. n \in wave[s] /\ n \in Inside(s) /\ n \in Nodes
    <3>1. wave[s] # {} /\ wave[s] \in SUBSET Nodes /\ wave[s] \subseteq Inside(s)
      BY <1>4, TypeFacts DEF GraphInv, ThreadInv, Merge, Joinable
    <3> QED
      BY <3>1, EarliestIn
  <2> HIDE DEF n
  <2>2. /\ disk' = disk /\ undo' = undo /\ edgeWhen' = edgeWhen /\ skips' = skips
    BY <1>4 DEF Merge, SaveMerged
  <2>3. \A m \in Inside(Top) : Merged(n)[m] = rec[m]
    BY <1>2, <2>1, TypeFacts DEF Merged
  <2>4. CASE Pause(s)
    <3>1. phase'[Top] = phase[Top] /\ budgetFailed' = budgetFailed
      BY <2>4, <1>1, TypeFacts DEF Pause
    <3>2. rec' = Merged(n) /\ \A m \in Inside(Top) : thread'[m] = thread[m]
      BY <2>4, <1>2, TypeFacts DEF Pause, Dismiss, n
    <3> QED
      BY <2>2, <2>3, <3>1, <3>2 DEF TopStill
  <2>5. CASE StopAtBudget(s)
    <3>1. phase'[Top] = phase[Top] /\ budgetFailed'
      BY <2>5, <1>1, TypeFacts DEF StopAtBudget
    <3>2. \A m \in Inside(Top) : rec'[m] = Merged(n)[m] /\ thread'[m] = thread[m]
      BY <2>5, <1>2, TypeFacts DEF StopAtBudget, Dismiss, n
    <3> QED
      BY <2>2, <2>3, <3>1, <3>2 DEF TopStill
  <2>6. CASE Continue(s)
    <3>1. phase'[Top] = phase[Top] /\ budgetFailed' = budgetFailed
      BY <2>6, <1>1, TypeFacts DEF Continue
    <3>2. rec' = Merged(n) /\ thread' = [thread EXCEPT ![n] = "off"]
      BY <2>6 DEF Continue, n
    <3>3. \A m \in Inside(Top) : thread'[m] = thread[m]
      BY <1>2, <2>1, <3>2, TypeFacts
    <3> QED
      BY <2>2, <2>3, <3>1, <3>2, <3>3 DEF TopStill
  <2> QED
    BY <1>4, <2>4, <2>5, <2>6 DEF Merge
<1>5. ASSUME RaiseInFragment(s) PROVE TopStill
  <2>1. /\ disk' = disk /\ undo' = undo /\ edgeWhen' = edgeWhen /\ skips' = skips
        /\ rec' = rec /\ budgetFailed' = budgetFailed /\ phase' = [phase EXCEPT ![s] = "raised"]
    BY <1>5 DEF RaiseInFragment
  <2>2. \A m \in Inside(Top) : thread'[m] = thread[m]
    BY <1>5, <1>2, TypeFacts DEF RaiseInFragment, Dismiss
  <2> QED
    BY <1>1, <2>1, <2>2, TypeFacts DEF TopStill
<1> QED
  BY <1>3, <1>4, <1>5

\* The steps that move the graph's own scope.
TopStep ==
    \/ Schedule(Top) \/ Merge(Top) \/ Abandon \/ Finish \/ StartCompensation
    \/ PassOver \/ Compensate \/ FinishFailed \/ Run \/ Resume \/ Crash

LEMMA StepCases ==
    ASSUME GraphInv, [Next]_vars
    PROVE  TopStill \/ TopStep
<1>1. CASE UNCHANGED vars
  BY <1>1 DEF TopStill, vars, exec, control
<1>2. CASE \E n \in Nodes : NodeStep(n)
  BY <1>2, NodeQuiet
<1>3. CASE \E s \in Scopes : Schedule(s) \/ Merge(s) \/ RaiseInFragment(s)
  <2>1. PICK s \in Scopes : Schedule(s) \/ Merge(s) \/ RaiseInFragment(s)
    BY <1>3
  <2>2. CASE s = Top
    BY <2>1, <2>2 DEF TopStep, RaiseInFragment
  <2> QED
    BY <2>1, <2>2, FragmentQuiet
<1> QED
  BY <1>1, <1>2, <1>3 DEF Next, ExecutorStep, TopStep

-----------------------------------------------------------------------------
(* What the steps of the graph's own scope do. *)

\* The scheduler marks nodes that can no longer run, and turns away pending nodes whose
\* `when` is false.
LEMMA ScheduleEffect ==
    ASSUME GraphInv, NEW s \in Scopes, Schedule(s)
    PROVE  /\ disk' = disk /\ undo' = undo /\ edgeWhen' = edgeWhen
           /\ budgetFailed' = budgetFailed /\ phase[s] = "schedule"
           /\ phase'[s] \in {"schedule", "wave", "done"}
           /\ phase'[s] = "done" => Candidates(s, skips') = {} /\ rec' = rec
           /\ skips \subseteq skips' /\ skips' \ skips \subseteq PendingIn(s, skips)
           /\ \A m \in PendingIn(s, skips) :
                 m \in skips' <=> Resolved(skips', m) /\ ~Joined(skips', m)
           /\ \A m \in Nodes :
                 \/ rec'[m] = rec[m]
                 \/ /\ m \in Inside(s) /\ rec[m].status = "pending" /\ m \notin skips'
                    /\ rec'[m] = [rec[m] EXCEPT !.status = "skipped"]
                    /\ rec'[m].status = "skipped"
<1>1. /\ disk' = disk /\ undo' = undo /\ edgeWhen' = edgeWhen
      /\ budgetFailed' = budgetFailed /\ phase[s] = "schedule"
  BY DEF Schedule, control
<1>2. /\ phase'[s] \in {"schedule", "wave", "done"}
      /\ phase'[s] = "done" => Candidates(s, skips') = {} /\ rec' = rec
  BY TypeFacts DEF Schedule
<1>3. skips' \in Markings(s)
  BY DEF Schedule
<1>4. PICK more \in SUBSET PendingIn(s, skips) : skips' = skips \union more
  BY <1>3 DEF Markings
<1>5. \A m \in PendingIn(s, skips) : m \in skips' <=> Resolved(skips', m) /\ ~Joined(skips', m)
  BY <1>3 DEF Markings
<1>6. ASSUME NEW m \in Nodes, rec'[m] # rec[m]
      PROVE  /\ m \in Inside(s) /\ rec[m].status = "pending" /\ m \notin skips'
             /\ rec'[m] = [rec[m] EXCEPT !.status = "skipped"]
             /\ rec'[m].status = "skipped"
  <2>1. m \in Candidates(s, skips') /\ rec'[m] = [rec[m] EXCEPT !.status = "skipped"]
    BY <1>6 DEF Schedule
  <2>2. m \in Inside(s) /\ StateIn(skips', m) = "pending"
    BY <2>1 DEF Candidates, ReadyNodes, PendingIn
  <2> QED
    BY <2>1, <2>2, TypeFacts DEF StateIn, NodeRecord
<1> QED
  BY <1>1, <1>2, <1>4, <1>5, <1>6

\* The scheduler merges the first node of its wave: it was pending, and gets the outcome
\* its thread returned.
LEMMA MergedEffect ==
    ASSUME GraphInv, NEW s \in Scopes, Joinable(s)
    PROVE  LET n == Earliest(wave[s])
           IN /\ n \in wave[s] /\ n \in Inside(s) /\ n \in Nodes /\ phase[s] = "wave"
              /\ thread[n] = "returned" /\ rec[n].status = "pending" /\ n \notin skips
              /\ result[n] \in Result /\ result[n].status # "none"
              /\ Merged(n) = [Merged(n) EXCEPT ![n] = Merged(n)[n]]
              /\ DOMAIN Merged(n) = Nodes
              /\ Merged(n)[n].status = result[n].status
              /\ Merged(n)[n].attempts \in {0, 1}
              /\ \A m \in Nodes \ {n} : Merged(n)[m] = rec[m]
<1> DEFINE n == Earliest(wave[s])
<1>1. n \in wave[s] /\ n \in Inside(s) /\ n \in Nodes
  <2>1. wave[s] # {} /\ wave[s] \in SUBSET Nodes /\ wave[s] \subseteq Inside(s)
    BY TypeFacts DEF GraphInv, ThreadInv, Joinable
  <2> QED
    BY <2>1, EarliestIn
<1> HIDE DEF n
<1>2. phase[s] = "wave" /\ thread[n] = "returned"
  BY <1>1 DEF Joinable
<1>3. rec[n].status = "pending" /\ n \notin skips /\ result[n] \in Result /\ result[n].status # "none"
  BY <1>1, <1>2, TypeFacts DEF GraphInv, WaveInv, LabelInv
<1>4. /\ DOMAIN Merged(n) = Nodes
      /\ Merged(n)[n] = [status |-> result[n].status,
                         attempts |-> IF result[n].ran THEN 1 ELSE rec[n].attempts]
      /\ \A m \in Nodes \ {n} : Merged(n)[m] = rec[m]
  BY <1>1, TypeFacts DEF Merged
<1>5. Merged(n)[n].status = result[n].status /\ Merged(n)[n].attempts \in {0, 1}
  BY <1>1, <1>4, TypeFacts DEF NodeRecord
<1>6. Merged(n) = [Merged(n) EXCEPT ![n] = Merged(n)[n]]
  BY <1>1, TypeFacts DEF Merged
<1> QED
  BY <1>1, <1>2, <1>3, <1>4, <1>5, <1>6 DEF n

\* The record saved with an outcome holds that outcome and all that were merged before.
LEMMA MergeTopEffect ==
    ASSUME GraphInv, Merge(Top)
    PROVE  LET n == Earliest(wave[Top])
           IN /\ n \in Inside(Top) /\ n \in Nodes /\ phase[Top] = "wave"
              /\ thread[n] = "returned" /\ rec[n].status = "pending" /\ n \notin skips
              /\ result[n].status \in Outcomes
              /\ disk' = SavedRecord("running", Merged(n))
              /\ disk'.nodes[n].status = result[n].status
              /\ \A m \in Inside(Top) \ {n} : disk'.nodes[m] = rec[m]
              /\ rec'[n].status = result[n].status
              /\ \A m \in Nodes \ {n} : 
                    \/ rec'[m] = rec[m]
                    \/ /\ m \in Inside(Top) /\ m \notin skips /\ rec[m].status = "pending"
                       /\ rec'[m] = [rec[m] EXCEPT !.status = "blocked"]
                       /\ rec'[m].status = "blocked" /\ budgetFailed' /\ phase'[Top] = "done"
              /\ phase'[Top] \in {"schedule", "wave", "done"}
              /\ phase'[Top] = "done" =>
                    budgetFailed' \/ (result[n].status = "awaiting_human" /\ rec' = Merged(n))
              /\ skips' = skips /\ undo' = undo /\ edgeWhen' = edgeWhen
              /\ budgetFailed => budgetFailed'
<1> DEFINE n == Earliest(wave[Top])
<1>1. /\ n \in wave[Top] /\ n \in Inside(Top) /\ n \in Nodes /\ phase[Top] = "wave"
      /\ thread[n] = "returned" /\ rec[n].status = "pending" /\ n \notin skips
      /\ result[n] \in Result /\ result[n].status # "none"
      /\ Merged(n)[n].status = result[n].status
      /\ \A m \in Nodes \ {n} : Merged(n)[m] = rec[m]
  BY MergedEffect, ScopeFacts DEF Merge
<1>0. Earliest(wave[Top]) = n
  OBVIOUS
<1> HIDE DEF n
<1>2. result[n].status \in Outcomes
  BY <1>1 DEF Result, Merge
<1>3. /\ disk' = SavedRecord("running", Merged(n))
      /\ skips' = skips /\ undo' = undo /\ edgeWhen' = edgeWhen
  BY <1>0 DEF Merge, SaveMerged, control
<1>4. /\ disk'.nodes[n].status = result[n].status
      /\ \A m \in Inside(Top) \ {n} : disk'.nodes[m] = rec[m]
  <2>1. \A m \in Inside(Top) : disk'.nodes[m] = Merged(n)[m] /\ m \in Nodes
    BY <1>3 DEF SavedRecord, Inside
  <2> QED
    BY <1>1, <2>1
<1>5. \A m \in Nodes : 
         \/ rec'[m] = Merged(n)[m]
         \/ /\ m \in Inside(Top) /\ m \notin skips /\ m # n /\ rec[m].status = "pending"
            /\ rec'[m] = [rec[m] EXCEPT !.status = "blocked"]
            /\ rec'[m].status = "blocked" /\ budgetFailed' /\ phase'[Top] = "done"
  <2>1. CASE rec' = Merged(n)
    BY <2>1
  <2>2. CASE StopAtBudget(Top)
    <3>1. budgetFailed' /\ phase'[Top] = "done"
      BY <2>2, ScopeFacts, TypeFacts DEF StopAtBudget
    <3>2. \A m \in Nodes :
             rec'[m] = IF Parent[m] = Top /\ m \notin skips /\ Merged(n)[m].status = "pending"
                       THEN [Merged(n)[m] EXCEPT !.status = "blocked"] ELSE Merged(n)[m]
      BY <2>2, <1>0 DEF StopAtBudget
    <3>3. ASSUME NEW m \in Nodes, rec'[m] # Merged(n)[m]
          PROVE  /\ m \in Inside(Top) /\ m \notin skips /\ m # n /\ rec[m].status = "pending"
                 /\ rec'[m] = [rec[m] EXCEPT !.status = "blocked"]
                 /\ rec'[m].status = "blocked"
      <4>1. /\ Parent[m] = Top /\ m \notin skips /\ Merged(n)[m].status = "pending"
            /\ rec'[m] = [Merged(n)[m] EXCEPT !.status = "blocked"]
        BY <3>2, <3>3
      <4>2. m # n
        BY <1>1, <1>2, <4>1 DEF Outcomes, Terminal
      <4> QED
        BY <1>1, <4>1, <4>2, TypeFacts DEF Inside, NodeRecord
    <3> QED
      BY <3>1, <3>3
  <2> QED
    BY <1>0, <2>1, <2>2 DEF Merge, Pause, Continue
<1>6. /\ phase'[Top] \in {"schedule", "wave", "done"}
      /\ phase'[Top] = "done" =>
            budgetFailed' \/ (result[n].status = "awaiting_human" /\ rec' = Merged(n))
      /\ budgetFailed => budgetFailed'
  <2>1. CASE Pause(Top)
    <3>1. phase' = [phase EXCEPT ![Top] = "done"] /\ budgetFailed' = budgetFailed
          /\ rec' = Merged(n) /\ result[n].status = "awaiting_human"
      BY <2>1, <1>0 DEF Pause
    <3> QED
      BY <3>1, ScopeFacts, TypeFacts
  <2>2. CASE StopAtBudget(Top)
    <3>1. phase' = [phase EXCEPT ![Top] = "done"] /\ budgetFailed' = TRUE
      BY <2>2 DEF StopAtBudget
    <3>2. phase'[Top] = "done"
      BY <3>1, ScopeFacts, TypeFacts
    <3>3. budgetFailed'
      BY <3>1
    <3> QED
      BY <3>2, <3>3
  <2>3. CASE Continue(Top)
    <3>1. /\ budgetFailed' = budgetFailed
          /\ \/ phase' = [phase EXCEPT ![Top] = "schedule"]
             \/ phase' = [phase EXCEPT ![Top] = "wave"]
      BY <2>3 DEF Continue
    <3>2. phase'[Top] = "schedule" \/ phase'[Top] = "wave"
      BY <3>1, ScopeFacts, TypeFacts
    <3> QED
      BY <3>1, <3>2
  <2> QED
    BY <2>1, <2>2, <2>3 DEF Merge
<1>7. /\ rec'[n].status = result[n].status
      /\ \A m \in Nodes \ {n} : 
            \/ rec'[m] = rec[m]
            \/ /\ m \in Inside(Top) /\ m \notin skips /\ rec[m].status = "pending"
               /\ rec'[m] = [rec[m] EXCEPT !.status = "blocked"]
               /\ rec'[m].status = "blocked" /\ budgetFailed' /\ phase'[Top] = "done"
  BY <1>1, <1>5
<1> QED
  BY <1>0, <1>1, <1>2, <1>3, <1>4, <1>6, <1>7

LEMMA SavedIsSaved ==
    ASSUME NEW status \in {"running", "awaiting_human", "failed", "succeeded"}, NEW nodes,
           disk' = SavedRecord(status, nodes)
    PROVE  disk' # NoRun /\ Saved' /\ disk'.status = status
<1>1. disk'.status = status
  BY DEF SavedRecord
<1>2. NoRun.status = "none"
  BY DEF NoRun
<1> QED
  BY <1>1, <1>2 DEF Saved

\* A process that ends leaves the scope of the graph off, and nothing in memory.
LEMMA EndEffect ==
    ASSUME EndProcess
    PROVE  phase'[Top] = "off"
BY ScopeFacts DEF EndProcess

\* A compensation gives the node that compensates an outcome, in memory only.
LEMMA CompensateEffect ==
    ASSUME GraphInv, Compensate
    PROVE  LET n == Latest(undo)
               target == Compensation[n]
           IN /\ n \in Inside(Top) /\ undo' = undo \ {n} /\ rec[n].status = "succeeded"
              /\ target \in Inside(Top) /\ target \in Compensators /\ target # NoNode
              /\ disk' = disk /\ phase' = phase /\ phase[Top] = "compensate"
              /\ skips' = skips /\ edgeWhen' = edgeWhen /\ thread' = thread
              /\ rec'[target].status \in Outcomes
              /\ \A m \in Nodes \ {target} : rec'[m] = rec[m]
<1> DEFINE n == Latest(undo)
           target == Compensation[n]
<1>1. /\ n \in Inside(Top) /\ n \in Nodes
  BY TypeFacts, LatestIn, ScopeFacts DEF Compensate
<1>2. undo' = undo \ {n} /\ rec[n].status = "succeeded" /\ target # NoNode
  BY DEF Compensate, NeedsCompensation
<1>3. target \in Inside(Top) /\ target \in Compensators /\ target \in Nodes
  BY <1>1, <1>2, GraphAssumption DEF Inside, Compensators
<1>4. /\ disk' = disk /\ phase' = phase /\ phase[Top] = "compensate"
      /\ skips' = skips /\ edgeWhen' = edgeWhen /\ thread' = thread
  BY DEF Compensate, control
<1>5. \E status \in Outcomes : \E attempts :
         rec' = [rec EXCEPT ![target] = [status |-> status, attempts |-> attempts]]
  <2>1. \/ \E status \in MayReturn[target] \ {"raised"} :
              rec' = [rec EXCEPT ![target] = [status |-> status, attempts |-> 1]]
        \/ \E status \in {"failed", "blocked", "awaiting_human"} :
              rec' = [rec EXCEPT ![target] = [status |-> status, attempts |-> rec[target].attempts]]
    BY DEF Compensate
  <2>2. MayReturn[target] \ {"raised"} \subseteq Outcomes
        /\ {"failed", "blocked", "awaiting_human"} \subseteq Outcomes
    BY <1>3, GraphAssumption DEF Outcomes, Terminal
  <2> QED
    BY <2>1, <2>2
<1> HIDE DEF target
<1>6. rec'[target].status \in Outcomes /\ \A m \in Nodes \ {target} : rec'[m] = rec[m]
  BY <1>3, <1>5, TypeFacts
<1> QED
  BY <1>1, <1>2, <1>3, <1>4, <1>6 DEF target

-----------------------------------------------------------------------------
(* The graph's own scope and the saved record. *)

LEMMA DiskStep == GraphInv /\ [Next]_vars => DiskInv'
<1> SUFFICES ASSUME GraphInv, [Next]_vars PROVE DiskInv'
  OBVIOUS
<1>0. DiskInv /\ Top \in Scopes /\ \A m \in Inside(Top) : m \in Nodes
  BY ScopeFacts DEF GraphInv
<1>1. ASSUME TopStill PROVE DiskInv'
  BY <1>0, <1>1 DEF TopStill, DiskInv, Saved
<1>2. ASSUME Schedule(Top) PROVE DiskInv'
  <2>1. /\ disk' = disk /\ phase[Top] = "schedule"
        /\ \A m \in Nodes : \/ rec'[m] = rec[m]
                            \/ rec[m].status = "pending" /\ rec'[m].status = "skipped"
    BY <1>0, <1>2, ScheduleEffect
  <2> QED
    BY <1>0, <2>1 DEF DiskInv, Saved, Terminal
<1>3. ASSUME Merge(Top) PROVE DiskInv'
  <2> DEFINE n == Earliest(wave[Top])
  <2>1. /\ n \in Inside(Top) /\ rec[n].status = "pending"
        /\ disk'.nodes[n].status = result[n].status /\ rec'[n].status = result[n].status
        /\ \A m \in Inside(Top) \ {n} : disk'.nodes[m] = rec[m]
        /\ \A m \in Nodes \ {n} : 
              \/ rec'[m] = rec[m]
              \/ /\ rec[m].status = "pending" /\ rec'[m].status = "blocked"
                 /\ phase'[Top] = "done"
    BY <1>3, MergeTopEffect
  <2>2. Saved'
    BY <1>3, MergeTopEffect, SavedIsSaved
  <2> HIDE DEF n
  <2>3. ASSUME NEW m \in Inside(Top)
        PROVE  /\ disk'.nodes[m].status \in Terminal => rec'[m].status = disk'.nodes[m].status
               /\ phase'[Top] \in {"schedule", "wave"} => disk'.nodes[m].status = rec'[m].status
    <3>1. CASE m = n
      BY <2>1, <3>1
    <3>2. CASE m # n
      BY <1>0, <2>1, <3>2 DEF Terminal
    <3> QED
      BY <3>1, <3>2
  <2> QED
    BY <2>2, <2>3 DEF DiskInv
<1>4. ASSUME EndProcess PROVE DiskInv'
  BY <1>4, EndEffect DEF DiskInv
<1>5. ASSUME StartCompensation \/ PassOver PROVE DiskInv'
  <2>1. /\ disk' = disk /\ rec' = rec /\ phase[Top] # "off"
        /\ phase'[Top] = "compensate"
    BY <1>5, TypeFacts, ScopeFacts DEF StartCompensation, PassOver
  <2>2. phase[Top] = "compensate" \/ phase[Top] = "done"
    BY <1>5 DEF StartCompensation, PassOver
  <2> QED
    BY <1>0, <2>1, <2>2 DEF DiskInv, Saved
<1>6. ASSUME Compensate PROVE DiskInv'
  BY <1>0, <1>6, CompensateEffect DEF DiskInv, Saved
<1>7. ASSUME Run PROVE DiskInv'
  <2>1. disk' = SavedRecord("running", rec) /\ rec' = rec
    BY <1>7 DEF Run
  <2>2. \A m \in Inside(Top) : disk'.nodes[m] = rec'[m]
    BY <2>1 DEF SavedRecord
  <2> QED
    BY <2>1, <2>2, SavedIsSaved DEF DiskInv
<1>8. ASSUME Resume PROVE DiskInv'
  <2>1. disk' = disk /\ Saved /\ phase' = [phase EXCEPT ![Top] = "schedule"]
        /\ \A m \in Inside(Top) : rec'[m] = Resumed(disk.nodes[m])
    BY <1>0, <1>8 DEF Resume, BeginProcess, Saved, Inside
  <2>2. disk.nodes \in [Inside(Top) -> NodeRecord]
    BY <2>1 DEF GraphInv, Shape, TypeOK, Saved
  <2>3. ASSUME NEW m \in Inside(Top)
        PROVE  \/ rec'[m] = disk.nodes[m]
               \/ disk.nodes[m].status = "awaiting_human" /\ rec'[m].status = "pending"
    BY <2>1, <2>2 DEF Resumed, NodeRecord
  <2> QED
    BY <2>1, <2>3 DEF DiskInv, Saved, Terminal
<1> QED
  BY <1>1, <1>2, <1>3, <1>4, <1>5, <1>6, <1>7, <1>8, StepCases
     DEF TopStep, Abandon, Finish, FinishFailed, FinalSave, Crash

\* The record of the graph is written by its scheduler and at the end.
LEMMA SaveCases ==
    ASSUME GraphInv, [Next]_vars
    PROVE  \/ disk' = disk
           \/ Merge(Top) \/ Run \/ Finish \/ FinishFailed
<1>1. CASE TopStill
  BY <1>1 DEF TopStill
<1>2. CASE TopStep
  BY <1>2, ScheduleEffect, ScopeFacts, CompensateEffect
     DEF TopStep, Abandon, StartCompensation, PassOver, Resume, Crash
<1> QED
  BY <1>1, <1>2, StepCases

LEMMA FailureStep == GraphInv /\ [Next]_vars => FailureCompensated'
<1> SUFFICES ASSUME GraphInv, [Next]_vars PROVE FailureCompensated'
  OBVIOUS
<1>1. CASE disk' = disk
  BY <1>1 DEF GraphInv, FailureCompensated, Saved
<1>2. CASE Merge(Top) \/ Run
  <2>1. disk'.status = "running"
    BY <1>2, MergeTopEffect, SavedIsSaved DEF Run
  <2> QED
    BY <2>1 DEF FailureCompensated
<1>3. CASE Finish
  <2>1. disk'.status \in {"awaiting_human", "succeeded"}
    BY <1>3, SavedIsSaved DEF Finish, FinalSave
  <2> QED
    BY <2>1 DEF FailureCompensated
<1>4. CASE FinishFailed
  <2>1. disk' = SavedRecord("failed", rec) /\ undo = {} /\ phase[Top] = "compensate"
    BY <1>4 DEF FinishFailed, FinalSave
  <2>2. \A m \in Inside(Top) : disk'.nodes[m] = rec[m]
    BY <2>1 DEF SavedRecord
  <2>3. \A m \in Inside(Top) : Compensation[m] # NoNode => Compensation[m] \in Inside(Top)
    BY GraphAssumption DEF Inside
  <2> QED
    BY <2>1, <2>2, <2>3 DEF GraphInv, UndoInv, FailureCompensated
<1> QED
  BY <1>1, <1>2, <1>3, <1>4, SaveCases

LEMMA UndoStep == GraphInv /\ [Next]_vars => UndoInv'
<1> SUFFICES ASSUME GraphInv, [Next]_vars, phase'[Top] = "compensate" PROVE UndoInv'
  BY DEF UndoInv
<1>0. UndoInv /\ Top \in Scopes
      /\ \A m \in Inside(Top) :
            m \in Nodes /\ (Compensation[m] # NoNode => Compensation[m] \in Inside(Top))
  BY GraphAssumption, ScopeFacts DEF GraphInv, Inside
<1>1. CASE TopStill
  BY <1>0, <1>1 DEF TopStill, UndoInv
<1>2. CASE StartCompensation
  BY <1>2 DEF StartCompensation, UndoInv
<1>3. CASE PassOver
  <2>1. /\ rec' = rec /\ phase' = phase /\ undo' = undo \ {Latest(undo)}
        /\ ~NeedsCompensation(Latest(undo))
    BY <1>3 DEF PassOver
  <2> QED
    BY <1>0, <2>1 DEF UndoInv, NeedsCompensation
<1>4. CASE Compensate
  <2> DEFINE n == Latest(undo)
             target == Compensation[n]
  <2>1. /\ n \in Inside(Top) /\ undo' = undo \ {n} /\ phase[Top] = "compensate"
        /\ target \in Compensators
        /\ rec'[target].status \in Outcomes
        /\ \A m \in Nodes \ {target} : rec'[m] = rec[m]
    BY <1>4, CompensateEffect
  <2>2. ASSUME NEW m \in Inside(Top) \ (Compensators \union undo'),
               rec'[m].status = "succeeded", Compensation[m] # NoNode
        PROVE  rec'[Compensation[m]].status # "pending"
    <3>1. CASE Compensation[m] = target
      BY <2>1, <3>1 DEF Outcomes, Terminal
    <3>2. CASE Compensation[m] # target
      <4>1. m # n /\ m # target /\ m \notin undo
        BY <2>1, <2>2, <3>2
      <4>2. rec'[m] = rec[m] /\ rec'[Compensation[m]] = rec[Compensation[m]]
        BY <1>0, <2>1, <2>2, <3>2, <4>1
      <4> QED
        BY <1>0, <2>1, <2>2, <4>1, <4>2 DEF UndoInv
    <3> QED
      BY <3>1, <3>2
  <2> QED
    BY <2>2 DEF UndoInv
<1>5. CASE Schedule(Top) \/ Merge(Top)
  BY <1>0, <1>5, ScheduleEffect, MergeTopEffect
<1>6. CASE Run \/ Resume
  BY <1>0, <1>6, TypeFacts DEF Run, Resume, BeginProcess
<1>7. CASE EndProcess
  BY <1>7, EndEffect
<1> QED
  BY <1>1, <1>2, <1>3, <1>4, <1>5, <1>6, <1>7, StepCases
     DEF TopStep, Abandon, Finish, FinishFailed, FinalSave, Crash

-----------------------------------------------------------------------------
(* Marks, and what a scheduler that is done leaves pending. *)

\* A node whose sources stay as they are stays beyond its join.
LEMMA MarkStays ==
    ASSUME NEW sk, NEW n \in Nodes, Resolved(sk, n), ~Joined(sk, n), edgeWhen' = edgeWhen,
           \A m \in Inside(Parent[n]) :
              StateIn(sk, m) \in Terminal => StateIn(skips, m)' = StateIn(sk, m)
    PROVE  Resolved(skips, n)' /\ ~Joined(skips, n)'
<1>1. \A e \in Incoming(n) : e.from \in Inside(Parent[n]) /\ StateIn(sk, e.from) \in Terminal
  BY EdgeFacts DEF Resolved, Inside
<1>2. \A e \in Incoming(n) : StateIn(skips, e.from)' = StateIn(sk, e.from)
  BY <1>1
<1>3. \A e \in Incoming(n) : Active(skips, e)' <=> Active(sk, e)
  BY <1>2 DEF Active
<1>4. {e \in Incoming(n) : Active(skips, e)}' = {e \in Incoming(n) : Active(sk, e)}
  BY <1>3 DEF Incoming
<1>5. Resolved(skips, n)'
  BY <1>1, <1>2 DEF Resolved, Incoming
<1> QED
  BY <1>4, <1>5 DEF Joined, Incoming

LEMMA SkipStep == GraphInv /\ [Next]_vars => SkipInv'
<1> SUFFICES ASSUME GraphInv, [Next]_vars, phase'[Top] # "compensate",
                    NEW n \in Inside(Top), n \in skips'
             PROVE  /\ rec'[n].status = "pending"
                    /\ Resolved(skips, n)' /\ ~Joined(skips, n)'
  BY DEF SkipInv
<1>0. /\ SkipInv /\ Top \in Scopes /\ n \in Nodes /\ Inside(Parent[n]) = Inside(Top)
      /\ \A m \in Inside(Top) : m \in Nodes
  BY ScopeFacts DEF GraphInv, Inside
<1>1. CASE TopStill
  <2>1. phase[Top] # "compensate" /\ n \in skips
    BY <1>1 DEF TopStill
  <2>2. PICK sk : sk = skips
    OBVIOUS
  <2>3. Resolved(sk, n) /\ ~Joined(sk, n) /\ rec[n].status = "pending"
    BY <1>0, <2>1, <2>2 DEF SkipInv
  <2>4. \A m \in Inside(Top) : StateIn(skips, m)' = StateIn(sk, m)
    BY <1>1, <2>2 DEF TopStill, StateIn
  <2> QED
    BY <1>0, <1>1, <2>3, <2>4, MarkStays DEF TopStill
<1>2. CASE Schedule(Top)
  <2>1. /\ edgeWhen' = edgeWhen /\ phase[Top] = "schedule" /\ skips \subseteq skips'
        /\ skips' \ skips \subseteq PendingIn(Top, skips)
        /\ \A m \in PendingIn(Top, skips) :
              m \in skips' <=> Resolved(skips', m) /\ ~Joined(skips', m)
        /\ \A m \in Nodes : \/ rec'[m] = rec[m]
                            \/ rec[m].status = "pending" /\ m \notin skips'
    BY <1>0, <1>2, ScheduleEffect
  <2>2. CASE n \in skips
    <3>1. PICK sk : sk = skips
      OBVIOUS
    <3>2. Resolved(sk, n) /\ ~Joined(sk, n) /\ rec[n].status = "pending"
      BY <1>0, <2>1, <2>2, <3>1 DEF SkipInv
    <3>3. ASSUME NEW m \in Inside(Top), StateIn(sk, m) \in Terminal
          PROVE  StateIn(skips, m)' = StateIn(sk, m)
      <4>1. CASE m \in skips
        BY <2>1, <3>1, <4>1 DEF StateIn
      <4>2. CASE m \notin skips
        <5>1. rec[m].status \in Terminal
          BY <3>1, <3>3, <4>2 DEF StateIn
        <5>2. m \notin skips'
          BY <2>1, <4>2, <5>1 DEF PendingIn, StateIn, Terminal
        <5>3. rec'[m] = rec[m]
          BY <1>0, <2>1, <5>1 DEF Terminal
        <5> QED
          BY <3>1, <4>2, <5>2, <5>3 DEF StateIn
      <4> QED
        BY <4>1, <4>2
    <3>4. rec'[n] = rec[n]
      BY <1>0, <2>1
    <3> QED
      BY <1>0, <2>1, <3>2, <3>3, <3>4, MarkStays
  <2>3. CASE n \notin skips
    <3>1. PICK sk : sk = skips'
      OBVIOUS
    <3>2. n \in PendingIn(Top, skips)
      BY <2>1, <2>3
    <3>3. Resolved(sk, n) /\ ~Joined(sk, n)
      BY <2>1, <3>1, <3>2
    <3>4. rec'[n] = rec[n] /\ rec[n].status = "pending"
      BY <1>0, <2>1, <2>3, <3>2 DEF PendingIn, StateIn
    <3>5. ASSUME NEW m \in Inside(Top), StateIn(sk, m) \in Terminal
          PROVE  StateIn(skips, m)' = StateIn(sk, m)
      <4>1. CASE m \in sk
        BY <3>1, <4>1 DEF StateIn
      <4>2. CASE m \notin sk
        <5>1. rec[m].status \in Terminal
          BY <3>5, <4>2 DEF StateIn
        <5>2. rec'[m] = rec[m]
          BY <1>0, <2>1, <5>1 DEF Terminal
        <5> QED
          BY <3>1, <4>2, <5>2 DEF StateIn
      <4> QED
        BY <4>1, <4>2
    <3> QED
      BY <1>0, <2>1, <3>3, <3>4, <3>5, MarkStays
  <2> QED
    BY <2>2, <2>3
<1>3. CASE Merge(Top)
  <2> DEFINE k == Earliest(wave[Top])
  <2>1. /\ phase[Top] = "wave" /\ edgeWhen' = edgeWhen /\ skips' = skips
        /\ rec[k].status = "pending" /\ k \notin skips
        /\ \A m \in Nodes \ {k} :
              rec'[m] = rec[m] \/ (rec[m].status = "pending" /\ m \notin skips)
    BY <1>3, MergeTopEffect
  <2> HIDE DEF k
  <2>2. PICK sk : sk = skips
    OBVIOUS
  <2>3. Resolved(sk, n) /\ ~Joined(sk, n) /\ rec[n].status = "pending" /\ n \in skips
    BY <1>0, <2>1, <2>2 DEF SkipInv
  <2>4. ASSUME NEW m \in Inside(Top), StateIn(sk, m) \in Terminal
        PROVE  StateIn(skips, m)' = StateIn(sk, m)
    <3>1. CASE m \in skips
      BY <2>1, <2>2, <3>1 DEF StateIn
    <3>2. CASE m \notin skips
      <4>1. rec[m].status \in Terminal
        BY <2>2, <2>4, <3>2 DEF StateIn
      <4>2. rec'[m] = rec[m]
        BY <1>0, <2>1, <4>1 DEF Terminal
      <4> QED
        BY <2>1, <2>2, <3>2, <4>2 DEF StateIn
    <3> QED
      BY <3>1, <3>2
  <2>5. rec'[n] = rec[n]
    BY <1>0, <2>1, <2>3
  <2> QED
    BY <1>0, <2>1, <2>3, <2>4, <2>5, MarkStays
<1>4. CASE EndProcess
  BY <1>4 DEF EndProcess
<1>5. CASE Run \/ Resume
  <2>1. phase[Top] = "off" /\ skips' = skips
    BY <1>5 DEF Run, Resume, BeginProcess, Stopped
  <2> QED
    BY <2>1 DEF GraphInv, StoppedInv
<1>6. CASE StartCompensation \/ PassOver \/ Compensate
  BY <1>0, <1>6, TypeFacts DEF StartCompensation, PassOver, Compensate
<1> QED
  BY <1>1, <1>2, <1>3, <1>4, <1>5, <1>6, StepCases
     DEF TopStep, Abandon, Finish, FinishFailed, FinalSave, Crash

\* When no node can run and none waits for a person, what is pending is marked: the first
\* pending node in topological order would be ready otherwise.
LEMMA NothingPending ==
    ASSUME GraphInv, Schedule(Top), Candidates(Top, skips') = {},
           NEW q \in Inside(Top), rec[q].status = "pending", q \notin skips'
    PROVE  \E m \in Inside(Top) : rec[m].status = "awaiting_human"
<1> DEFINE left == PendingIn(Top, skips')
           n == Earliest(left)
           ready == ReadyNodes(Top, skips')
<1>1. q \in left /\ left \in SUBSET Nodes
  BY ScopeFacts DEF PendingIn, StateIn
<1>2. n \in left /\ \A m \in left : Position[n] <= Position[m]
  BY <1>1, EarliestIn
<1>3. /\ n \in Inside(Top) /\ n \in Nodes /\ Parent[n] = Top
      /\ rec[n].status = "pending" /\ n \notin skips'
  BY <1>2 DEF PendingIn, StateIn, Inside
<1> HIDE DEF n, left
<1>4. SUFFICES ASSUME \A m \in Inside(Top) : rec[m].status # "awaiting_human" PROVE FALSE
  OBVIOUS
<1>5. Resolved(skips', n)
  <2> SUFFICES ASSUME NEW e \in Incoming(n) PROVE StateIn(skips', e.from) \in Terminal
    BY DEF Resolved
  <2>1. e.from \in Inside(Top) /\ e.from \in Nodes /\ Position[e.from] < Position[n]
    BY <1>3, EdgeFacts DEF Inside
  <2>2. e.from \notin left
    BY <1>2, <1>3, <2>1, PositionFacts
  <2>3. StateIn(skips', e.from) # "pending"
    BY <2>1, <2>2 DEF left, PendingIn
  <2>4. rec[e.from].status \in Outcomes \union {"pending"} /\ rec[e.from].status # "awaiting_human"
    BY <1>4, <2>1 DEF GraphInv, WaveInv
  <2> QED
    BY <2>3, <2>4 DEF StateIn, Outcomes, Terminal
<1>6. Joined(skips', n)
  <2>1. n \in PendingIn(Top, skips)
    BY <1>3, ScheduleEffect, ScopeFacts DEF PendingIn, StateIn
  <2> QED
    BY <1>3, <1>5, <2>1, ScheduleEffect, ScopeFacts
<1>7. n \in ready
  BY <1>2, <1>5, <1>6 DEF ReadyNodes, left
<1>8. {m \in ready : Before(m, n)} = {}
  <2>1. ready \subseteq left
    BY DEF ReadyNodes, left
  <2>2. \A m \in left : m \in Nodes /\ Position[n] <= Position[m]
    BY <1>1, <1>2
  <2> HIDE DEF ready
  <2> QED
    BY <1>3, <2>1, <2>2, PositionFacts DEF Before
<1>9. n \in Candidates(Top, skips')
  <2>1. Cardinality({m \in ready : Before(m, n)}) = 0 /\ Limit(Top) \in Nat \ {0}
    BY <1>8, FS_EmptySet, GraphAssumption DEF Limit
  <2> QED
    BY <1>7, <2>1 DEF Candidates
<1> QED
  BY <1>9

LEMMA DoneStep == GraphInv /\ [Next]_vars => DoneInv'
<1> SUFFICES ASSUME GraphInv, [Next]_vars, phase'[Top] = "done" PROVE DoneInv'
  BY DEF DoneInv
<1>0. DoneInv /\ Top \in Scopes /\ \A m \in Inside(Top) : m \in Nodes
  BY ScopeFacts DEF GraphInv
<1>1. CASE TopStill
  BY <1>0, <1>1 DEF TopStill, DoneInv, TopStatuses
<1>2. CASE Schedule(Top)
  <2>1. Candidates(Top, skips') = {} /\ rec' = rec
    BY <1>0, <1>2, ScheduleEffect
  <2> QED
    BY <1>2, <2>1, NothingPending DEF DoneInv, TopStatuses
<1>3. CASE Merge(Top)
  <2> DEFINE n == Earliest(wave[Top])
  <2>1. /\ n \in Inside(Top) /\ rec'[n].status = result[n].status
        /\ budgetFailed' \/ (result[n].status = "awaiting_human" /\ rec' = Merged(n))
    BY <1>3, MergeTopEffect
  <2> HIDE DEF n
  <2> QED
    BY <2>1 DEF DoneInv, TopStatuses
<1>4. CASE EndProcess
  BY <1>4, EndEffect
<1>5. CASE Run \/ Resume \/ StartCompensation \/ PassOver \/ Compensate
  BY <1>0, <1>5, TypeFacts
     DEF Run, Resume, BeginProcess, StartCompensation, PassOver, Compensate
<1> QED
  BY <1>1, <1>2, <1>3, <1>4, <1>5, StepCases
     DEF TopStep, Abandon, Finish, FinishFailed, FinalSave, Crash

-----------------------------------------------------------------------------
(* Joins, in the saved record. *)

\* The edges into n whose source the record holds with the outcome they need.
RecordedEdges(n) ==
    {e \in Incoming(n) :
        disk.nodes[e.from].status \in IF e.kind = "on_failure" THEN {"failed", "blocked"}
                                                               ELSE {"succeeded"}}

\* No thread is on when no process executes the run.
LEMMA NoThread ==
    ASSUME GraphInv, phase[Top] = "off"
    PROVE  \A n \in Nodes : thread[n] = "off"
BY ScopeFacts DEF GraphInv, StoppedInv, ThreadInv

LEMMA DependenciesStep == GraphInv /\ [Next]_vars => DependenciesDurable'
<1> SUFFICES ASSUME GraphInv, [Next]_vars, NEW n \in Inside(Top), thread'[n] # "off"
             PROVE  \/ Incoming(n) = {} /\ n \in Entrypoints
                    \/ Cardinality(RecordedEdges(n)') >= JoinCount[n]
  BY DEF DependenciesDurable, RecordedEdges
<1>0. /\ Top \in Scopes /\ n \in Nodes /\ Parent[n] = Top /\ JoinCount[n] \in Nat
      /\ thread[n] # "off" =>
            \/ Incoming(n) = {} /\ n \in Entrypoints
            \/ Cardinality(RecordedEdges(n)) >= JoinCount[n]
      /\ \A e \in Incoming(n) : e.from \in Inside(Top) /\ e.from \in Nodes /\ e \in Edges
  BY ScopeFacts, EdgeFacts, GraphAssumption
     DEF GraphInv, DependenciesDurable, RecordedEdges, Inside
<1>1. CASE disk' = disk /\ thread[n] # "off"
  BY <1>0, <1>1 DEF RecordedEdges
<1>2. CASE TopStill
  BY <1>1, <1>2 DEF TopStill
<1>3. CASE Schedule(Top) /\ thread[n] = "off"
  <2>1. disk' = disk /\ phase[Top] = "schedule"
    BY <1>0, <1>3, ScheduleEffect
  <2>2. n \in Runnable(Candidates(Top, skips'))
    BY <1>0, <1>3 DEF Schedule
  <2>3. Joined(skips', n)
    BY <2>2 DEF Runnable, Candidates, ReadyNodes
  <2>4. {e \in Incoming(n) : Active(skips', e)} \subseteq RecordedEdges(n)'
    <3> SUFFICES ASSUME NEW e \in Incoming(n), Active(skips', e) PROVE e \in RecordedEdges(n)'
      OBVIOUS
    <3> DEFINE good == IF e.kind = "on_failure" THEN {"failed", "blocked"} ELSE {"succeeded"}
    <3>1. StateIn(skips', e.from) \in good /\ good \subseteq {"succeeded", "failed", "blocked"}
      BY DEF Active
    <3>2. rec[e.from].status \in good /\ rec[e.from].status \in {"succeeded", "failed", "blocked"}
      BY <3>1 DEF StateIn
    <3>3. disk.nodes[e.from].status = rec[e.from].status
      BY <1>0, <2>1, <3>2 DEF GraphInv, DiskInv
    <3> QED
      BY <2>1, <3>2, <3>3 DEF RecordedEdges
  <2>5. CASE Incoming(n) = {}
    BY <2>3, <2>5 DEF Joined
  <2>6. CASE Incoming(n) # {}
    <3> DEFINE A == {e \in Incoming(n) : Active(skips', e)}
               B == RecordedEdges(n)'
    <3>1. Cardinality(A) >= JoinCount[n]
      BY <2>3, <2>6 DEF Joined
    <3>2. A \in SUBSET Edges /\ B \in SUBSET Edges /\ A \subseteq B
      BY <1>0, <2>4 DEF RecordedEdges, Incoming
    <3> HIDE DEF A, B
    <3>3. Cardinality(A) \in Nat /\ Cardinality(B) \in Nat /\ Cardinality(A) <= Cardinality(B)
      BY <3>2, MoreEdges
    <3>4. Cardinality(B) >= JoinCount[n]
      BY <1>0, <3>1, <3>3
    <3> QED
      BY <3>4 DEF B
  <2> QED
    BY <2>5, <2>6
<1>4. CASE Merge(Top)
  <2> DEFINE k == Earliest(wave[Top])
  <2>1. /\ rec[k].status = "pending"
        /\ \A m \in Inside(Top) \ {k} : disk'.nodes[m] = rec[m]
        /\ phase[Top] = "wave"
    BY <1>4, MergeTopEffect
  <2>2. thread[n] # "off"
    BY <1>0, <1>4, TypeFacts DEF Merge, Pause, StopAtBudget, Continue, Dismiss
  <2> HIDE DEF k
  <2>3. RecordedEdges(n) \subseteq RecordedEdges(n)'
    <3> SUFFICES ASSUME NEW e \in Incoming(n), e \in RecordedEdges(n)
                 PROVE  e \in RecordedEdges(n)'
      BY DEF RecordedEdges
    <3>1. disk.nodes[e.from].status \in {"succeeded", "failed", "blocked"}
      BY DEF RecordedEdges
    <3>2. rec[e.from].status = disk.nodes[e.from].status
      BY <1>0, <2>1, <3>1 DEF GraphInv, DiskInv, Terminal
    <3>3. disk'.nodes[e.from].status = disk.nodes[e.from].status
      BY <1>0, <2>1, <3>1, <3>2
    <3> QED
      BY <3>3 DEF RecordedEdges
  <2> DEFINE A == RecordedEdges(n)
             B == RecordedEdges(n)'
  <2>4. A \in SUBSET Edges /\ B \in SUBSET Edges /\ A \subseteq B
    BY <1>0, <2>3 DEF RecordedEdges, Incoming
  <2> HIDE DEF A, B
  <2>5. Cardinality(A) \in Nat /\ Cardinality(B) \in Nat /\ Cardinality(A) <= Cardinality(B)
    BY <2>4, MoreEdges
  <2>6. Cardinality(A) >= JoinCount[n] => Cardinality(B) >= JoinCount[n]
    BY <1>0, <2>5
  <2> QED
    BY <1>0, <2>2, <2>6 DEF A, B
<1>5. CASE EndProcess
  BY <1>0, <1>5 DEF EndProcess
<1>6. CASE StartCompensation \/ PassOver \/ Compensate
  <2>1. disk' = disk /\ thread' = thread
    BY <1>6 DEF StartCompensation, PassOver, Compensate
  <2> QED
    BY <1>1, <2>1
<1>7. CASE Run \/ Resume
  <2>1. phase[Top] = "off" /\ thread' = thread
    BY <1>7 DEF Run, Resume, BeginProcess, Stopped
  <2> QED
    BY <1>0, <2>1, NoThread
<1>8. Schedule(Top) => disk' = disk
  BY <1>0, ScheduleEffect
<1> QED
  BY <1>1, <1>2, <1>3, <1>4, <1>5, <1>6, <1>7, <1>8, StepCases
     DEF TopStep, Abandon, Finish, FinishFailed, FinalSave, Crash

LEMMA SuccessStep == GraphInv /\ [Next]_vars => SuccessIsComplete'
<1> SUFFICES ASSUME GraphInv, [Next]_vars PROVE SuccessIsComplete'
  OBVIOUS
<1>0. edgeWhen' = edgeWhen
  <2>1. CASE TopStill
    BY <2>1 DEF TopStill
  <2>2. CASE TopStep
    BY <2>2, ScheduleEffect, ScopeFacts, MergeTopEffect, CompensateEffect
       DEF TopStep, Abandon, StartCompensation, PassOver, Run, Resume, Crash, BeginProcess,
           Finish, FinishFailed, FinalSave, control
  <2> QED
    BY <2>1, <2>2, StepCases
<1>1. CASE disk' = disk
  BY <1>0, <1>1 DEF GraphInv, SuccessIsComplete, Saved
<1>2. CASE Merge(Top) \/ Run
  <2>1. disk'.status = "running"
    BY <1>2, MergeTopEffect, SavedIsSaved DEF Run
  <2> QED
    BY <2>1 DEF SuccessIsComplete
<1>3. CASE FinishFailed
  <2>1. disk'.status = "failed"
    BY <1>3, SavedIsSaved DEF FinishFailed, FinalSave
  <2> QED
    BY <2>1 DEF SuccessIsComplete
<1>4. CASE Finish
  <2>1. CASE FinalSave("awaiting_human")
    <3>1. disk'.status = "awaiting_human"
      BY <2>1, SavedIsSaved DEF FinalSave
    <3> QED
      BY <3>1 DEF SuccessIsComplete
  <2>2. CASE ~FinalSave("awaiting_human")
    <3>1. /\ phase[Top] = "done" /\ "awaiting_human" \notin TopStatuses /\ ~RunFailed
          /\ disk' = SavedRecord("succeeded", rec)
      BY <1>4, <2>2 DEF Finish, FinalSave
    <3>2. \A m \in Inside(Top) : disk'.nodes[m] = rec[m] /\ m \in Nodes
      BY <3>1, ScopeFacts DEF SavedRecord
    <3>3. ASSUME NEW n \in Inside(Top)
          PROVE  \/ rec[n].status \in {"succeeded", "skipped"}
                 \/ rec[n].status = "pending" /\ n \in skips
      <4>1. rec[n].status \in TopStatuses /\ rec[n].status \in Outcomes \union {"pending"}
        BY <3>2 DEF TopStatuses, GraphInv, WaveInv
      <4>2. rec[n].status \in {"succeeded", "skipped", "pending"}
        BY <3>1, <4>1 DEF RunFailed, Outcomes, Terminal
      <4>3. ~budgetFailed
        BY <3>1 DEF RunFailed
      <4> QED
        BY <3>1, <4>2, <4>3 DEF GraphInv, DoneInv
    <3>4. ASSUME NEW n \in Inside(Top), rec[n].status = "pending", n \in skips
          PROVE  IF Incoming(n) = {} THEN n \notin Entrypoints ELSE
                     Cardinality({e \in Incoming(n) :
                         /\ e \in WhenEdges => edgeWhen'[e]
                         /\ disk'.nodes[e.from].status \in
                               IF e.kind = "on_failure" THEN {"failed", "blocked"}
                                                        ELSE {"succeeded"}}) < JoinCount[n]
      <4>1. ~Joined(skips, n) /\ n \in Nodes /\ Parent[n] = Top
        BY <3>1, <3>4, ScopeFacts DEF GraphInv, SkipInv, Inside
      <4>2. ASSUME NEW e \in Incoming(n)
            PROVE  /\ e.from \in Inside(Top)
                   /\ StateIn(skips, e.from) \in {"failed", "blocked"}
                         <=> rec[e.from].status \in {"failed", "blocked"}
                   /\ StateIn(skips, e.from) \in {"succeeded"}
                         <=> rec[e.from].status \in {"succeeded"}
        <5>1. e.from \in Inside(Top)
          BY <4>1, EdgeFacts DEF Inside
        <5>2. e.from \in skips => rec[e.from].status = "pending"
          BY <3>1, <5>1 DEF GraphInv, SkipInv
        <5> QED
          BY <5>1, <5>2 DEF StateIn
      <4> DEFINE A == {e \in Incoming(n) : Active(skips, e)}
                 B == {e \in Incoming(n) :
                         /\ e \in WhenEdges => edgeWhen'[e]
                         /\ disk'.nodes[e.from].status \in
                               IF e.kind = "on_failure" THEN {"failed", "blocked"}
                                                        ELSE {"succeeded"}}
      <4>3. A = B
        <5> SUFFICES ASSUME NEW e \in Incoming(n)
                     PROVE  Active(skips, e) <=>
                              /\ e \in WhenEdges => edgeWhen'[e]
                              /\ disk'.nodes[e.from].status \in
                                    IF e.kind = "on_failure" THEN {"failed", "blocked"}
                                                             ELSE {"succeeded"}
          OBVIOUS
        <5>1. disk'.nodes[e.from] = rec[e.from]
          BY <3>2, <4>2
        <5>2. CASE e.kind = "on_failure"
          BY <1>0, <4>2, <5>1, <5>2 DEF Active
        <5>3. CASE e.kind # "on_failure"
          BY <1>0, <4>2, <5>1, <5>3 DEF Active
        <5> QED
          BY <5>2, <5>3
      <4>4. Cardinality(A) \in Nat /\ JoinCount[n] \in Nat
        <5>1. A \in SUBSET Edges
          BY <4>1, EdgeFacts
        <5> QED
          BY <4>1, <5>1, MoreEdges, GraphAssumption
      <4>5. IF Incoming(n) = {} THEN n \notin Entrypoints ELSE ~(Cardinality(A) >= JoinCount[n])
        BY <4>1 DEF Joined
      <4> HIDE DEF A
      <4>6. IF Incoming(n) = {} THEN n \notin Entrypoints ELSE Cardinality(A) < JoinCount[n]
        BY <4>4, <4>5
      <4> QED
        BY <4>3, <4>6
    <3> QED
      BY <3>2, <3>3, <3>4 DEF SuccessIsComplete, Incoming
  <2> QED
    BY <2>1, <2>2
<1> QED
  BY <1>1, <1>2, <1>3, <1>4, SaveCases

-----------------------------------------------------------------------------
(* Threads. *)

\* What a thread returns is an outcome, or an exception of its work or of its fragment.
Reports(n) ==
    \E r \in Result : /\ r.status # "none" /\ result' = [result EXCEPT ![n] = r]
                      /\ r.status = "raised" => \/ "raised" \in MayReturn[n]
                                                \/ n \in Composites /\ phase[n] = "raised"

\* A node's thread starts its work, or returns its outcome.
StayStep(n) ==
    /\ thread[n] \in {"queued", "working"}
    /\ UNCHANGED <<wave, phase, rec, skips, iter, items, depth>>
    /\ \E label \in {"working", "entering", "returned"} :
          /\ thread' = [thread EXCEPT ![n] = label]
          /\ label = "working" => Works(n)
          /\ label = "entering" => Kind[n] = "subgraph"
          /\ IF label = "returned" THEN Reports(n) ELSE result' = result

\* Only the node's own count of iterations, and of items, changes.
OwnCounts(n) ==
    /\ iter' = [iter EXCEPT ![n] = iter'[n]]
    /\ items' = [items EXCEPT ![n] = items'[n]]

OpenStep(n) ==
    /\ n \in Composites /\ thread[n] # "off" /\ phase[n] \in {"off", "done"}
    /\ OpenFragment(n)
    /\ UNCHANGED <<wave, result>>
    /\ depth' = IF thread[n] = "entering" THEN depth + 1 ELSE depth
    /\ Kind[n] = "subgraph" <=> thread[n] = "entering"
    /\ Kind[n] = "loop" => iter'[n] < MaxIterations
    /\ Kind[n] = "map" => items'[n].left > 0
    /\ OwnCounts(n)

CloseStep(n) ==
    /\ n \in Composites /\ thread[n] # "off" /\ phase[n] \in {"off", "done", "raised"}
    /\ phase' = [phase EXCEPT ![n] = "off"]
    /\ thread' = [thread EXCEPT ![n] = "returned"]
    /\ UNCHANGED <<wave, rec, skips>>
    /\ Reports(n)
    /\ depth' = IF Kind[n] = "subgraph" /\ thread[n] = "fragment" THEN depth - 1 ELSE depth
    /\ OwnCounts(n)

LEMMA ReturnedResult ==
    ASSUME NEW n \in Nodes, NEW status \in Outcomes \union {"raised"}, NEW b \in BOOLEAN,
           Returns(n, status, b),
           status = "raised" => \/ "raised" \in MayReturn[n]
                                \/ n \in Composites /\ phase[n] = "raised"
    PROVE  /\ thread' = [thread EXCEPT ![n] = "returned"]
           /\ Reports(n)
<1> DEFINE r == [status |-> status, ran |-> b]
<1>1. r \in Result /\ r.status # "none" /\ r.status = status
  BY DEF Result, Outcomes, Terminal
<1>2. result' = [result EXCEPT ![n] = r]
  BY DEF Returns
<1> HIDE DEF r
<1> QED
  BY <1>1, <1>2 DEF Returns, Reports

LEMMA OutcomeNames ==
    /\ {"failed", "succeeded", "blocked", "awaiting_human"} \subseteq Outcomes
    /\ \A n \in Nodes : MayReturn[n] \subseteq Outcomes \union {"raised"}
    /\ \A n \in Nodes : /\ GateReturns(n) \subseteq Outcomes \union {"raised"}
                         /\ "raised" \in GateReturns(n) => "raised" \in MayReturn[n]
<1>1. /\ {"failed", "succeeded", "blocked", "awaiting_human"} \subseteq Outcomes
      /\ \A n \in Nodes : MayReturn[n] \subseteq Outcomes \union {"raised"}
  BY GraphAssumption DEF Outcomes, Terminal
<1>2. ASSUME NEW n \in Nodes
      PROVE  /\ GateReturns(n) \subseteq Outcomes \union {"raised"}
             /\ "raised" \in GateReturns(n) => "raised" \in MayReturn[n]
  BY <1>1 DEF GateReturns
<1> QED
  BY <1>1, <1>2

LEMMA NodeCases ==
    ASSUME GraphInv, NEW n \in Nodes, NodeStep(n)
    PROVE  StayStep(n) \/ OpenStep(n) \/ CloseStep(n)
<1> USE DEF Admit
<1>0. thread[n] # "off" /\ (n \in Composites => (phase[n] # "off" <=> thread[n] = "fragment"))
  BY NodeRuns DEF GraphInv, ThreadInv
<1>i. iter = [iter EXCEPT ![n] = iter[n]] /\ items = [items EXCEPT ![n] = items[n]]
  BY DEF GraphInv, Shape, TypeOK
<1>1. ASSUME Exhausted(n) PROVE StayStep(n)
  <2>1. /\ thread' = [thread EXCEPT ![n] = "returned"]
        /\ Reports(n)
    BY <1>1, OutcomeNames, ReturnedResult DEF Exhausted
  <2> QED
    BY <1>1, <2>1 DEF Exhausted, StayStep
<1>2. ASSUME Refrain(n) PROVE StayStep(n)
  <2>1. /\ thread' = [thread EXCEPT ![n] = "returned"]
        /\ Reports(n)
    BY <1>2, OutcomeNames, ReturnedResult DEF Refrain
  <2> QED
    BY <1>2, <2>1 DEF Refrain, StayStep
<1>3. ASSUME Begin(n) PROVE StayStep(n)
  BY <1>3 DEF Begin, StayStep
<1>4. ASSUME End(n) PROVE StayStep(n)
  <2>1. PICK status \in MayReturn[n] : Returns(n, status, Kind[n] = "task")
    BY <1>4 DEF End
  <2>2. (Kind[n] = "task") \in BOOLEAN /\ status \in Outcomes \union {"raised"}
    BY <2>1, OutcomeNames
  <2>3. /\ thread' = [thread EXCEPT ![n] = "returned"]
        /\ Reports(n)
    BY <2>1, <2>2, ReturnedResult
  <2> QED
    BY <1>4, <2>3 DEF End, StayStep
<1>5. ASSUME Gate(n) PROVE StayStep(n)
  <2>1. /\ thread' = [thread EXCEPT ![n] = "returned"]
        /\ Reports(n)
    <3>0. \A status \in GateReturns(n) : /\ status \in Outcomes \union {"raised"}
                                         /\ status = "raised" => "raised" \in MayReturn[n]
      BY OutcomeNames DEF GateReturns
    <3>1. \E status \in GateReturns(n) : Returns(n, status, FALSE)
      BY <1>5 DEF Gate
    <3>2. PICK status : /\ Returns(n, status, FALSE)
                        /\ status \in Outcomes \union {"raised"}
                        /\ status = "raised" => "raised" \in MayReturn[n]
      BY <3>0, <3>1
    <3> QED
      BY <3>2, ReturnedResult
  <2> QED
    BY <1>5, <2>1 DEF Gate, StayStep
<1>6. ASSUME EnterSubgraph(n) PROVE StayStep(n)
  <2>1. CASE depth >= MaxDepth
    <3>1. /\ thread' = [thread EXCEPT ![n] = "returned"]
          /\ Reports(n)
      BY <1>6, <2>1, OutcomeNames, ReturnedResult DEF EnterSubgraph
    <3> QED
      BY <1>6, <3>1 DEF EnterSubgraph, StayStep
  <2>2. CASE ~(depth >= MaxDepth)
    BY <1>6, <2>2 DEF EnterSubgraph, StayStep
  <2> QED
    BY <2>1, <2>2
<1>7. ASSUME Descend(n) PROVE OpenStep(n)
  <2>1. Kind[n] = "subgraph" /\ n \in Composites
    BY <1>7 DEF Descend, GraphInv, LabelInv, Composites
  <2> QED
    BY <1>0, <1>i, <1>7, <2>1 DEF Descend, OpenStep, OwnCounts
<1>c. ASSUME NEW x \in Outcomes, LoopReturns(n, x), wave' = wave, depth' = depth,
             n \in Composites, Kind[n] # "subgraph", phase[n] \in {"off", "done"}, OwnCounts(n)
      PROVE  CloseStep(n)
  <2>1. /\ thread' = [thread EXCEPT ![n] = "returned"]
        /\ Reports(n)
    <3>1. Returns(n, x, FALSE) /\ x # "raised"
      BY <1>c DEF LoopReturns, Outcomes, Terminal
    <3> QED
      BY <1>c, <3>1, ReturnedResult
  <2> QED
    BY <1>0, <1>c, <2>1 DEF LoopReturns, CloseStep
<1>8. ASSUME EnterLoop(n) \/ LeaveIteration(n) PROVE OpenStep(n) \/ CloseStep(n)
  <2>1. /\ Kind[n] = "loop" /\ n \in Composites /\ wave' = wave /\ depth' = depth
        /\ phase[n] \in {"off", "done"} /\ thread[n] # "entering"
    BY <1>0, <1>8, TypeFacts, ScopeFacts DEF EnterLoop, LeaveIteration, FragmentOver, Composites
  <2>2. OwnCounts(n)
    <3>1. CASE EnterLoop(n)
      BY <1>i, <3>1 DEF EnterLoop, OwnCounts
    <3>2. CASE LeaveIteration(n)
      <4>1. iter' = Counted(n) /\ items' = items
        BY <3>2 DEF LeaveIteration
      <4> QED
        BY <1>i, <4>1, TypeFacts DEF Counted, OwnCounts
    <3> QED
      BY <1>8, <3>1, <3>2
  <2>3. CASE OpenFragment(n) /\ result' = result /\ iter'[n] < MaxIterations
    BY <1>0, <2>1, <2>2, <2>3 DEF OpenStep
  <2>4. CASE \E x \in Outcomes : LoopReturns(n, x)
    BY <1>c, <2>1, <2>2, <2>4
  <2> QED
    BY <1>8, <2>3, <2>4, OutcomeNames DEF EnterLoop, LeaveIteration, NextIteration
<1>9. ASSUME EnterMap(n) \/ LeaveItem(n) PROVE StayStep(n) \/ OpenStep(n) \/ CloseStep(n)
  <2>1. /\ Kind[n] = "map" /\ n \in Composites /\ wave' = wave /\ depth' = depth
        /\ phase[n] \in {"off", "done"} /\ thread[n] # "entering"
    BY <1>0, <1>9, TypeFacts, ScopeFacts DEF EnterMap, LeaveItem, FragmentOver, Composites
  <2>2. CASE /\ EnterMap(n) /\ Returns(n, "failed", FALSE)
             /\ UNCHANGED <<phase, rec, skips, items>>
    <3>1. /\ thread' = [thread EXCEPT ![n] = "returned"]
          /\ Reports(n)
      BY <2>2, OutcomeNames, ReturnedResult
    <3> QED
      BY <2>2, <3>1 DEF EnterMap, StayStep
  <2>3. CASE OwnCounts(n) /\ (NextItem(n) \/ LoopReturns(n, "failed"))
    <3>1. CASE OpenFragment(n) /\ result' = result /\ items'[n].left > 0
      BY <1>0, <2>1, <2>3, <3>1 DEF OpenStep
    <3>2. CASE \E x \in Outcomes : LoopReturns(n, x)
      BY <1>c, <2>1, <2>3, <3>2
    <3> QED
      BY <2>3, <3>1, <3>2, OutcomeNames DEF NextItem
  <2>4. EnterMap(n) => \/ Returns(n, "failed", FALSE) /\ UNCHANGED <<phase, rec, skips, items>>
                       \/ OwnCounts(n) /\ NextItem(n)
    <3> SUFFICES ASSUME EnterMap(n), NEW count \in MapItems, NextItem(n),
                        items' = [items EXCEPT ![n] = [left |-> count, won |-> 0]]
                 PROVE  OwnCounts(n)
      BY DEF EnterMap
    <3>1. iter' = iter
      BY DEF EnterMap
    <3>2. items' = [items EXCEPT ![n] = items'[n]]
      BY DEF GraphInv, Shape, TypeOK
    <3> QED
      BY <1>i, <3>1, <3>2 DEF OwnCounts
  <2>5. LeaveItem(n) => OwnCounts(n) /\ (NextItem(n) \/ LoopReturns(n, "failed"))
    <3> SUFFICES ASSUME LeaveItem(n) PROVE OwnCounts(n)
      BY DEF LeaveItem
    <3>1. iter' = iter /\ \E x : items' = [items EXCEPT ![n] = x]
      BY DEF LeaveItem
    <3>2. items' = [items EXCEPT ![n] = items'[n]]
      BY <3>1 DEF GraphInv, Shape, TypeOK
    <3> QED
      BY <1>i, <3>1, <3>2 DEF OwnCounts
  <2> QED
    BY <1>9, <2>2, <2>3, <2>4, <2>5
<1>10. ASSUME LeaveSubgraph(n) \/ LeaveRaised(n) PROVE CloseStep(n)
  <2>1. /\ n \in Composites /\ phase[n] \in {"done", "raised"} /\ thread[n] = "fragment"
        /\ phase' = [phase EXCEPT ![n] = "off"]
        /\ UNCHANGED <<wave, rec, skips, iter, items>>
        /\ depth' = IF Kind[n] = "subgraph" THEN depth - 1 ELSE depth
    BY <1>0, <1>10 DEF LeaveSubgraph, LeaveRaised, FragmentOver, Composites
  <2>2. \E x \in Outcomes \union {"raised"} :
           Returns(n, x, FALSE) /\ (x = "raised" => phase[n] = "raised")
    <3>1. CASE LeaveSubgraph(n)
      <4>1. Returns(n, "failed", FALSE) \/ Returns(n, "succeeded", FALSE)
        BY <3>1 DEF LeaveSubgraph
      <4>2. "failed" \in Outcomes /\ "succeeded" \in Outcomes
        BY OutcomeNames
      <4>3. PICK x \in {"failed", "succeeded"} : Returns(n, x, FALSE)
        BY <4>1
      <4> QED
        BY <4>2, <4>3
    <3>2. CASE LeaveRaised(n)
      BY <3>2 DEF LeaveRaised
    <3> QED
      BY <1>10, <3>1, <3>2
  <2>3. /\ thread' = [thread EXCEPT ![n] = "returned"]
        /\ Reports(n)
    BY <2>1, <2>2, ReturnedResult
  <2> QED
    BY <1>i, <2>1, <2>3 DEF CloseStep, OwnCounts
<1> QED
  BY <1>1, <1>2, <1>3, <1>4, <1>5, <1>6, <1>7, <1>8, <1>9, <1>10 DEF NodeStep

-----------------------------------------------------------------------------
(* Waves. *)

\* A wave is no larger than the limit: all but its last node are ready before that one.
LEMMA WaveBounded ==
    ASSUME NEW s \in Scopes, NEW sk
    PROVE  /\ IsFiniteSet(Runnable(Candidates(s, sk)))
           /\ Cardinality(Runnable(Candidates(s, sk))) <= Limit(s)
<1> DEFINE ready == ReadyNodes(s, sk)
           cands == Candidates(s, sk)
           last == Latest(cands)
           earlier == {m \in ready : Before(m, last)}
<1>1. ready \in SUBSET Nodes /\ cands \subseteq ready /\ Runnable(cands) \subseteq cands
  BY ScopeFacts DEF ReadyNodes, PendingIn, Candidates, Runnable
<1>2. IsFiniteSet(ready) /\ IsFiniteSet(cands) /\ IsFiniteSet(earlier)
  BY <1>1, NodesFinite, FS_Subset
<1>3. Limit(s) \in Nat \ {0}
  BY GraphAssumption DEF Limit
<1>4. Cardinality(cands) <= Limit(s)
  <2>1. CASE cands = {}
    BY <1>3, <2>1, FS_EmptySet
  <2>2. CASE cands # {}
    <3>1. last \in cands /\ \A m \in cands : Position[m] <= Position[last]
      <4>1. cands \in SUBSET Nodes
        BY <1>1
      <4> HIDE DEF cands
      <4> QED
        BY <2>2, <4>1, LatestIn
    <3>2. cands \ {last} \subseteq earlier
      BY <1>1, <3>1, PositionFacts DEF Before
    <3>3. Cardinality(earlier) < Limit(s)
      BY <3>1 DEF Candidates
    <3>4. /\ Cardinality(cands \ {last}) = Cardinality(cands) - 1
          /\ Cardinality(cands) \in Nat
      BY <1>2, <3>1, FS_RemoveElement, FS_CardinalityType
    <3>5. Cardinality(cands \ {last}) <= Cardinality(earlier) /\ Cardinality(earlier) \in Nat
      BY <1>2, <3>2, FS_Subset, FS_CardinalityType
    <3> HIDE DEF cands, earlier
    <3> QED
      BY <1>3, <3>3, <3>4, <3>5
  <2> QED
    BY <2>1, <2>2
<1>5. /\ IsFiniteSet(Runnable(cands)) /\ Cardinality(Runnable(cands)) <= Cardinality(cands)
      /\ Cardinality(Runnable(cands)) \in Nat /\ Cardinality(cands) \in Nat
  BY <1>1, <1>2, FS_Subset, FS_CardinalityType
<1> HIDE DEF cands
<1> QED
  BY <1>3, <1>4, <1>5 DEF cands

\* The nodes chosen for a wave are pending and unmarked, and their threads are queued.
LEMMA ScheduleThreads ==
    ASSUME GraphInv, NEW s \in Scopes, Schedule(s)
    PROVE  /\ phase[s] = "schedule" /\ wave[s] = {}
           /\ \A q \in Scopes \ {s} : wave'[q] = wave[q] /\ phase'[q] = phase[q]
           /\ wave' = [q \in Scopes |-> wave'[q]]
           /\ wave'[s] \subseteq Inside(s) /\ Cardinality(wave'[s]) <= Limit(s)
           /\ phase'[s] \in {"schedule", "wave", "done"}
           /\ phase'[s] = "wave" <=> wave'[s] # {}
           /\ \A n \in Nodes : thread'[n] = IF n \in wave'[s] THEN "queued" ELSE thread[n]
           /\ \A n \in wave'[s] : /\ thread[n] = "off" /\ rec'[n].status = "pending"
                                  /\ n \notin skips'
           /\ UNCHANGED <<result, iter, items, depth>>
<1> DEFINE cands == Candidates(s, skips')
           chosen == Runnable(cands)
<1>1. phase[s] = "schedule" /\ wave[s] = {} /\ UNCHANGED <<result, iter, items, depth>>
  BY DEF Schedule, GraphInv, ThreadInv
<1>2. chosen \subseteq cands /\ cands \subseteq Inside(s) /\ Inside(s) \subseteq Nodes
  BY ScopeFacts DEF Runnable, Candidates, ReadyNodes, PendingIn
<1>3. \A n \in chosen : /\ WhenHolds(n) /\ rec[n].status = "pending" /\ n \notin skips'
                        /\ thread[n] = "off"
  <2> SUFFICES ASSUME NEW n \in chosen
               PROVE  /\ WhenHolds(n) /\ rec[n].status = "pending" /\ n \notin skips'
                      /\ thread[n] = "off"
    OBVIOUS
  <2>1. WhenHolds(n) /\ StateIn(skips', n) = "pending"
    BY DEF Runnable, Candidates, ReadyNodes, PendingIn
  <2>2. n \notin wave[Parent[n]] /\ n \in Nodes
    BY <1>1, <1>2 DEF Inside
  <2> QED
    BY <2>1, <2>2 DEF StateIn, GraphInv, ThreadInv
<1>4. CASE cands = {}
  <2>1. /\ phase' = [phase EXCEPT ![s] = "done"] /\ rec' = rec /\ wave' = wave
        /\ thread' = thread
    BY <1>4 DEF Schedule
  <2>2. Cardinality(wave'[s]) <= Limit(s)
    <3>1. Limit(s) \in Nat /\ Limit(s) >= 0
      BY GraphAssumption DEF Limit
    <3>2. wave'[s] = {} /\ Cardinality({}) = 0
      BY <1>1, <2>1, FS_EmptySet
    <3> QED
      BY <3>1, <3>2
  <2> QED
    BY <1>1, <2>1, <2>2, TypeFacts
<1>5. CASE cands # {}
  <2>1. /\ rec' = [n \in Nodes |-> IF n \in cands /\ ~WhenHolds(n)
                                   THEN [rec[n] EXCEPT !.status = "skipped"] ELSE rec[n]]
        /\ wave' = [wave EXCEPT ![s] = chosen]
        /\ thread' = [n \in Nodes |-> IF n \in chosen THEN "queued" ELSE thread[n]]
        /\ phase' = [phase EXCEPT ![s] = IF chosen = {} THEN "schedule" ELSE "wave"]
    BY <1>5 DEF Schedule
  <2>2. Cardinality(chosen) <= Limit(s)
    BY WaveBounded
  <2> HIDE DEF chosen
  <2>3. wave'[s] = chosen /\ \A q \in Scopes \ {s} : wave'[q] = wave[q] /\ phase'[q] = phase[q]
    BY <2>1, TypeFacts
  <2>4. wave' = [q \in Scopes |-> wave'[q]]
    BY <2>1, TypeFacts
  <2>5. phase'[s] = IF chosen = {} THEN "schedule" ELSE "wave"
    BY <2>1, TypeFacts
  <2>6. \A n \in chosen : rec'[n] = rec[n]
    BY <1>2, <1>3, <2>1
  <2> QED
    BY <1>1, <1>2, <1>3, <2>1, <2>2, <2>3, <2>4, <2>5, <2>6
<1> QED
  BY <1>4, <1>5

\* The scheduler of a scope lets go of nodes of its wave, whose threads have returned.
LEMMA MergeThreads ==
    ASSUME GraphInv, NEW s \in Scopes, Merge(s) \/ RaiseInFragment(s)
    PROVE  /\ phase[s] = "wave" /\ \A n \in wave[s] : thread[n] = "returned"
           /\ \A q \in Scopes \ {s} : wave'[q] = wave[q] /\ phase'[q] = phase[q]
           /\ wave' = [q \in Scopes |-> wave'[q]]
           /\ wave'[s] \subseteq wave[s]
           /\ phase'[s] \in {"schedule", "wave", "done", "raised"}
           /\ phase'[s] = "wave" <=> wave'[s] # {}
           /\ \A n \in Nodes : thread'[n] = IF n \in wave[s] \ wave'[s] THEN "off" ELSE thread[n]
           /\ \A n \in Nodes : thread'[n] # "off" => rec'[n] = rec[n]
           /\ \A n \in Nodes : rec'[n].status \in Outcomes \union {"pending"}
           /\ UNCHANGED <<result, iter, items, depth, skips>>
<1> DEFINE k == Earliest(wave[s])
<1>0. Earliest(wave[s]) = k
  OBVIOUS
<1>1. /\ k \in wave[s] /\ k \in Inside(s) /\ k \in Nodes /\ Joinable(s)
      /\ result[k] \in Result /\ result[k].status # "none"
      /\ Merged(k)[k].status = result[k].status
      /\ \A m \in Nodes \ {k} : Merged(k)[m] = rec[m]
  BY MergedEffect DEF Merge, RaiseInFragment
<1> HIDE DEF k
<1>2. /\ phase[s] = "wave" /\ \A n \in wave[s] : thread[n] = "returned"
      /\ UNCHANGED <<result, iter, items, depth, skips>>
  BY <1>1 DEF Joinable, Merge, RaiseInFragment
<1>3. \A n \in Nodes : Parent[n] = s /\ thread[n] # "off" => n \in wave[s]
  BY DEF GraphInv, ThreadInv
<1>7. wave[s] \subseteq Inside(s) /\ wave[s] \subseteq Nodes /\ \A n \in Inside(s) : Parent[n] = s
  BY TypeFacts DEF Inside
<1>8. \A n \in Nodes : rec[n].status \in Outcomes \union {"pending"}
  BY DEF GraphInv, WaveInv
<1>6. ASSUME Dismiss(s)
      PROVE  /\ wave'[s] = {} /\ wave' = [q \in Scopes |-> wave'[q]]
             /\ \A q \in Scopes \ {s} : wave'[q] = wave[q]
             /\ \A n \in Nodes : thread'[n] = IF n \in wave[s] THEN "off" ELSE thread[n]
  <2>1. wave' = [wave EXCEPT ![s] = {}]
    BY <1>6 DEF Dismiss
  <2>2. \A n \in Nodes : thread'[n] = IF Parent[n] = s THEN "off" ELSE thread[n]
    BY <1>6 DEF Dismiss
  <2>3. \A n \in Nodes : thread'[n] = IF n \in wave[s] THEN "off" ELSE thread[n]
    BY <1>3, <1>7, <2>2
  <2> QED
    BY <2>1, <2>3, TypeFacts
<1>4. CASE RaiseInFragment(s)
  <2>1. phase' = [phase EXCEPT ![s] = "raised"] /\ rec' = rec /\ Dismiss(s)
    BY <1>4 DEF RaiseInFragment
  <2> QED
    BY <1>2, <1>6, <1>8, <2>1, TypeFacts
<1>5. CASE Merge(s)
  <2>1. result[k].status \in Outcomes
    BY <1>1, <1>5 DEF Merge, Result
  <2>2. \A n \in Nodes : Merged(k)[n].status \in Outcomes \union {"pending"}
    BY <1>1, <1>8, <2>1
  <2>3. CASE Pause(s)
    <3>1. phase' = [phase EXCEPT ![s] = "done"] /\ rec' = Merged(k) /\ Dismiss(s)
      BY <1>0, <2>3 DEF Pause
    <3>2. \A n \in Nodes : thread'[n] # "off" => rec'[n] = rec[n]
      BY <1>1, <1>6, <3>1
    <3> QED
      BY <1>2, <1>6, <2>2, <3>1, <3>2, TypeFacts
  <2>4. CASE StopAtBudget(s)
    <3>1. /\ phase' = [phase EXCEPT ![s] = IF s = Top THEN "done" ELSE "raised"]
          /\ Dismiss(s)
          /\ \A n \in Nodes :
                rec'[n] = IF s = Top /\ Parent[n] = Top /\ n \notin skips
                             /\ Merged(k)[n].status = "pending"
                          THEN [Merged(k)[n] EXCEPT !.status = "blocked"] ELSE Merged(k)[n]
      BY <1>0, <2>4 DEF StopAtBudget
    <3>2. \A n \in Nodes : thread'[n] # "off" => rec'[n] = rec[n]
      <4> SUFFICES ASSUME NEW n \in Nodes, thread'[n] # "off" PROVE rec'[n] = rec[n]
        OBVIOUS
      <4>1. n \notin wave[s] /\ thread[n] # "off"
        BY <1>6, <3>1
      <4>2. n # k /\ Parent[n] # s
        BY <1>1, <1>3, <4>1
      <4> QED
        BY <1>1, <3>1, <4>2
    <3>3. \A n \in Nodes : rec'[n].status \in Outcomes \union {"pending"}
      <4> SUFFICES ASSUME NEW n \in Nodes PROVE rec'[n].status \in Outcomes \union {"pending"}
        OBVIOUS
      <4>1. CASE rec'[n] = Merged(k)[n]
        BY <2>2, <4>1
      <4>2. CASE rec'[n] = [Merged(k)[n] EXCEPT !.status = "blocked"] /\ Merged(k)[n].status = "pending"
        <5>1. n # k
          BY <1>1, <2>1, <4>2 DEF Outcomes, Terminal
        <5>2. rec'[n] = [rec[n] EXCEPT !.status = "blocked"] /\ rec[n] \in NodeRecord
          BY <1>1, <4>2, <5>1, TypeFacts
        <5>3. rec'[n].status = "blocked"
          BY <5>2 DEF NodeRecord
        <5> QED
          BY <5>3, OutcomeNames
      <4> QED
        BY <3>1, <4>1, <4>2
    <3>4. phase'[s] \in {"done", "raised"} /\ \A q \in Scopes \ {s} : phase'[q] = phase[q]
      BY <3>1, TypeFacts
    <3> QED
      BY <1>2, <1>6, <3>1, <3>2, <3>3, <3>4
  <2>5. CASE Continue(s)
    <3>1. /\ phase' = [phase EXCEPT ![s] = IF wave[s] \ {k} = {} THEN "schedule" ELSE "wave"]
          /\ rec' = Merged(k) /\ wave' = [wave EXCEPT ![s] = wave[s] \ {k}]
          /\ thread' = [thread EXCEPT ![k] = "off"]
      BY <1>0, <2>5 DEF Continue
    <3>2. wave'[s] = wave[s] \ {k} /\ wave' = [q \in Scopes |-> wave'[q]]
          /\ \A q \in Scopes \ {s} : wave'[q] = wave[q]
      BY <3>1, TypeFacts
    <3>3. \A n \in Nodes : thread'[n] = IF n = k THEN "off" ELSE thread[n]
      BY <1>1, <3>1, TypeFacts
    <3>4. /\ phase'[s] \in {"schedule", "wave"}
          /\ phase'[s] = "wave" <=> wave'[s] # {}
          /\ \A q \in Scopes \ {s} : phase'[q] = phase[q]
      BY <3>1, <3>2, TypeFacts
    <3>5. \A n \in Nodes : thread'[n] # "off" => rec'[n] = rec[n]
      BY <1>1, <3>1, <3>3
    <3>6. wave[s] \ wave'[s] = {k}
      BY <1>1, <3>2
    <3> QED
      BY <1>2, <2>2, <3>1, <3>2, <3>3, <3>4, <3>5, <3>6
  <2> QED
    BY <1>5, <2>3, <2>4, <2>5 DEF Merge
<1> QED
  BY <1>4, <1>5

-----------------------------------------------------------------------------
(* Every step, as the threads see it. *)

TopMoves ==
    /\ StartCompensation \/ PassOver \/ Compensate
    /\ phase' = [phase EXCEPT ![Top] = "compensate"] /\ phase[Top] \in {"done", "compensate"}
    /\ UNCHANGED <<wave, thread, result, iter, items, depth, skips, budgetFailed>>

Starts ==
    /\ Run \/ Resume
    /\ phase' = [phase EXCEPT ![Top] = "schedule"] /\ phase[Top] = "off"
    /\ UNCHANGED <<wave, thread, result, items, depth, skips, budgetFailed>>

LEMMA ThreadCases ==
    ASSUME GraphInv, [Next]_vars
    PROVE  \/ \E n \in Nodes : NodeStep(n) /\ (StayStep(n) \/ OpenStep(n) \/ CloseStep(n))
           \/ \E s \in Scopes : Schedule(s)
           \/ \E s \in Scopes : Merge(s) \/ RaiseInFragment(s)
           \/ EndProcess
           \/ TopMoves
           \/ Starts
           \/ UNCHANGED vars
<1>1. StartCompensation \/ PassOver \/ Compensate => TopMoves
  <2>1. ASSUME PassOver \/ Compensate
        PROVE  phase' = [phase EXCEPT ![Top] = "compensate"]
    BY <2>1, TypeFacts DEF PassOver, Compensate
  <2> QED
    BY <2>1 DEF TopMoves, StartCompensation, PassOver, Compensate
<1>2. Run \/ Resume => Starts
  BY DEF Starts, Run, Resume, BeginProcess, Stopped
<1> QED
  BY <1>1, <1>2, NodeCases
     DEF Next, ExecutorStep, Abandon, Finish, FinishFailed, FinalSave, Crash

LEMMA StoppedStep == GraphInv /\ [Next]_vars => StoppedInv'
<1> SUFFICES ASSUME GraphInv, [Next]_vars, phase'[Top] = "off" PROVE StoppedInv'
  BY DEF StoppedInv
<1>0. Top \in Scopes
  BY ScopeFacts
<1>1. CASE \E n \in Nodes : NodeStep(n)
  BY <1>1, NodeRuns, NodeQuiet DEF TopStill
<1>2. CASE \E s \in Scopes : Schedule(s) \/ Merge(s) \/ RaiseInFragment(s)
  <2>1. PICK s \in Scopes : Schedule(s) \/ Merge(s) \/ RaiseInFragment(s)
    BY <1>2
  <2>2. phase[s] # "off"
    BY <2>1, ScheduleThreads, MergeThreads
  <2>3. phase[Top] # "off"
    BY <2>2 DEF GraphInv, StoppedInv
  <2>4. CASE s = Top
    BY <2>1, <2>4, ScheduleThreads, MergeThreads
  <2>5. CASE s # Top
    BY <2>1, <2>3, <2>5, FragmentQuiet DEF TopStill
  <2> QED
    BY <2>4, <2>5
<1>3. CASE EndProcess
  BY <1>3 DEF EndProcess, StoppedInv
<1>4. CASE TopMoves \/ Starts
  BY <1>0, <1>4, TypeFacts DEF TopMoves, Starts
<1>5. CASE UNCHANGED vars
  BY <1>5 DEF GraphInv, StoppedInv, vars, exec
<1> QED
  BY <1>1, <1>2, <1>3, <1>4, <1>5, ThreadCases

LEMMA ThreadStep == GraphInv /\ [Next]_vars => ThreadInv'
<1> SUFFICES ASSUME GraphInv, [Next]_vars PROVE ThreadInv'
  OBVIOUS
<1>0. ThreadInv /\ Top \notin Composites /\ Composites \subseteq Scopes /\ Composites \subseteq Nodes
      /\ Top \notin Nodes /\ Top \in Scopes
      /\ \A n \in Nodes : Parent[n] \in Scopes /\ Parent[n] # n
  <2>1. \A n \in Nodes : Parent[n] # n
    <3> SUFFICES ASSUME NEW n \in Nodes, Parent[n] = n PROVE FALSE
      OBVIOUS
    <3>1. Position[n] < Position[n]
      BY ScopeFacts, GraphAssumption DEF Before
    <3>2. Position[n] \in Nat
      BY PositionFacts
    <3> QED
      BY <3>1, <3>2
  <2> QED
    BY <2>1, ScopeFacts DEF GraphInv
<1>1. CASE \E n \in Nodes : NodeStep(n) /\ (StayStep(n) \/ OpenStep(n) \/ CloseStep(n))
  <2>1. PICK n \in Nodes : NodeStep(n) /\ (StayStep(n) \/ OpenStep(n) \/ CloseStep(n))
    BY <1>1
  <2>2. CASE StayStep(n)
    <3>1. PICK label \in {"working", "entering", "returned"} :
              thread' = [thread EXCEPT ![n] = label]
      BY <2>2 DEF StayStep
    <3>2. phase' = phase /\ wave' = wave /\ thread[n] \in {"queued", "working"}
      BY <2>2 DEF StayStep
    <3>3. thread'[n] = label /\ \A m \in Nodes \ {n} : thread'[m] = thread[m]
      BY <3>1, TypeFacts
    <3> QED
      BY <1>0, <3>2, <3>3 DEF ThreadInv
  <2>3. CASE OpenStep(n)
    <3>1. /\ thread' = [thread EXCEPT ![n] = "fragment"] /\ wave' = wave
          /\ phase' = [phase EXCEPT ![n] = "schedule"]
          /\ n \in Composites /\ thread[n] # "off" /\ phase[n] \in {"off", "done"}
      BY <2>3 DEF OpenStep, OpenFragment
    <3>2. /\ thread'[n] = "fragment" /\ \A m \in Nodes \ {n} : thread'[m] = thread[m]
          /\ phase'[n] = "schedule" /\ \A q \in Scopes \ {n} : phase'[q] = phase[q]
      BY <1>0, <3>1, TypeFacts
    <3> QED
      BY <1>0, <3>1, <3>2 DEF ThreadInv
  <2>4. CASE CloseStep(n)
    <3>1. /\ thread' = [thread EXCEPT ![n] = "returned"] /\ wave' = wave
          /\ phase' = [phase EXCEPT ![n] = "off"]
          /\ n \in Composites /\ thread[n] # "off" /\ phase[n] \in {"off", "done", "raised"}
      BY <2>4 DEF CloseStep
    <3>2. /\ thread'[n] = "returned" /\ \A m \in Nodes \ {n} : thread'[m] = thread[m]
          /\ phase'[n] = "off" /\ \A q \in Scopes \ {n} : phase'[q] = phase[q]
      BY <1>0, <3>1, TypeFacts
    <3> QED
      BY <1>0, <3>1, <3>2 DEF ThreadInv
  <2> QED
    BY <2>1, <2>2, <2>3, <2>4
<1>2. CASE \E s \in Scopes : Schedule(s)
  <2>1. PICK s \in Scopes : Schedule(s)
    BY <1>2
  <2>2. /\ phase[s] = "schedule" /\ wave[s] = {}
        /\ \A q \in Scopes \ {s} : wave'[q] = wave[q] /\ phase'[q] = phase[q]
        /\ wave'[s] \subseteq Inside(s)
        /\ phase'[s] \in {"schedule", "wave", "done"}
        /\ phase'[s] = "wave" <=> wave'[s] # {}
        /\ \A n \in Nodes : thread'[n] = IF n \in wave'[s] THEN "queued" ELSE thread[n]
        /\ \A n \in wave'[s] : thread[n] = "off"
    BY <2>1, ScheduleThreads
  <2>3. \A n \in wave'[s] : n \in Nodes /\ Parent[n] = s /\ n # s
    BY <1>0, <2>2 DEF Inside
  <2>4. \A n \in Nodes : thread'[n] # "off" <=> n \in wave'[Parent[n]]
    BY <1>0, <2>2, <2>3 DEF ThreadInv
  <2>5. \A q \in Scopes : phase'[q] = "wave" <=> wave'[q] # {}
    BY <1>0, <2>2 DEF ThreadInv
  <2>6. \A c \in Composites : /\ phase'[c] # "off" <=> thread'[c] = "fragment"
                              /\ phase'[c] # "compensate"
    BY <1>0, <2>2, <2>3 DEF ThreadInv
  <2> QED
    BY <1>0, <2>2, <2>4, <2>5, <2>6 DEF ThreadInv
<1>3. CASE \E s \in Scopes : Merge(s) \/ RaiseInFragment(s)
  <2>1. PICK s \in Scopes : Merge(s) \/ RaiseInFragment(s)
    BY <1>3
  <2>2. /\ phase[s] = "wave" /\ \A n \in wave[s] : thread[n] = "returned"
        /\ \A q \in Scopes \ {s} : wave'[q] = wave[q] /\ phase'[q] = phase[q]
        /\ wave'[s] \subseteq wave[s] /\ wave[s] \subseteq Inside(s)
        /\ phase'[s] \in {"schedule", "wave", "done", "raised"}
        /\ phase'[s] = "wave" <=> wave'[s] # {}
        /\ \A n \in Nodes : thread'[n] = IF n \in wave[s] \ wave'[s] THEN "off" ELSE thread[n]
    BY <2>1, MergeThreads, TypeFacts
  <2>3. \A n \in wave[s] : n \in Nodes /\ Parent[n] = s /\ n # s
    BY <1>0, <2>2 DEF Inside
  <2>4. \A n \in Nodes : thread'[n] # "off" <=> n \in wave'[Parent[n]]
    BY <1>0, <2>2, <2>3 DEF ThreadInv
  <2>5. \A q \in Scopes : phase'[q] = "wave" <=> wave'[q] # {}
    BY <1>0, <2>2 DEF ThreadInv
  <2>6. \A c \in Composites : /\ phase'[c] # "off" <=> thread'[c] = "fragment"
                              /\ phase'[c] # "compensate"
    BY <1>0, <2>2, <2>3 DEF ThreadInv
  <2> QED
    BY <1>0, <2>2, <2>4, <2>5, <2>6 DEF ThreadInv
<1>4. CASE EndProcess
  BY <1>0, <1>4 DEF EndProcess, ThreadInv
<1>5. CASE TopMoves \/ Starts
  <2>1. /\ thread' = thread /\ wave' = wave
        /\ \A q \in Scopes \ {Top} : phase'[q] = phase[q]
        /\ phase'[Top] # "wave" /\ phase[Top] # "wave"
    BY <1>0, <1>5, TypeFacts DEF TopMoves, Starts
  <2> QED
    BY <1>0, <2>1 DEF ThreadInv
<1>6. CASE UNCHANGED vars
  BY <1>0, <1>6 DEF ThreadInv, vars, exec
<1> QED
  BY <1>1, <1>2, <1>3, <1>4, <1>5, <1>6, ThreadCases

LEMMA WaveStep == GraphInv /\ [Next]_vars => WaveInv'
<1> SUFFICES ASSUME GraphInv, [Next]_vars PROVE WaveInv'
  OBVIOUS
<1>0. WaveInv /\ ThreadInv /\ Top \in Scopes /\ \A n \in Inside(Top) : n \in Nodes
  BY ScopeFacts DEF GraphInv
<1>1. ASSUME Saved'
      PROVE  \A n \in Inside(Top) : disk'.nodes[n].status \in Outcomes \union {"pending"}
  <2>1. CASE disk' = disk
    BY <1>0, <1>1, <2>1 DEF WaveInv, Saved
  <2>2. CASE \E status : disk' = SavedRecord(status, rec)
    <3>1. \A n \in Inside(Top) : disk'.nodes[n] = rec[n]
      BY <2>2 DEF SavedRecord
    <3> QED
      BY <1>0, <3>1 DEF WaveInv
  <2>3. CASE Merge(Top)
    <3> DEFINE k == Earliest(wave[Top])
    <3>1. /\ result[k].status \in Outcomes /\ disk'.nodes[k].status = result[k].status
          /\ \A m \in Inside(Top) \ {k} : disk'.nodes[m] = rec[m]
      BY <2>3, MergeTopEffect
    <3> HIDE DEF k
    <3> QED
      BY <1>0, <3>1 DEF WaveInv
  <2> QED
    BY <2>1, <2>2, <2>3, SaveCases DEF Run, Finish, FinishFailed, FinalSave
<1>2. /\ \A n \in Nodes : thread'[n] # "off" => rec'[n].status = "pending" /\ n \notin skips'
      /\ \A n \in Nodes : rec'[n].status \in Outcomes \union {"pending"}
  <2>1. CASE \E n \in Nodes : NodeStep(n) /\ (StayStep(n) \/ OpenStep(n) \/ CloseStep(n))
    <3>1. PICK n \in Nodes : NodeStep(n) /\ (StayStep(n) \/ OpenStep(n) \/ CloseStep(n))
      BY <2>1
    <3>2. \A m \in Nodes : thread'[m] # "off" => thread[m] # "off"
      BY <3>1, TypeFacts, NodeRuns DEF StayStep, OpenStep, CloseStep, OpenFragment
    <3>3. skips' \subseteq skips /\ \A m \in Nodes : rec'[m] = rec[m] \/ rec'[m] = Pending
      BY <3>1, TypeFacts DEF StayStep, OpenStep, CloseStep, OpenFragment
    <3> QED
      BY <1>0, <3>2, <3>3 DEF WaveInv, Pending
  <2>2. CASE \E s \in Scopes : Schedule(s)
    <3>1. PICK s \in Scopes : Schedule(s)
      BY <2>2
    <3>2. /\ phase[s] = "schedule" /\ wave[s] = {}
          /\ \A n \in Nodes : thread'[n] = IF n \in wave'[s] THEN "queued" ELSE thread[n]
          /\ \A n \in wave'[s] : rec'[n].status = "pending" /\ n \notin skips'
      BY <3>1, ScheduleThreads
    <3>3. /\ skips' \ skips \subseteq PendingIn(s, skips)
          /\ \A m \in Nodes : \/ rec'[m] = rec[m]
                              \/ m \in Inside(s) /\ rec'[m].status = "skipped"
      BY <3>1, ScheduleEffect
    <3>4. ASSUME NEW n \in Nodes, n \notin wave'[s], thread'[n] # "off"
          PROVE  rec'[n].status = "pending" /\ n \notin skips'
      <4>1. n \notin Inside(s) /\ thread[n] # "off"
        BY <1>0, <3>2, <3>4 DEF ThreadInv, Inside
      <4> QED
        BY <1>0, <3>3, <4>1 DEF WaveInv, PendingIn
    <3>5. "skipped" \in Outcomes
      BY DEF Outcomes, Terminal
    <3> QED
      BY <1>0, <3>2, <3>3, <3>4, <3>5 DEF WaveInv
  <2>3. CASE \E s \in Scopes : Merge(s) \/ RaiseInFragment(s)
    <3>1. PICK s \in Scopes : Merge(s) \/ RaiseInFragment(s)
      BY <2>3
    <3>2. /\ \A n \in Nodes : thread'[n] = IF n \in wave[s] \ wave'[s] THEN "off" ELSE thread[n]
          /\ \A n \in Nodes : thread'[n] # "off" => rec'[n] = rec[n]
          /\ \A n \in Nodes : rec'[n].status \in Outcomes \union {"pending"}
          /\ skips' = skips
      BY <3>1, MergeThreads
    <3> QED
      BY <1>0, <3>2 DEF WaveInv
  <2>4. CASE EndProcess
    BY <2>4 DEF EndProcess, Pending
  <2>5. CASE TopMoves
    <3>1. thread' = thread /\ skips' = skips /\ phase[Top] # "wave"
      BY <2>5 DEF TopMoves
    <3>2. \A n \in Inside(Top) : thread[n] = "off"
      BY <1>0, <3>1 DEF ThreadInv, Inside
    <3>3. CASE rec' = rec
      BY <1>0, <3>1, <3>3 DEF WaveInv
    <3>4. CASE Compensate
      <4> DEFINE target == Compensation[Latest(undo)]
      <4>1. /\ target \in Inside(Top) /\ rec'[target].status \in Outcomes
            /\ \A m \in Nodes \ {target} : rec'[m] = rec[m]
        BY <3>4, CompensateEffect
      <4> HIDE DEF target
      <4> QED
        BY <1>0, <3>1, <3>2, <4>1 DEF WaveInv
    <3> QED
      BY <2>5, <3>3, <3>4 DEF TopMoves, StartCompensation, PassOver
  <2>6. CASE Starts
    <3>1. thread' = thread /\ \A n \in Nodes : thread[n] = "off"
      BY <2>6, NoThread DEF Starts
    <3>2. CASE Run
      BY <1>0, <3>1, <3>2 DEF Run, WaveInv
    <3>3. CASE Resume
      <4>1. Saved /\ \A n \in Nodes : rec'[n] = IF Parent[n] = Top THEN Resumed(disk.nodes[n]) ELSE Pending
        BY <3>3 DEF Resume, Saved
      <4>2. disk.nodes \in [Inside(Top) -> NodeRecord]
        BY <4>1 DEF GraphInv, Shape, TypeOK, Saved
      <4>3. \A n \in Inside(Top) : Resumed(disk.nodes[n]).status \in Outcomes \union {"pending"}
        BY <1>0, <4>1, <4>2 DEF Resumed, WaveInv, NodeRecord
      <4> QED
        BY <3>1, <4>1, <4>3 DEF Inside, Pending
    <3> QED
      BY <2>6, <3>2, <3>3 DEF Starts
  <2>7. CASE UNCHANGED vars
    BY <1>0, <2>7 DEF WaveInv, vars, exec
  <2> QED
    BY <2>1, <2>2, <2>3, <2>4, <2>5, <2>6, <2>7, ThreadCases
<1> QED
  BY <1>1, <1>2 DEF WaveInv

-----------------------------------------------------------------------------
(* Labels and depth. *)

LEMMA DeepFinite ==
    /\ IsFiniteSet(Deep) /\ Cardinality(Deep) \in Nat /\ Cardinality(Deep) <= Cardinality(Nodes)
    /\ Cardinality(Nodes) \in Nat
<1>1. Deep \subseteq Nodes
  BY DEF Deep
<1> QED
  BY <1>1, NodesFinite, FS_Subset, FS_CardinalityType

LEMMA DepthStep ==
    GraphInv /\ [Next]_vars => depth' = Cardinality(Deep')
<1> SUFFICES ASSUME GraphInv, [Next]_vars PROVE depth' = Cardinality(Deep')
  OBVIOUS
<1>0. depth = Cardinality(Deep) /\ \A c \in Composites : phase[c] # "off" <=> thread[c] = "fragment"
  BY DEF GraphInv, LabelInv, ThreadInv
<1>1. CASE \E n \in Nodes : NodeStep(n) /\ (StayStep(n) \/ OpenStep(n) \/ CloseStep(n))
  <2>1. PICK n \in Nodes : NodeStep(n) /\ (StayStep(n) \/ OpenStep(n) \/ CloseStep(n))
    BY <1>1
  <2>2. CASE StayStep(n)
    <3>1. PICK label \in {"working", "entering", "returned"} :
              thread' = [thread EXCEPT ![n] = label]
      BY <2>2 DEF StayStep
    <3>2. depth' = depth /\ thread[n] \in {"queued", "working"}
      BY <2>2 DEF StayStep
    <3>3. Deep' = Deep
      BY <3>1, <3>2, TypeFacts DEF Deep
    <3> QED
      BY <1>0, <3>2, <3>3
  <2>3. CASE OpenStep(n)
    <3>1. /\ thread' = [thread EXCEPT ![n] = "fragment"]
          /\ depth' = IF thread[n] = "entering" THEN depth + 1 ELSE depth
          /\ Kind[n] = "subgraph" <=> thread[n] = "entering"
      BY <2>3 DEF OpenStep, OpenFragment
    <3>2. CASE thread[n] = "entering"
      <4>1. Deep' = Deep \union {n} /\ n \notin Deep
        BY <3>1, <3>2, TypeFacts DEF Deep
      <4> QED
        BY <1>0, <3>1, <3>2, <4>1, DeepFinite, FS_AddElement
    <3>3. CASE thread[n] # "entering"
      <4>1. Deep' = Deep
        BY <3>1, <3>3, TypeFacts DEF Deep
      <4> QED
        BY <1>0, <3>1, <3>3, <4>1
    <3> QED
      BY <3>2, <3>3
  <2>4. CASE CloseStep(n)
    <3>1. /\ thread' = [thread EXCEPT ![n] = "returned"]
          /\ depth' = IF Kind[n] = "subgraph" /\ thread[n] = "fragment" THEN depth - 1 ELSE depth
      BY <2>4 DEF CloseStep
    <3>2. CASE Kind[n] = "subgraph" /\ thread[n] = "fragment"
      <4>1. Deep' = Deep \ {n} /\ n \in Deep
        BY <3>1, <3>2, TypeFacts DEF Deep
      <4> QED
        BY <1>0, <3>1, <3>2, <4>1, DeepFinite, FS_RemoveElement
    <3>3. CASE ~(Kind[n] = "subgraph" /\ thread[n] = "fragment")
      <4>1. Deep' = Deep
        BY <3>1, <3>3, TypeFacts DEF Deep
      <4> QED
        BY <1>0, <3>1, <3>3, <4>1
    <3> QED
      BY <3>2, <3>3
  <2> QED
    BY <2>1, <2>2, <2>3, <2>4
<1>2. CASE \E s \in Scopes : Schedule(s)
  <2>1. PICK s \in Scopes : Schedule(s)
    BY <1>2
  <2>2. depth' = depth
        /\ \A n \in Nodes : thread'[n] = thread[n] \/ (thread'[n] = "queued" /\ thread[n] = "off")
    BY <2>1, ScheduleThreads
  <2>3. Deep' = Deep
    BY <2>2 DEF Deep
  <2> QED
    BY <1>0, <2>2, <2>3
<1>3. CASE \E s \in Scopes : Merge(s) \/ RaiseInFragment(s)
  <2>1. PICK s \in Scopes : Merge(s) \/ RaiseInFragment(s)
    BY <1>3
  <2>2. depth' = depth
        /\ \A n \in Nodes : thread'[n] = thread[n] \/ (thread'[n] = "off" /\ thread[n] = "returned")
    BY <2>1, MergeThreads
  <2>3. Deep' = Deep
    BY <2>2 DEF Deep
  <2> QED
    BY <1>0, <2>2, <2>3
<1>4. CASE EndProcess
  <2>1. Deep' = {} /\ depth' = 0
    BY <1>4 DEF EndProcess, Deep
  <2> QED
    BY <2>1, FS_EmptySet
<1>5. CASE TopMoves \/ Starts \/ UNCHANGED vars
  BY <1>0, <1>5 DEF TopMoves, Starts, vars, exec, Deep
<1> QED
  BY <1>1, <1>2, <1>3, <1>4, <1>5, ThreadCases

LEMMA LabelStep == GraphInv /\ [Next]_vars => LabelInv'
<1> SUFFICES ASSUME GraphInv, [Next]_vars PROVE LabelInv'
  OBVIOUS
<1>0. LabelInv /\ ThreadInv /\ Composites \subseteq Nodes /\ Composites \subseteq Scopes
      /\ Top \notin Composites
  BY ScopeFacts DEF GraphInv
<1> SUFFICES /\ \A n \in Nodes : /\ thread'[n] = "working" => Works(n)
                                 /\ thread'[n] = "entering" => Kind[n] = "subgraph"
                                 /\ thread'[n] = "returned" => result'[n].status # "none"
             /\ \A c \in Composites :
                   phase'[c] # "off" => /\ Kind[c] = "loop" => iter'[c] < MaxIterations
                                        /\ Kind[c] = "map" => items'[c].left > 0
  BY DepthStep DEF LabelInv
<1>1. CASE \E n \in Nodes : NodeStep(n) /\ (StayStep(n) \/ OpenStep(n) \/ CloseStep(n))
  <2>1. PICK n \in Nodes : NodeStep(n) /\ (StayStep(n) \/ OpenStep(n) \/ CloseStep(n))
    BY <1>1
  <2>2. CASE StayStep(n)
    <3>1. PICK label \in {"working", "entering", "returned"} :
             /\ thread' = [thread EXCEPT ![n] = label]
             /\ label = "working" => Works(n)
             /\ label = "entering" => Kind[n] = "subgraph"
             /\ IF label = "returned" THEN Reports(n) ELSE result' = result
      BY <2>2 DEF StayStep
    <3>2. phase' = phase /\ iter' = iter /\ items' = items
      BY <2>2 DEF StayStep
    <3>3. thread'[n] = label /\ \A m \in Nodes \ {n} : thread'[m] = thread[m]
      BY <3>1, TypeFacts
    <3>4. /\ label = "returned" => result'[n].status # "none"
          /\ \A m \in Nodes \ {n} : result'[m] = result[m]
      BY <3>1, TypeFacts DEF Reports
    <3> QED
      BY <1>0, <3>1, <3>2, <3>3, <3>4 DEF LabelInv
  <2>3. CASE OpenStep(n)
    <3>1. /\ thread' = [thread EXCEPT ![n] = "fragment"]
          /\ phase' = [phase EXCEPT ![n] = "schedule"]
          /\ n \in Composites /\ result' = result /\ OwnCounts(n)
          /\ Kind[n] = "loop" => iter'[n] < MaxIterations
          /\ Kind[n] = "map" => items'[n].left > 0
      BY <2>3 DEF OpenStep, OpenFragment
    <3>2. /\ thread'[n] = "fragment" /\ \A m \in Nodes \ {n} : thread'[m] = thread[m]
          /\ \A q \in Scopes \ {n} : phase'[q] = phase[q]
      BY <1>0, <3>1, TypeFacts
    <3>3. \A m \in Nodes \ {n} : iter'[m] = iter[m] /\ items'[m] = items[m]
      BY <3>1, TypeFacts DEF OwnCounts, GraphInv, Shape, TypeOK
    <3> QED
      BY <1>0, <3>1, <3>2, <3>3 DEF LabelInv
  <2>4. CASE CloseStep(n)
    <3>1. PICK r \in Result : r.status # "none" /\ result' = [result EXCEPT ![n] = r]
      BY <2>4 DEF CloseStep, Reports
    <3>2. /\ thread' = [thread EXCEPT ![n] = "returned"]
          /\ phase' = [phase EXCEPT ![n] = "off"]
          /\ n \in Composites /\ OwnCounts(n)
      BY <2>4 DEF CloseStep
    <3>3. /\ thread'[n] = "returned" /\ \A m \in Nodes \ {n} : thread'[m] = thread[m]
          /\ phase'[n] = "off" /\ \A q \in Scopes \ {n} : phase'[q] = phase[q]
          /\ result'[n] = r /\ \A m \in Nodes \ {n} : result'[m] = result[m]
      BY <1>0, <3>1, <3>2, TypeFacts
    <3>4. \A m \in Nodes \ {n} : iter'[m] = iter[m] /\ items'[m] = items[m]
      BY <3>2, TypeFacts DEF OwnCounts, GraphInv, Shape, TypeOK
    <3> QED
      BY <1>0, <3>1, <3>3, <3>4 DEF LabelInv
  <2> QED
    BY <2>1, <2>2, <2>3, <2>4
<1>2. CASE \E s \in Scopes : Schedule(s)
  <2>1. PICK s \in Scopes : Schedule(s)
    BY <1>2
  <2>2. /\ phase[s] = "schedule" /\ \A q \in Scopes \ {s} : phase'[q] = phase[q]
        /\ \A n \in Nodes : thread'[n] = thread[n] \/ thread'[n] = "queued"
        /\ result' = result /\ iter' = iter /\ items' = items
    BY <2>1, ScheduleThreads
  <2> QED
    BY <1>0, <2>2 DEF LabelInv
<1>3. CASE \E s \in Scopes : Merge(s) \/ RaiseInFragment(s)
  <2>1. PICK s \in Scopes : Merge(s) \/ RaiseInFragment(s)
    BY <1>3
  <2>2. /\ phase[s] = "wave" /\ \A q \in Scopes \ {s} : phase'[q] = phase[q]
        /\ \A n \in Nodes : thread'[n] = thread[n] \/ thread'[n] = "off"
        /\ result' = result /\ iter' = iter /\ items' = items
    BY <2>1, MergeThreads
  <2> QED
    BY <1>0, <2>2 DEF LabelInv
<1>4. CASE EndProcess
  BY <1>0, <1>4 DEF EndProcess
<1>5. CASE TopMoves
  <2>1. \A q \in Scopes \ {Top} : phase'[q] = phase[q]
    BY <1>5, TypeFacts DEF TopMoves
  <2> QED
    BY <1>0, <1>5, <2>1 DEF TopMoves, LabelInv
<1>6. CASE Starts
  <2>1. \A q \in Scopes \ {Top} : phase'[q] = phase[q]
    BY <1>6, TypeFacts DEF Starts
  <2>2. \A q \in Scopes : phase[q] = "off"
    BY <1>6 DEF Starts, GraphInv, StoppedInv
  <2>3. \A n \in Nodes : thread'[n] = "off"
    BY <1>6, NoThread DEF Starts
  <2> QED
    BY <1>0, <2>1, <2>2, <2>3
<1>7. CASE UNCHANGED vars
  BY <1>0, <1>7 DEF LabelInv, vars, exec
<1> QED
  BY <1>1, <1>2, <1>3, <1>4, <1>5, <1>6, <1>7, ThreadCases

-----------------------------------------------------------------------------
(* Types. *)

Phases == {"off", "schedule", "wave", "done", "raised", "compensate"}
Threads == {"off", "queued", "working", "entering", "fragment", "returned"}

LEMMA ThreadTypes ==
    ASSUME GraphInv, [Next]_vars
    PROVE  /\ phase' \in [Scopes -> Phases]
           /\ thread' \in [Nodes -> Threads]
           /\ result' \in [Nodes -> Result]
           /\ wave' = [s \in Scopes |-> wave'[s]]
           /\ \A s \in Scopes : wave'[s] \subseteq Inside(s) /\ Cardinality(wave'[s]) <= Limit(s)
           /\ skips' \subseteq Nodes
<1>0. /\ phase \in [Scopes -> Phases] /\ thread \in [Nodes -> Threads]
      /\ result \in [Nodes -> Result] /\ wave = [s \in Scopes |-> wave[s]] /\ skips \subseteq Nodes
      /\ \A s \in Scopes : wave[s] \subseteq Inside(s) /\ Cardinality(wave[s]) <= Limit(s)
  BY DEF GraphInv, Shape, TypeOK, Phases, Threads
<1>1. CASE \E n \in Nodes : NodeStep(n) /\ (StayStep(n) \/ OpenStep(n) \/ CloseStep(n))
  <2>1. PICK n \in Nodes : NodeStep(n) /\ (StayStep(n) \/ OpenStep(n) \/ CloseStep(n))
    BY <1>1
  <2>2. wave' = wave /\ skips' \subseteq skips
    BY <2>1 DEF StayStep, OpenStep, CloseStep, OpenFragment
  <2>3. phase' \in [Scopes -> Phases] /\ thread' \in [Nodes -> Threads]
    BY <1>0, <2>1 DEF StayStep, OpenStep, CloseStep, OpenFragment, Phases, Threads
  <2>4. result' \in [Nodes -> Result]
    <3>1. result' = result \/ \E r \in Result : result' = [result EXCEPT ![n] = r]
      BY <2>1 DEF StayStep, OpenStep, CloseStep, Reports
    <3> QED
      BY <1>0, <3>1
  <2> QED
    BY <1>0, <2>2, <2>3, <2>4
<1>2. CASE \E s \in Scopes : Schedule(s)
  <2>1. PICK s \in Scopes : Schedule(s)
    BY <1>2
  <2>2. /\ wave' = [q \in Scopes |-> wave'[q]] /\ wave'[s] \subseteq Inside(s)
        /\ Cardinality(wave'[s]) <= Limit(s)
        /\ \A q \in Scopes \ {s} : wave'[q] = wave[q]
        /\ result' = result
    BY <2>1, ScheduleThreads
  <2>3. skips' \subseteq Nodes
    <3>1. skips' \ skips \subseteq PendingIn(s, skips)
      BY <2>1, ScheduleEffect
    <3> QED
      BY <1>0, <3>1, ScopeFacts DEF PendingIn
  <2>4. phase' \in [Scopes -> Phases] /\ thread' \in [Nodes -> Threads]
    BY <1>0, <2>1 DEF Schedule, Phases, Threads
  <2> QED
    BY <1>0, <2>2, <2>3, <2>4
<1>3. CASE \E s \in Scopes : Merge(s) \/ RaiseInFragment(s)
  <2>1. PICK s \in Scopes : Merge(s) \/ RaiseInFragment(s)
    BY <1>3
  <2>2. /\ wave' = [q \in Scopes |-> wave'[q]] /\ wave'[s] \subseteq wave[s]
        /\ \A q \in Scopes \ {s} : wave'[q] = wave[q]
        /\ result' = result /\ skips' = skips
    BY <2>1, MergeThreads
  <2>3. Cardinality(wave'[s]) <= Limit(s)
    <3>1. IsFiniteSet(wave[s])
      BY TypeFacts, NodesFinite, FS_Subset
    <3>2. /\ Cardinality(wave'[s]) \in Nat /\ Cardinality(wave[s]) \in Nat
          /\ Cardinality(wave'[s]) <= Cardinality(wave[s])
      BY <2>2, <3>1, FS_Subset, FS_CardinalityType
    <3>3. Limit(s) \in Nat
      BY GraphAssumption DEF Limit
    <3> QED
      BY <1>0, <3>2, <3>3
  <2>4. phase' \in [Scopes -> Phases] /\ thread' \in [Nodes -> Threads]
    <3>1. CASE Dismiss(s) /\ \E p \in Phases : phase' = [phase EXCEPT ![s] = p]
      BY <1>0, <3>1 DEF Dismiss, Threads
    <3>2. CASE Continue(s)
      BY <1>0, <3>2 DEF Continue, Phases, Threads
    <3> QED
      BY <2>1, <3>1, <3>2 DEF Merge, Pause, StopAtBudget, RaiseInFragment, Phases
  <2> QED
    BY <1>0, <2>2, <2>3, <2>4
<1>4. CASE EndProcess
  <2>1. /\ phase' = [s \in Scopes |-> "off"] /\ thread' = [n \in Nodes |-> "off"]
        /\ result' = [n \in Nodes |-> NoResult] /\ wave' = [s \in Scopes |-> {}] /\ skips' = {}
    BY <1>4 DEF EndProcess
  <2>2. NoResult \in Result
    BY DEF NoResult, Result
  <2>3. \A s \in Scopes : Limit(s) \in Nat /\ Cardinality({}) = 0
    BY GraphAssumption, FS_EmptySet DEF Limit
  <2>4. \A s \in Scopes : wave'[s] = {} /\ Cardinality(wave'[s]) <= Limit(s)
    BY <2>1, <2>3
  <2> QED
    BY <2>1, <2>2, <2>4 DEF Phases, Threads
<1>5. CASE TopMoves \/ Starts
  <2>1. /\ phase' \in [Scopes -> Phases]
        /\ UNCHANGED <<wave, thread, result, skips>>
    BY <1>0, <1>5 DEF TopMoves, Starts, Phases
  <2> QED
    BY <1>0, <2>1
<1>6. CASE UNCHANGED vars
  BY <1>0, <1>6 DEF vars, exec
<1> QED
  BY <1>1, <1>2, <1>3, <1>4, <1>5, <1>6, ThreadCases

Items == [left : {0} \union UNION {0..k : k \in MapItems}, won : Nat]

LEMMA CountTypes ==
    ASSUME GraphInv, [Next]_vars
    PROVE  iter' \in [Nodes -> 0..MaxIterations] /\ items' \in [Nodes -> Items]
<1>0. /\ iter \in [Nodes -> 0..MaxIterations] /\ items \in [Nodes -> Items] /\ MaxIterations \in Nat
      /\ MapItems \subseteq Nat
  BY GraphAssumption DEF GraphInv, Shape, TypeOK, Items
<1>1. CASE iter' = iter /\ items' = items
  BY <1>0, <1>1
<1>2. CASE \E n \in Nodes : LeaveIteration(n)
  <2>1. PICK n \in Nodes : LeaveIteration(n)
    BY <1>2
  <2>2. /\ iter' = [iter EXCEPT ![n] = iter[n] + 1] /\ items' = items
        /\ n \in Composites /\ Kind[n] = "loop" /\ phase[n] = "done"
    BY <2>1 DEF LeaveIteration, Counted, FragmentOver, Composites
  <2>3. iter[n] < MaxIterations
    BY <2>2 DEF GraphInv, LabelInv
  <2>4. iter[n] + 1 \in 0..MaxIterations
    BY <1>0, <2>3
  <2> QED
    BY <1>0, <2>2, <2>4
<1>3. CASE \E n \in Nodes : EnterMap(n)
  <2>1. PICK n \in Nodes : EnterMap(n)
    BY <1>3
  <2>2. CASE items' = items
    BY <1>0, <2>1, <2>2 DEF EnterMap
  <2>3. ASSUME NEW count \in MapItems, items' = [items EXCEPT ![n] = [left |-> count, won |-> 0]]
        PROVE  items' \in [Nodes -> Items]
    <3>1. [left |-> count, won |-> 0] \in Items
      BY <1>0 DEF Items
    <3> QED
      BY <1>0, <2>3, <3>1
  <2> QED
    BY <1>0, <2>1, <2>2, <2>3 DEF EnterMap
<1>4. CASE \E n \in Nodes : LeaveItem(n)
  <2>1. PICK n \in Nodes : LeaveItem(n)
    BY <1>4
  <2> DEFINE won == IF FragmentFailed(n) THEN items[n].won ELSE items[n].won + 1
             item == [left |-> items[n].left - 1, won |-> won]
  <2>2. iter' = iter /\ n \in Composites /\ Kind[n] = "map" /\ phase[n] = "done"
        /\ items' = [items EXCEPT ![n] = item]
    BY <2>1 DEF LeaveItem, FragmentOver, Composites
  <2>3. items[n] \in Items /\ items[n].left > 0
    BY <1>0, <2>2 DEF GraphInv, LabelInv
  <2>4. items[n].left - 1 \in {0} \union UNION {0..k : k \in MapItems} /\ won \in Nat
    <3>1. PICK k \in MapItems : items[n].left \in 0..k
      BY <2>3 DEF Items
    <3>2. k \in Nat /\ items[n].left - 1 \in 0..k
      BY <1>0, <2>3, <3>1
    <3>3. items[n].won \in Nat
      BY <2>3 DEF Items
    <3> QED
      BY <3>2, <3>3
  <2>5. item \in Items
    BY <2>4 DEF Items
  <2> HIDE DEF item
  <2> QED
    BY <1>0, <2>2, <2>5
<1>5. CASE EndProcess
  <2>1. NoItems \in Items
    BY DEF NoItems, Items
  <2> QED
    BY <1>0, <1>5, <2>1 DEF EndProcess
<1>6. CASE Resume
  <2>1. /\ iter' = [n \in Nodes |-> IF Parent[n] = Top THEN disk.iter[n] ELSE 0]
        /\ items' = items /\ Saved
    BY <1>6 DEF Resume, BeginProcess, Saved
  <2>2. disk.iter \in [Inside(Top) -> 0..MaxIterations]
    BY <2>1 DEF GraphInv, Shape, TypeOK, Saved
  <2> QED
    BY <1>0, <2>1, <2>2 DEF Inside
<1>7. CASE \E n \in Nodes : NodeStep(n)
  <2>1. PICK n \in Nodes : NodeStep(n)
    BY <1>7
  <2>2. CASE LeaveIteration(n) \/ EnterMap(n) \/ LeaveItem(n)
    BY <1>2, <1>3, <1>4, <2>2
  <2>3. CASE ~(LeaveIteration(n) \/ EnterMap(n) \/ LeaveItem(n))
    <3>1. iter' = iter /\ items' = items
      BY <2>1, <2>3 DEF NodeStep, Exhausted, Refrain, Begin, End, Gate, EnterSubgraph, Descend,
                        EnterLoop, LeaveSubgraph, LeaveRaised
    <3> QED
      BY <1>1, <3>1
  <2> QED
    BY <2>2, <2>3
<1>8. CASE Run
  BY <1>0, <1>8 DEF Run, BeginProcess
<1>9. CASE \E s \in Scopes : Schedule(s) \/ Merge(s) \/ RaiseInFragment(s)
  BY <1>0, <1>9, ScheduleThreads, MergeThreads
<1>10. CASE TopMoves
  BY <1>0, <1>10 DEF TopMoves
<1>11. CASE UNCHANGED vars
  BY <1>0, <1>11 DEF vars, exec
<1> QED
  BY <1>5, <1>6, <1>7, <1>8, <1>9, <1>10, <1>11, ThreadCases DEF Starts

LEMMA RecordTypes ==
    ASSUME GraphInv, [Next]_vars
    PROVE  /\ rec' \in [Nodes -> NodeRecord]
           /\ disk' = NoRun \/ disk' \in [status : {"running", "awaiting_human", "failed", "succeeded"},
                                          nodes : [Inside(Top) -> NodeRecord],
                                          iter : [Inside(Top) -> 0..MaxIterations]]
<1> DEFINE Records == [status : {"running", "awaiting_human", "failed", "succeeded"},
                       nodes : [Inside(Top) -> NodeRecord],
                       iter : [Inside(Top) -> 0..MaxIterations]]
<1>0. /\ rec \in [Nodes -> NodeRecord] /\ iter \in [Nodes -> 0..MaxIterations]
      /\ disk = NoRun \/ disk \in Records
      /\ Inside(Top) \subseteq Nodes /\ Pending \in NodeRecord
  BY ScopeFacts DEF GraphInv, Shape, TypeOK, Pending, NodeRecord
<1>1. ASSUME NEW status \in {"running", "awaiting_human", "failed", "succeeded"},
             NEW nodes \in [Nodes -> NodeRecord], disk' = SavedRecord(status, nodes)
      PROVE  disk' \in Records
  BY <1>0, <1>1 DEF SavedRecord
<1>2. ASSUME NEW s \in Scopes, Merge(s)
      PROVE  Merged(Earliest(wave[s])) \in [Nodes -> NodeRecord]
  <2> DEFINE k == Earliest(wave[s])
  <2>1. /\ k \in Nodes /\ result[k] \in Result /\ result[k].status \in Outcomes
        /\ Merged(k)[k].status = result[k].status /\ Merged(k)[k].attempts \in {0, 1}
        /\ \A m \in Nodes \ {k} : Merged(k)[m] = rec[m]
    <3>1. /\ k \in wave[s] /\ k \in Nodes /\ result[k] \in Result /\ result[k].status # "none"
          /\ Merged(k)[k].status = result[k].status /\ Merged(k)[k].attempts \in {0, 1}
          /\ \A m \in Nodes \ {k} : Merged(k)[m] = rec[m]
      BY <1>2, MergedEffect DEF Merge
    <3> HIDE DEF k
    <3> QED
      BY <1>2, <3>1 DEF Merge, Result
  <2> HIDE DEF k
  <2>2. Merged(k) = [rec EXCEPT ![k] = [status |-> result[k].status,
                          attempts |-> IF result[k].ran THEN 1 ELSE rec[k].attempts]]
    BY DEF Merged
  <2>3. [status |-> result[k].status, attempts |-> IF result[k].ran THEN 1 ELSE rec[k].attempts]
           \in NodeRecord
    BY <1>0, <2>1 DEF NodeRecord
  <2>4. Merged(k) \in [Nodes -> NodeRecord]
    BY <1>0, <2>2, <2>3
  <2> QED
    BY <2>4 DEF k
<1> HIDE DEF Records
<1>3. ASSUME disk' # disk
      PROVE  disk' \in Records
  <2>1. CASE Merge(Top)
    BY <1>1, <1>2, <2>1, MergeTopEffect, ScopeFacts
  <2>2. CASE Run \/ Finish \/ FinishFailed
    BY <1>0, <1>1, <2>2 DEF Run, Finish, FinishFailed, FinalSave
  <2> QED
    BY <1>3, <2>1, <2>2, SaveCases
<1>4. rec' \in [Nodes -> NodeRecord]
  <2>1. CASE \E n \in Nodes : NodeStep(n) /\ (StayStep(n) \/ OpenStep(n) \/ CloseStep(n))
    BY <1>0, <2>1 DEF StayStep, OpenStep, CloseStep, OpenFragment
  <2>2. CASE \E s \in Scopes : Schedule(s)
    BY <1>0, <2>2 DEF Schedule, NodeRecord, Outcomes, Terminal
  <2>3. CASE \E s \in Scopes : Merge(s)
    <3>1. PICK s \in Scopes : Merge(s)
      BY <2>3
    <3> DEFINE merged == Merged(Earliest(wave[s]))
    <3>2. merged \in [Nodes -> NodeRecord]
      BY <1>2, <3>1
    <3>3. \/ rec' = merged
          \/ rec' = [n \in Nodes |->
                       IF s = Top /\ Parent[n] = Top /\ n \notin skips
                          /\ merged[n].status = "pending"
                       THEN [merged[n] EXCEPT !.status = "blocked"] ELSE merged[n]]
      BY <3>1 DEF Merge, Pause, StopAtBudget, Continue
    <3> HIDE DEF merged
    <3> QED
      BY <3>2, <3>3 DEF NodeRecord, Outcomes, Terminal
  <2>4. CASE \E s \in Scopes : RaiseInFragment(s)
    BY <1>0, <2>4 DEF RaiseInFragment
  <2>5. CASE EndProcess
    BY <1>0, <2>5 DEF EndProcess
  <2>6. CASE Compensate
    <3> DEFINE target == Compensation[Latest(undo)]
    <3>1. /\ target \in Inside(Top) /\ rec'[target].status \in Outcomes
      BY <2>6, CompensateEffect
    <3> HIDE DEF target
    <3>2. rec[target].attempts \in {0, 1} /\ target \in Nodes
      BY <1>0, <3>1 DEF NodeRecord
    <3>3. \E status : \E attempts \in {0, 1} :
             rec' = [rec EXCEPT ![target] = [status |-> status, attempts |-> attempts]]
      <4>1. \/ \E status \in MayReturn[target] \ {"raised"} :
                  rec' = [rec EXCEPT ![target] = [status |-> status, attempts |-> 1]]
            \/ \E status \in {"failed", "blocked", "awaiting_human"} :
                  rec' = [rec EXCEPT ![target] = [status |-> status, attempts |-> rec[target].attempts]]
        BY <2>6 DEF Compensate, target
      <4> QED
        BY <3>2, <4>1
    <3>8. PICK status : \E attempts \in {0, 1} :
             rec' = [rec EXCEPT ![target] = [status |-> status, attempts |-> attempts]]
      BY <3>3
    <3>4. PICK attempts \in {0, 1} :
             rec' = [rec EXCEPT ![target] = [status |-> status, attempts |-> attempts]]
      BY <3>8
    <3>5. rec'[target] = [status |-> status, attempts |-> attempts]
      BY <1>0, <3>2, <3>4
    <3>6. status \in Outcomes
      BY <3>1, <3>5
    <3>7. [status |-> status, attempts |-> attempts] \in NodeRecord
      BY <3>6 DEF NodeRecord
    <3> QED
      BY <1>0, <3>2, <3>4, <3>7
  <2>7. CASE StartCompensation \/ PassOver \/ Run
    BY <1>0, <2>7 DEF StartCompensation, PassOver, Run
  <2>8. CASE Resume
    <3>1. Saved /\ rec' = [n \in Nodes |-> IF Parent[n] = Top THEN Resumed(disk.nodes[n]) ELSE Pending]
      BY <2>8 DEF Resume, Saved
    <3>2. disk.nodes \in [Inside(Top) -> NodeRecord]
      BY <1>0, <3>1 DEF Saved, Records
    <3>3. \A n \in Inside(Top) : Resumed(disk.nodes[n]) \in NodeRecord
      BY <3>2 DEF Resumed, NodeRecord
    <3> QED
      BY <1>0, <3>1, <3>3 DEF Inside
  <2>9. CASE UNCHANGED vars
    BY <1>0, <2>9 DEF vars, exec
  <2> QED
    BY <2>1, <2>2, <2>3, <2>4, <2>5, <2>6, <2>7, <2>8, <2>9, ThreadCases DEF TopMoves, Starts
<1> QED
  BY <1>0, <1>3, <1>4 DEF Records

LEMMA ControlTypes ==
    ASSUME GraphInv, [Next]_vars
    PROVE  /\ executions' \in 0..MaxExecutions
           /\ undo' \subseteq Inside(Top)
           /\ budgetFailed' \in BOOLEAN /\ provider' \in BOOLEAN /\ forced' \in BOOLEAN
           /\ starts' \in 0..MaxStarts /\ crashes' \in 0..MaxCrashes
<1>0. /\ executions \in 0..MaxExecutions /\ undo \subseteq Inside(Top)
      /\ budgetFailed \in BOOLEAN /\ provider \in BOOLEAN /\ forced \in BOOLEAN
      /\ starts \in 0..MaxStarts /\ crashes \in 0..MaxCrashes
      /\ MaxExecutions \in Nat /\ MaxStarts \in Nat /\ MaxCrashes \in Nat
  BY GraphAssumption DEF GraphInv, Shape, TypeOK
<1>1. CASE \E n \in Nodes : NodeStep(n)
  <2>1. PICK n \in Nodes : NodeStep(n)
    BY <1>1
  <2>2. /\ executions' = executions \/ (executions < MaxExecutions /\ executions' = executions + 1)
        /\ UNCHANGED <<undo, budgetFailed, control>>
    BY <2>1 DEF NodeStep, Exhausted, Refrain, Begin, End, Gate, EnterSubgraph, Descend, EnterLoop,
                LeaveSubgraph, LeaveRaised, LeaveIteration, EnterMap, LeaveItem, Admit
  <2> QED
    BY <1>0, <2>2 DEF control
<1>2. CASE \E s \in Scopes : Schedule(s) \/ Merge(s) \/ RaiseInFragment(s)
  <2>1. /\ UNCHANGED <<executions, undo, control>>
        /\ budgetFailed' = budgetFailed \/ budgetFailed' = TRUE
    BY <1>2 DEF Schedule, Merge, RaiseInFragment, Pause, StopAtBudget, Continue
  <2> QED
    BY <1>0, <2>1 DEF control
<1>3. CASE EndProcess /\ (Abandon \/ Finish \/ FinishFailed \/ Crash)
  <2>1. /\ executions' = 0 /\ undo' = {} /\ budgetFailed' = FALSE
        /\ UNCHANGED <<provider, forced, starts>>
    BY <1>3 DEF EndProcess, Abandon, Finish, FinishFailed, Crash, FinalSave, control
  <2>2. crashes' = crashes \/ (crashes < MaxCrashes /\ crashes' = crashes + 1)
    BY <1>3 DEF Abandon, Finish, FinishFailed, Crash, FinalSave, control
  <2>3. crashes' \in 0..MaxCrashes /\ executions' \in 0..MaxExecutions
    BY <1>0, <2>1, <2>2
  <2>4. undo' \subseteq Inside(Top)
    BY <2>1
  <2> QED
    BY <1>0, <2>1, <2>3, <2>4
<1>4. CASE StartCompensation \/ PassOver
  BY <1>0, <1>4 DEF StartCompensation, PassOver, control
<1>5. CASE Compensate
  <2>1. /\ executions' = executions \/ (executions < MaxExecutions /\ executions' = executions + 1)
        /\ undo' \subseteq undo
        /\ UNCHANGED <<budgetFailed, control>>
    BY <1>5 DEF Compensate
  <2> QED
    BY <1>0, <2>1 DEF control
<1>6. CASE Run \/ Resume
  <2>1. /\ starts < MaxStarts /\ starts' = starts + 1 /\ provider' \in BOOLEAN
        /\ UNCHANGED <<executions, undo, budgetFailed, crashes>>
    BY <1>6 DEF Run, Resume, BeginProcess
  <2>2. forced' \in BOOLEAN
    BY <1>0, <1>6 DEF Run, Resume
  <2> QED
    BY <1>0, <2>1, <2>2
<1>7. CASE UNCHANGED vars
  BY <1>0, <1>7 DEF vars, exec, control
<1> QED
  BY <1>1, <1>2, <1>3, <1>4, <1>5, <1>6, <1>7
     DEF Next, ExecutorStep, Abandon, Finish, FinishFailed, FinalSave, Crash

LEMMA HistoryTypes ==
    ASSUME GraphInv, [Next]_vars
    PROVE  /\ runs' \in [Nodes -> Nat]
           /\ completed' \subseteq Nodes /\ unrecorded' \subseteq Nodes
<1>0. runs \in [Nodes -> Nat] /\ completed \subseteq Nodes /\ unrecorded \subseteq Nodes
  BY DEF GraphInv, Shape, TypeOK
<1>1. CASE \E n \in Nodes : NodeStep(n)
  <2>1. PICK n \in Nodes : NodeStep(n)
    BY <1>1
  <2>2. CASE Begin(n)
    BY <1>0, <2>2 DEF Begin
  <2>3. CASE End(n)
    BY <1>0, <2>3 DEF End
  <2>4. CASE ~Begin(n) /\ ~End(n)
    <3>1. UNCHANGED history
      BY <2>1, <2>4 DEF NodeStep, Exhausted, Refrain, Gate, EnterSubgraph, Descend, EnterLoop,
                        LeaveSubgraph, LeaveRaised, LeaveIteration, EnterMap, LeaveItem
    <3> QED
      BY <1>0, <3>1 DEF history
  <2> QED
    BY <2>2, <2>3, <2>4
<1>2. CASE \E s \in Scopes : Schedule(s) \/ Merge(s) \/ RaiseInFragment(s)
  BY <1>0, <1>2 DEF Schedule, Merge, RaiseInFragment, SaveMerged, history
<1>3. CASE Compensate
  <2> DEFINE target == Compensation[Latest(undo)]
  <2>1. target \in Nodes
    BY <1>3, CompensateEffect, ScopeFacts
  <2>2. /\ runs' = runs \/ runs' = [runs EXCEPT ![target] = @ + 1]
        /\ unrecorded' = unrecorded \/ unrecorded' = unrecorded \union {target}
        /\ completed' = completed
    BY <1>3 DEF Compensate
  <2> HIDE DEF target
  <2> QED
    BY <1>0, <2>1, <2>2
<1>4. CASE Abandon \/ Finish \/ FinishFailed \/ Crash \/ StartCompensation \/ PassOver
  BY <1>0, <1>4 DEF Abandon, Finish, FinishFailed, Crash, FinalSave, StartCompensation, PassOver,
                    history
<1>5. CASE Run \/ Resume
  BY <1>0, <1>5 DEF Run, Resume, BeginProcess, history
<1>6. CASE UNCHANGED vars
  BY <1>0, <1>6 DEF vars, history
<1> QED
  BY <1>1, <1>2, <1>3, <1>4, <1>5, <1>6 DEF Next, ExecutorStep

LEMMA ShapeStep == GraphInv /\ [Next]_vars => Shape'
<1> SUFFICES ASSUME GraphInv, [Next]_vars PROVE Shape'
  OBVIOUS
<1>1. depth' \in 0..MaxDepth + Cardinality(Nodes)
  <2>1. depth' = Cardinality(Deep')
    BY DepthStep
  <2>2. Deep' \subseteq Nodes
    BY DEF Deep
  <2>3. /\ Cardinality(Deep') \in Nat /\ Cardinality(Deep') <= Cardinality(Nodes)
        /\ Cardinality(Nodes) \in Nat
    BY <2>2, NodesFinite, FS_Subset, FS_CardinalityType
  <2> QED
    BY <2>1, <2>3, GraphAssumption
<1>2. /\ phase' \in [Scopes -> Phases] /\ thread' \in [Nodes -> Threads]
      /\ result' \in [Nodes -> Result] /\ wave' = [s \in Scopes |-> wave'[s]]
      /\ \A s \in Scopes : wave'[s] \subseteq Inside(s) /\ Cardinality(wave'[s]) <= Limit(s)
      /\ skips' \subseteq Nodes
  BY ThreadTypes
<1>3. /\ rec' \in [Nodes -> NodeRecord]
      /\ disk' = NoRun \/ disk' \in [status : {"running", "awaiting_human", "failed", "succeeded"},
                                     nodes : [Inside(Top) -> NodeRecord],
                                     iter : [Inside(Top) -> 0..MaxIterations]]
  BY RecordTypes
<1>4. iter' \in [Nodes -> 0..MaxIterations] /\ items' \in [Nodes -> Items]
  BY CountTypes
<1>5. TypeOK'
  BY <1>1, <1>2, <1>3, <1>4, ControlTypes, HistoryTypes DEF TypeOK, Phases, Threads, Items
<1> QED
  BY <1>2, <1>5 DEF Shape

-----------------------------------------------------------------------------
(* The theorems. *)

LEMMA GraphInit == Init => GraphInv
<1> SUFFICES ASSUME Init PROVE GraphInv
  OBVIOUS
<1> USE DEF Init
<1>0. Top \in Scopes /\ Composites \subseteq Scopes /\ ~Saved
  BY ScopeFacts DEF Saved
<1>1. Shape
  <2>1. \A s \in Scopes : wave[s] = {} /\ Limit(s) \in Nat /\ Cardinality({}) = 0
    BY GraphAssumption, FS_EmptySet DEF Limit
  <2>2. \A s \in Scopes : wave[s] \subseteq Inside(s) /\ Cardinality(wave[s]) <= Limit(s)
    BY <2>1
  <2>3. rec \in [Nodes -> NodeRecord] /\ result \in [Nodes -> Result]
    BY DEF NodeRecord, Result, Pending, NoResult
  <2>4. items \in [Nodes -> [left : {0} \union UNION {0..k : k \in MapItems}, won : Nat]]
    BY DEF NoItems
  <2>5. depth \in 0..MaxDepth + Cardinality(Nodes)
    BY DeepFinite, GraphAssumption
  <2>6. phase \in [Scopes -> {"off", "schedule", "wave", "done", "raised", "compensate"}]
        /\ thread \in [Nodes -> {"off", "queued", "working", "entering", "fragment", "returned"}]
    OBVIOUS
  <2>7. iter \in [Nodes -> 0..MaxIterations] /\ executions \in 0..MaxExecutions
        /\ starts \in 0..MaxStarts /\ crashes \in 0..MaxCrashes /\ runs \in [Nodes -> Nat]
    BY GraphAssumption
  <2> QED
    BY <2>2, <2>3, <2>4, <2>5, <2>6, <2>7 DEF Shape, TypeOK
<1>2. ThreadInv
  BY <1>0, ScopeFacts DEF ThreadInv
<1>3. LabelInv
  <2>1. Deep = {}
    BY DEF Deep
  <2> QED
    BY <1>0, <2>1, FS_EmptySet DEF LabelInv
<1>4. WaveInv /\ StoppedInv
  BY <1>0 DEF WaveInv, StoppedInv, Pending
<1>5. DiskInv /\ SkipInv /\ DoneInv /\ UndoInv
  BY <1>0 DEF DiskInv, SkipInv, DoneInv, UndoInv
<1>6. DependenciesDurable /\ SuccessIsComplete /\ FailureCompensated
  BY <1>0, ScopeFacts DEF DependenciesDurable, SuccessIsComplete, FailureCompensated
<1> QED
  BY <1>1, <1>2, <1>3, <1>4, <1>5, <1>6 DEF GraphInv

\* The invariant behind the theorems below: threads, waves and phases agree, the record
\* in memory agrees with the saved one, marks stay true, and joins, success and failure
\* are what the record shows (GraphExecutor._execute_scope).
THEOREM GraphInvHolds == Spec => []GraphInv
<1>1. Init => GraphInv
  BY GraphInit
<1>2. GraphInv /\ [Next]_vars => GraphInv'
  BY ShapeStep, ThreadStep, LabelStep, WaveStep, StoppedStep, DiskStep, SkipStep, DoneStep,
     UndoStep, DependenciesStep, SuccessStep, FailureStep DEF GraphInv
<1> QED
  BY <1>1, <1>2, PTL DEF Spec

\* What is on record is enough for what was started, and a run recorded as failed was
\* compensated, wherever the process dies or a node raises (store.save, _compensate).
THEOREM RecoveryTruthfulHolds == Spec => []RecoveryTruthful
<1>1. GraphInv => RecoveryTruthful
  BY DEF GraphInv, Shape, RecoveryTruthful
<1> QED
  BY <1>1, GraphInvHolds, PTL

\* A run recorded as succeeded left nothing undone, also where processes die, nodes raise
\* and budgets are exceeded (the end of _execute_document).
THEOREM SuccessIsCompleteHolds == Spec => []SuccessIsComplete
<1>1. GraphInv => SuccessIsComplete
  BY DEF GraphInv
<1> QED
  BY <1>1, GraphInvHolds, PTL

-----------------------------------------------------------------------------
(* What was recorded is kept, and not done again. *)

\* Nothing inside a node has a thread unless the node has one.
LEMMA WithinOff ==
    ASSUME GraphInv, NEW n \in Nodes, thread[n] = "off", NEW m \in Within(n)
    PROVE  m \in Nodes /\ thread[m] = "off"
<1> DEFINE S == {x \in Nodes : thread[x] = "off"}
<1>1. ASSUME NEW x \in Nodes, Parent[x] \in S
      PROVE  x \in S
  <2>1. Parent[x] \in Nodes /\ Parent[x] \in Composites /\ thread[Parent[x]] = "off"
    BY <1>1, ScopeFacts
  <2>2. phase[Parent[x]] = "off"
    BY <2>1 DEF GraphInv, ThreadInv
  <2>3. wave[Parent[x]] = {}
    BY <2>1, <2>2, ScopeFacts DEF GraphInv, ThreadInv
  <2>4. thread[x] = "off"
    BY <2>3 DEF GraphInv, ThreadInv
  <2> QED
    BY <2>4
<1>2. n \in S /\ S \in SUBSET Nodes
  OBVIOUS
<1> HIDE DEF S
<1>3. m \in S
  BY <1>1, <1>2 DEF Within, Fragments
<1> QED
  BY <1>3 DEF S

\* The nodes of the graph are not inside one another.
LEMMA WithinTop ==
    ASSUME NEW n \in Inside(Top), NEW m \in Within(n), m \in Inside(Top)
    PROVE  m = n
<1> DEFINE S == {x \in Nodes : x = n \/ Parent[x] # Top}
<1>1. ASSUME NEW x \in Nodes, Parent[x] \in S
      PROVE  x \in S
  BY <1>1, ScopeFacts
<1>2. n \in S /\ S \in SUBSET Nodes /\ n \in Nodes
  BY ScopeFacts
<1> HIDE DEF S
<1>3. m \in S
  BY <1>1, <1>2 DEF Within, Fragments
<1> QED
  BY <1>3 DEF S, Inside

LEMMA RunsCases ==
    ASSUME GraphInv, [Next]_vars
    PROVE  \/ runs' = runs
           \/ \E n \in Nodes : Begin(n)
           \/ Compensate
<1>1. CASE \E n \in Nodes : NodeStep(n)
  <2>1. PICK n \in Nodes : NodeStep(n)
    BY <1>1
  <2>2. Begin(n) \/ runs' = runs
    BY <2>1 DEF NodeStep, Exhausted, Refrain, End, Gate, EnterSubgraph, Descend, EnterLoop,
                LeaveSubgraph, LeaveRaised, LeaveIteration, EnterMap, LeaveItem, history
  <2> QED
    BY <2>2
<1>2. CASE \E s \in Scopes : Schedule(s) \/ Merge(s) \/ RaiseInFragment(s)
  BY <1>2 DEF Schedule, Merge, RaiseInFragment, history
<1>3. CASE Abandon \/ Finish \/ FinishFailed \/ Crash \/ StartCompensation \/ PassOver
  BY <1>3 DEF Abandon, Finish, FinishFailed, Crash, FinalSave, StartCompensation, PassOver, history
<1>4. CASE Run \/ Resume
  BY <1>4 DEF Run, Resume, BeginProcess, history
<1>5. CASE UNCHANGED vars
  BY <1>5 DEF vars, history
<1> QED
  BY <1>1, <1>2, <1>3, <1>4, <1>5 DEF Next, ExecutorStep

LEMMA NotRepeated ==
    ASSUME GraphInv, [Next]_vars, Saved
    PROVE  CompletedNotRepeated
<1> SUFFICES ASSUME NEW n \in Inside(Top) \ Compensators, disk.nodes[n].status = "succeeded",
                    NEW m \in Within(n)
             PROVE  runs'[m] = runs[m]
  BY DEF CompletedNotRepeated
<1>1. CASE \E k \in Nodes : Begin(k)
  <2>1. PICK k \in Nodes : Begin(k)
    BY <1>1
  <2>2. runs' = [runs EXCEPT ![k] = @ + 1] /\ thread[k] = "queued"
    BY <2>1 DEF Begin, Admit
  <2>3. n \in Nodes /\ NodeStep(k)
    BY <2>1, ScopeFacts DEF NodeStep
  <2>4. thread[n] = "off"
    <3> SUFFICES ASSUME thread[n] # "off" PROVE FALSE
      OBVIOUS
    <3>1. rec[n].status = "pending"
      BY <2>3 DEF GraphInv, WaveInv
    <3>2. phase[Top] # "off"
      BY <2>3, NodeRuns
    <3>3. "succeeded" \in Terminal
      BY DEF Terminal
    <3> QED
      BY <3>1, <3>2, <3>3 DEF GraphInv, DiskInv
  <2>5. m # k
    BY <2>2, <2>3, <2>4, WithinOff
  <2> QED
    BY <2>2, <2>5 DEF GraphInv, Shape, TypeOK
<1>2. CASE Compensate
  <2> DEFINE target == Compensation[Latest(undo)]
  <2>1. target \in Inside(Top) /\ target \in Compensators
    BY <1>2, CompensateEffect
  <2>2. runs' = runs \/ runs' = [runs EXCEPT ![target] = @ + 1]
    BY <1>2 DEF Compensate
  <2> HIDE DEF target
  <2>3. m # target
    BY <2>1, WithinTop
  <2>4. m \in Nodes /\ runs \in [Nodes -> Nat]
    BY ScopeFacts DEF Within, Fragments, GraphInv, Shape, TypeOK
  <2> QED
    BY <2>2, <2>3, <2>4
<1> QED
  BY <1>1, <1>2, RunsCases

LEMMA OutcomesFinal ==
    ASSUME GraphInv, [Next]_vars, Saved
    PROVE  SavedOutcomesFinal
<1> SUFFICES ASSUME NEW n \in Inside(Top) \ Compensators, disk.nodes[n].status \in Terminal
             PROVE  disk'.nodes[n].status = disk.nodes[n].status
  BY DEF SavedOutcomesFinal
<1>0. phase[Top] # "off" => rec[n].status = disk.nodes[n].status
  BY DEF GraphInv, DiskInv
<1>1. CASE disk' = disk
  BY <1>1
<1>2. CASE Merge(Top)
  <2> DEFINE k == Earliest(wave[Top])
  <2>1. /\ phase[Top] = "wave" /\ rec[k].status = "pending"
        /\ \A m \in Inside(Top) \ {k} : disk'.nodes[m] = rec[m]
    BY <1>2, MergeTopEffect
  <2> HIDE DEF k
  <2>2. n # k
    BY <1>0, <2>1 DEF Terminal
  <2> QED
    BY <1>0, <2>1, <2>2
<1>3. CASE Finish \/ FinishFailed
  <2>1. phase[Top] # "off" /\ \E status : disk' = SavedRecord(status, rec)
    BY <1>3 DEF Finish, FinishFailed, FinalSave
  <2>2. disk'.nodes[n] = rec[n]
    BY <2>1 DEF SavedRecord
  <2> QED
    BY <1>0, <2>1, <2>2
<1>4. CASE Run
  BY <1>4 DEF Run, Saved
<1> QED
  BY <1>1, <1>2, <1>3, <1>4, SaveCases

\* "Completed nodes are preserved" (recovery.py): whatever crashes, exceptions, pauses and
\* resumes happen, a node the record holds as succeeded, and the fragment in it, is not run
\* again, and no later save replaces an outcome.
THEOREM CompletedWorkKeptHolds == Spec => CompletedWorkKept
<1>1. GraphInv /\ [Next]_vars => [Saved => CompletedNotRepeated /\ SavedOutcomesFinal]_vars
  BY NotRepeated, OutcomesFinal
<1> QED
  BY <1>1, GraphInvHolds, PTL DEF Spec, CompletedWorkKept

-----------------------------------------------------------------------------
(* Iterations, where nothing is interrupted. *)

\* Nothing raises and no process dies, and no fragment can exceed the usage limit.
Uninterrupted ==
    /\ MaxCrashes = 0
    /\ \A n \in Nodes : "raised" \notin MayReturn[n]
    /\ UsageLimit >= Cardinality(Nodes)

NoRaise ==
    /\ \A n \in Nodes : thread[n] = "returned" => result[n].status # "raised"
    /\ \A s \in Scopes : phase[s] # "raised"

\* How often the body of a loop of the graph has begun a node.
BodyRuns(n, m) ==
    IF phase[Top] = "off" THEN runs[m] <= IF Saved THEN disk.iter[n] ELSE 0
    ELSE IF phase[n] = "off" THEN runs[m] <= iter[n]
    ELSE /\ runs[m] <= iter[n] + 1
         /\ phase[n] \in {"schedule", "wave"} /\ rec[m].status = "pending"
               /\ thread[m] \in {"off", "queued"} => runs[m] <= iter[n]

IterInv ==
    \A n \in Inside(Top) : Kind[n] = "loop" => \A m \in Inside(n) : BodyRuns(n, m)

LEMMA NoRaiseStep ==
    ASSUME Uninterrupted, GraphInv, NoRaise, [Next]_vars
    PROVE  NoRaise'
<1> USE DEF NoRaise
<1>0. Composites \subseteq Scopes /\ Top \in Scopes
  BY ScopeFacts
<1>1. CASE \E n \in Nodes : NodeStep(n) /\ (StayStep(n) \/ OpenStep(n) \/ CloseStep(n))
  <2>1. PICK n \in Nodes : NodeStep(n) /\ (StayStep(n) \/ OpenStep(n) \/ CloseStep(n))
    BY <1>1
  <2>2. ASSUME Reports(n)
        PROVE  result'[n].status # "raised" /\ \A m \in Nodes \ {n} : result'[m] = result[m]
    <3>1. PICK r \in Result :
             /\ result' = [result EXCEPT ![n] = r]
             /\ r.status = "raised" => \/ "raised" \in MayReturn[n]
                                       \/ n \in Composites /\ phase[n] = "raised"
      BY <2>2 DEF Reports
    <3>2. r.status # "raised"
      BY <1>0, <3>1 DEF Uninterrupted
    <3> QED
      BY <3>1, <3>2, TypeFacts
  <2>3. CASE StayStep(n)
    <3>1. PICK label \in {"working", "entering", "returned"} :
             /\ thread' = [thread EXCEPT ![n] = label]
             /\ IF label = "returned" THEN Reports(n) ELSE result' = result
      BY <2>3 DEF StayStep
    <3>2. phase' = phase /\ thread'[n] = label /\ \A m \in Nodes \ {n} : thread'[m] = thread[m]
      BY <2>3, <3>1, TypeFacts DEF StayStep
    <3> QED
      BY <2>2, <3>1, <3>2
  <2>4. CASE OpenStep(n)
    <3>1. /\ thread' = [thread EXCEPT ![n] = "fragment"] /\ result' = result
          /\ phase' = [phase EXCEPT ![n] = "schedule"]
      BY <2>4 DEF OpenStep, OpenFragment
    <3> QED
      BY <3>1, TypeFacts
  <2>5. CASE CloseStep(n)
    <3>1. /\ thread' = [thread EXCEPT ![n] = "returned"] /\ Reports(n)
          /\ phase' = [phase EXCEPT ![n] = "off"]
      BY <2>5 DEF CloseStep
    <3>2. /\ \A m \in Nodes \ {n} : thread'[m] = thread[m]
          /\ \A s \in Scopes : phase'[s] # "raised"
      BY <3>1, TypeFacts
    <3> QED
      BY <2>2, <3>1, <3>2
  <2> QED
    BY <2>1, <2>3, <2>4, <2>5
<1>2. CASE \E s \in Scopes : Schedule(s)
  <2>1. PICK s \in Scopes : Schedule(s)
    BY <1>2
  <2>2. /\ \A q \in Scopes \ {s} : phase'[q] = phase[q]
        /\ phase'[s] \in {"schedule", "wave", "done"}
        /\ \A n \in Nodes : thread'[n] = thread[n] \/ thread'[n] = "queued"
        /\ result' = result
    BY <2>1, ScheduleThreads
  <2> QED
    BY <2>2
<1>3. CASE \E s \in Scopes : Merge(s) \/ RaiseInFragment(s)
  <2>1. PICK s \in Scopes : Merge(s) \/ RaiseInFragment(s)
    BY <1>3
  <2>2. /\ \A q \in Scopes \ {s} : phase'[q] = phase[q]
        /\ \A n \in Nodes : thread'[n] = thread[n] \/ thread'[n] = "off"
        /\ result' = result
        /\ \A n \in wave[s] : n \in Nodes /\ thread[n] = "returned"
    BY <2>1, MergeThreads, TypeFacts
  <2>3. ~RaiseInFragment(s)
    BY <2>2 DEF RaiseInFragment
  <2>4. phase'[s] # "raised"
    <3>1. CASE Pause(s) \/ Continue(s)
      BY <3>1, TypeFacts DEF Pause, Continue
    <3>2. CASE StopAtBudget(s)
      <4>1. TRUE \in Exceeded(s, Merged(Earliest(wave[s])))
            /\ phase' = [phase EXCEPT ![s] = IF s = Top THEN "done" ELSE "raised"]
        BY <3>2 DEF StopAtBudget
      <4> DEFINE used == {n \in Inside(s) : Merged(Earliest(wave[s]))[n].attempts = 1}
      <4>2. used \subseteq Nodes
        BY ScopeFacts
      <4> HIDE DEF used
      <4>3. /\ Cardinality(used) \in Nat /\ Cardinality(Nodes) \in Nat
            /\ Cardinality(used) <= Cardinality(Nodes)
        BY <4>2, NodesFinite, FS_Subset, FS_CardinalityType
      <4>4. ~(Cardinality(used) > UsageLimit)
        BY <4>3, GraphAssumption DEF Uninterrupted
      <4>5. s = Top
        BY <4>1, <4>4 DEF Exceeded, Usage, used
      <4> QED
        BY <4>1, <4>5, TypeFacts
    <3> QED
      BY <2>1, <2>3, <3>1, <3>2 DEF Merge
  <2> QED
    BY <2>2, <2>4
<1>4. CASE EndProcess
  BY <1>4 DEF EndProcess
<1>5. CASE TopMoves \/ Starts
  BY <1>0, <1>5, TypeFacts DEF TopMoves, Starts
<1>6. CASE UNCHANGED vars
  BY <1>6 DEF vars, exec
<1> QED
  BY <1>1, <1>2, <1>3, <1>4, <1>5, <1>6, ThreadCases

\* The records after a merge: pending nodes may get an outcome, and a node that leaves the
\* wave of a scheduler that goes on has one.
LEMMA MergeRecords ==
    ASSUME GraphInv, NEW s \in Scopes, Merge(s)
    PROVE  /\ \A m \in Nodes :
                 rec'[m] = rec[m] \/ (m \in Inside(s) /\ rec'[m].status # "pending")
           /\ phase'[s] \in {"schedule", "wave"} =>
                 \A m \in wave[s] \ wave'[s] : rec'[m].status # "pending"
<1> DEFINE k == Earliest(wave[s])
<1>0. Earliest(wave[s]) = k
  OBVIOUS
<1>1. /\ k \in wave[s] /\ k \in Inside(s) /\ k \in Nodes
      /\ result[k] \in Result /\ result[k].status # "none"
      /\ Merged(k)[k].status = result[k].status
      /\ \A m \in Nodes \ {k} : Merged(k)[m] = rec[m]
  BY MergedEffect DEF Merge
<1> HIDE DEF k
<1>2. result[k].status # "pending"
  BY <1>1 DEF Result, Outcomes, Terminal, Merge
<1>3. CASE Pause(s)
  <2>1. rec' = Merged(k) /\ phase' = [phase EXCEPT ![s] = "done"]
    BY <1>0, <1>3 DEF Pause
  <2>2. phase'[s] = "done"
    BY <2>1, TypeFacts
  <2> QED
    BY <1>1, <1>2, <2>1, <2>2
<1>4. CASE StopAtBudget(s)
  <2>1. /\ phase' = [phase EXCEPT ![s] = IF s = Top THEN "done" ELSE "raised"]
        /\ \A n \in Nodes :
              rec'[n] = IF s = Top /\ Parent[n] = Top /\ n \notin skips
                           /\ Merged(k)[n].status = "pending"
                        THEN [Merged(k)[n] EXCEPT !.status = "blocked"] ELSE Merged(k)[n]
    BY <1>0, <1>4 DEF StopAtBudget
  <2>2. phase'[s] \notin {"schedule", "wave"}
    BY <2>1, TypeFacts
  <2>3. ASSUME NEW m \in Nodes, rec'[m] # rec[m]
        PROVE  m \in Inside(s) /\ rec'[m].status # "pending"
    <3>1. CASE rec'[m] = Merged(k)[m]
      BY <1>1, <1>2, <2>3, <3>1
    <3>2. CASE rec'[m] # Merged(k)[m]
      <4>1. /\ s = Top /\ Parent[m] = Top /\ Merged(k)[m].status = "pending"
            /\ rec'[m] = [Merged(k)[m] EXCEPT !.status = "blocked"]
        BY <2>1, <3>2
      <4>2. m # k
        BY <1>1, <1>2, <4>1
      <4>3. rec'[m] = [rec[m] EXCEPT !.status = "blocked"] /\ rec[m] \in NodeRecord
        BY <1>1, <4>1, <4>2, TypeFacts
      <4>4. rec'[m].status = "blocked"
        BY <4>3 DEF NodeRecord
      <4> QED
        BY <4>1, <4>4 DEF Inside
    <3> QED
      BY <3>1, <3>2
  <2> QED
    BY <2>2, <2>3
<1>5. CASE Continue(s)
  <2>1. rec' = Merged(k) /\ wave' = [wave EXCEPT ![s] = wave[s] \ {k}]
    BY <1>0, <1>5 DEF Continue
  <2>2. wave'[s] = wave[s] \ {k}
    BY <2>1, TypeFacts
  <2> QED
    BY <1>1, <1>2, <2>1, <2>2
<1> QED
  BY <1>3, <1>4, <1>5 DEF Merge

\* No step but those that begin a node's work counts one more run of it.
LEMMA NodeRunsOnce ==
    ASSUME NEW k \in Nodes, NodeStep(k), ~Begin(k)
    PROVE  runs' = runs
BY DEF NodeStep, Exhausted, Refrain, End, Gate, EnterSubgraph, Descend, EnterLoop,
       LeaveSubgraph, LeaveRaised, LeaveIteration, EnterMap, LeaveItem, history

\* The steps of a loop's own thread: it is refused, it enters, or an iteration ends.
LEMMA LoopSteps ==
    ASSUME GraphInv, NoRaise, NEW n \in Nodes, Kind[n] = "loop", NodeStep(n)
    PROVE  Exhausted(n) \/ EnterLoop(n) \/ LeaveIteration(n)
<1>1. ~LeaveRaised(n) /\ ~Refrain(n) /\ ~Begin(n)
  BY ScopeFacts DEF LeaveRaised, Refrain, Begin, Works, NoRaise
<1>2. ~End(n) /\ ~Descend(n)
  BY DEF End, Descend, GraphInv, LabelInv, Works
<1>3. ~Gate(n) /\ ~EnterSubgraph(n) /\ ~LeaveSubgraph(n) /\ ~EnterMap(n) /\ ~LeaveItem(n)
  BY DEF Gate, EnterSubgraph, LeaveSubgraph, EnterMap, LeaveItem
<1> QED
  BY <1>1, <1>2, <1>3 DEF NodeStep

\* The head of a loop returns, or opens the body.
LEMMA LoopHead ==
    ASSUME GraphInv, NEW n \in Composites, NextIteration(n)
    PROVE  phase'[n] \in {"off", "schedule"}
BY ScopeFacts, TypeFacts DEF NextIteration, LoopReturns, OpenFragment

LEMMA IterStep ==
    ASSUME Uninterrupted, GraphInv, NoRaise, IterInv, [Next]_vars
    PROVE  IterInv'
<1> SUFFICES ASSUME NEW n \in Inside(Top), Kind[n] = "loop", NEW m \in Inside(n)
             PROVE  BodyRuns(n, m)'
  BY DEF IterInv
<1>0. /\ n \in Nodes /\ n \in Composites /\ n \in Scopes /\ n # Top /\ Parent[n] = Top
      /\ m \in Nodes /\ Parent[m] = n /\ m # n /\ m \notin Inside(Top) /\ Top \in Scopes
  BY ScopeFacts DEF Inside, Composites
<1>1. BodyRuns(n, m)
  BY DEF IterInv
<1>2. /\ runs \in [Nodes -> Nat] /\ runs[m] \in Nat
      /\ iter \in [Nodes -> 0..MaxIterations] /\ iter[n] \in Nat /\ MaxIterations \in Nat
  <2>1. TypeOK
    BY DEF GraphInv, Shape
  <2>2. runs \in [Nodes -> Nat] /\ iter \in [Nodes -> 0..MaxIterations]
    BY <2>1 DEF TypeOK
  <2>3. MaxIterations \in Nat
    BY GraphAssumption
  <2> QED
    BY <1>0, <2>2, <2>3
<1>3. thread[n] # "fragment" => phase[n] = "off"
  BY <1>0 DEF GraphInv, ThreadInv
\* The loop is where it was, and the node of its body no nearer to its work.
<1>4. ASSUME phase[Top] # "off", phase'[Top] # "off", runs'[m] = runs[m], iter'[n] = iter[n],
             phase[n] = "off" <=> phase'[n] = "off",
             phase'[n] \in {"schedule", "wave"} => phase[n] \in {"schedule", "wave"},
             phase'[n] \in {"schedule", "wave"} /\ rec'[m].status = "pending"
                /\ thread'[m] \in {"off", "queued"} =>
                     rec[m].status = "pending" /\ thread[m] \in {"off", "queued"}
      PROVE  BodyRuns(n, m)'
  BY <1>1, <1>4 DEF BodyRuns
<1>5. ASSUME NEW k \in Nodes, NodeStep(k)
      PROVE  BodyRuns(n, m)'
  <2>1. phase[Top] # "off" /\ phase'[Top] # "off"
    BY <1>5, NodeRuns, NodeQuiet DEF TopStill
  <2>2. CASE Begin(k)
    <3>1. /\ runs' = [runs EXCEPT ![k] = @ + 1] /\ thread[k] = "queued"
          /\ thread' = [thread EXCEPT ![k] = "working"] /\ UNCHANGED <<phase, rec, iter>>
      BY <2>2 DEF Begin, Admit
    <3>2. CASE k = m
      <4>1. m \in wave[n] /\ rec[m].status = "pending"
        BY <1>0, <3>1, <3>2 DEF GraphInv, ThreadInv, WaveInv
      <4>2. phase[n] = "wave"
        BY <1>0, <4>1 DEF GraphInv, ThreadInv
      <4>3. runs[m] <= iter[n]
        BY <1>1, <2>1, <3>1, <3>2, <4>1, <4>2 DEF BodyRuns
      <4>4. runs'[m] <= iter'[n] + 1 /\ thread'[m] = "working"
        BY <1>2, <3>1, <3>2, <4>3, TypeFacts
      <4> QED
        BY <2>1, <3>1, <4>2, <4>4 DEF BodyRuns
    <3>3. CASE k # m
      <4>1. runs'[m] = runs[m] /\ thread'[m] = thread[m]
        BY <1>0, <1>2, <3>1, <3>3, TypeFacts
      <4> QED
        BY <1>4, <2>1, <3>1, <4>1
    <3> QED
      BY <3>2, <3>3
  <2>3. CASE ~Begin(k) /\ k = n
    <3>0. runs' = runs
      BY <1>5, <2>3, NodeRunsOnce
    <3>1. Exhausted(n) \/ EnterLoop(n) \/ LeaveIteration(n)
      BY <1>0, <1>5, <2>3, LoopSteps
    <3>2. CASE Exhausted(n)
      <4>1. thread[n] = "queued" /\ UNCHANGED <<phase, iter>>
        BY <3>2 DEF Exhausted
      <4>2. runs[m] <= iter[n]
        BY <1>1, <1>3, <2>1, <4>1 DEF BodyRuns
      <4> QED
        BY <1>3, <2>1, <3>0, <4>1, <4>2 DEF BodyRuns
    <3>3. CASE EnterLoop(n)
      <4>1. thread[n] = "queued" /\ iter' = iter /\ phase'[n] \in {"off", "schedule"}
        BY <1>0, <3>3, LoopHead DEF EnterLoop, Admit
      <4>2. runs[m] <= iter[n]
        BY <1>1, <1>3, <2>1, <4>1 DEF BodyRuns
      <4>3. runs'[m] <= iter'[n] /\ runs'[m] <= iter'[n] + 1
        BY <1>2, <3>0, <4>1, <4>2
      <4> QED
        BY <2>1, <4>3 DEF BodyRuns
    <3>4. CASE LeaveIteration(n)
      <4>1. phase[n] = "done" /\ iter' = [iter EXCEPT ![n] = @ + 1]
        BY <3>4 DEF LeaveIteration, FragmentOver, Counted
      <4>2. runs[m] <= iter[n] + 1
        BY <1>1, <2>1, <4>1 DEF BodyRuns
      <4>3. runs'[m] <= iter'[n] /\ runs'[m] <= iter'[n] + 1
        BY <1>0, <1>2, <3>0, <4>1, <4>2
      <4> QED
        BY <2>1, <4>3 DEF BodyRuns
    <3> QED
      BY <3>1, <3>2, <3>3, <3>4
  <2>4. CASE ~Begin(k) /\ k # n
    <3>0. runs' = runs
      BY <1>5, <2>4, NodeRunsOnce
    <3>1. CASE StayStep(k)
      <4>1. UNCHANGED <<phase, rec, iter>>
            /\ thread'[k] \notin {"off", "queued"} /\ \A j \in Nodes \ {k} : thread'[j] = thread[j]
        BY <3>1, TypeFacts DEF StayStep
      <4> QED
        BY <1>0, <1>4, <2>1, <3>0, <4>1
    <3>2. CASE OpenStep(k)
      <4>1. /\ phase' = [phase EXCEPT ![k] = "schedule"]
            /\ rec' = [j \in Nodes |-> IF Parent[j] = k THEN Pending ELSE rec[j]]
            /\ thread' = [thread EXCEPT ![k] = "fragment"]
            /\ iter' = [iter EXCEPT ![k] = iter'[k]]
        BY <3>2 DEF OpenStep, OpenFragment, OwnCounts
      <4>2. /\ phase'[n] = phase[n] /\ rec'[m] = rec[m] /\ iter'[n] = iter[n]
            /\ thread'[m] = IF m = k THEN "fragment" ELSE thread[m]
        BY <1>0, <2>4, <4>1, TypeFacts
      <4> QED
        BY <1>4, <2>1, <3>0, <4>2
    <3>3. CASE CloseStep(k)
      <4>1. /\ phase' = [phase EXCEPT ![k] = "off"] /\ rec' = rec
            /\ thread' = [thread EXCEPT ![k] = "returned"]
            /\ iter' = [iter EXCEPT ![k] = iter'[k]]
        BY <3>3 DEF CloseStep, OwnCounts
      <4>2. /\ phase'[n] = phase[n] /\ iter'[n] = iter[n]
            /\ thread'[m] = IF m = k THEN "returned" ELSE thread[m]
        BY <1>0, <2>4, <4>1, TypeFacts
      <4> QED
        BY <1>4, <2>1, <3>0, <4>1, <4>2
    <3> QED
      BY <1>5, <3>1, <3>2, <3>3, NodeCases
  <2> QED
    BY <2>2, <2>3, <2>4
<1>6. ASSUME NEW s \in Scopes, Schedule(s)
      PROVE  BodyRuns(n, m)'
  <2>1. /\ phase[s] = "schedule" /\ \A q \in Scopes \ {s} : phase'[q] = phase[q]
        /\ phase'[s] \in {"schedule", "wave", "done"} /\ iter' = iter
        /\ \A j \in Nodes : thread'[j] = IF j \in wave'[s] THEN "queued" ELSE thread[j]
        /\ \A j \in wave'[s] : thread[j] = "off"
    BY <1>6, ScheduleThreads
  <2>2. rec'[m].status = "pending" => rec[m].status = "pending"
    BY <1>0, <1>6, ScheduleEffect
  <2>3. runs' = runs
    BY <1>6 DEF Schedule, history
  <2>4. phase[Top] # "off"
    BY <1>6, <2>1 DEF GraphInv, StoppedInv
  <2>5. phase'[Top] # "off"
    BY <1>0, <2>1, <2>4
  <2>6. /\ phase[n] = "off" <=> phase'[n] = "off"
        /\ phase'[n] \in {"schedule", "wave"} => phase[n] \in {"schedule", "wave"}
        /\ thread'[m] \in {"off", "queued"} => thread[m] \in {"off", "queued"}
    BY <1>0, <2>1
  <2> QED
    BY <1>4, <2>1, <2>2, <2>3, <2>4, <2>5, <2>6
<1>7. ASSUME NEW s \in Scopes, Merge(s) \/ RaiseInFragment(s)
      PROVE  BodyRuns(n, m)'
  <2>1. /\ phase[s] = "wave" /\ \A j \in wave[s] : j \in Inside(s) /\ thread[j] = "returned"
        /\ \A q \in Scopes \ {s} : phase'[q] = phase[q]
        /\ phase'[s] \in {"schedule", "wave", "done", "raised"} /\ iter' = iter
        /\ \A j \in Nodes : thread'[j] = IF j \in wave[s] \ wave'[s] THEN "off" ELSE thread[j]
    BY <1>7, MergeThreads, TypeFacts
  <2>2. ~RaiseInFragment(s)
    BY <2>1, ScopeFacts DEF RaiseInFragment, NoRaise
  <2>3. /\ rec'[m].status = "pending" => rec[m].status = "pending"
        /\ phase'[s] \in {"schedule", "wave"} =>
              (m \in wave[s] \ wave'[s] => rec'[m].status # "pending")
    BY <1>0, <1>7, <2>2, MergeRecords
  <2>4. runs' = runs
    BY <1>7, <2>2 DEF Merge
  <2>5. phase[Top] # "off"
    BY <1>7, <2>1 DEF GraphInv, StoppedInv
  <2>6. phase'[Top] # "off"
    BY <1>0, <2>1, <2>5
  <2>7. /\ phase[n] = "off" <=> phase'[n] = "off"
        /\ phase'[n] \in {"schedule", "wave"} => phase[n] \in {"schedule", "wave"}
    BY <1>0, <2>1
  <2>8. phase'[n] \in {"schedule", "wave"} /\ rec'[m].status = "pending" => thread'[m] = thread[m]
    <3>1. m \in wave[s] => s = n
      BY <1>0, <2>1 DEF Inside
    <3> QED
      BY <1>0, <2>1, <2>3, <3>1
  <2> QED
    BY <1>4, <2>1, <2>3, <2>4, <2>5, <2>6, <2>7, <2>8
<1>8. CASE Finish \/ FinishFailed
  <2>1. /\ phase[Top] \in {"done", "compensate"} /\ EndProcess /\ runs' = runs
        /\ \E status \in {"running", "awaiting_human", "failed", "succeeded"} :
              disk' = SavedRecord(status, rec)
    BY <1>8 DEF Finish, FinishFailed, FinalSave
  <2>2. wave[Top] = {}
    BY <1>0, <2>1 DEF GraphInv, ThreadInv
  <2>3. phase[n] = "off"
    BY <1>0, <1>3, <2>2 DEF GraphInv, ThreadInv
  <2>4. runs[m] <= iter[n]
    BY <1>1, <2>1, <2>3 DEF BodyRuns
  <2>5. Saved' /\ disk'.iter[n] = iter[n] /\ phase'[Top] = "off"
    BY <2>1, SavedIsSaved, EndEffect DEF SavedRecord
  <2> QED
    BY <2>1, <2>4, <2>5 DEF BodyRuns
<1>9. ~Abandon /\ ~Crash
  <2>1. ~Crash
    BY DEF Crash, Uninterrupted, GraphInv, Shape, TypeOK
  <2>2. ~(Joinable(Top) /\ \E k \in wave[Top] : result[k].status = "raised")
    BY <1>0, TypeFacts DEF Joinable, NoRaise
  <2>3. ASSUME undo # {}, NeedsCompensation(Latest(undo)),
               "raised" \in MayReturn[Compensation[Latest(undo)]]
        PROVE  FALSE
    <3>1. Latest(undo) \in Nodes
      BY <2>3, TypeFacts, LatestIn, ScopeFacts
    <3>2. Compensation[Latest(undo)] \in Nodes
      BY <2>3, <3>1, GraphAssumption DEF NeedsCompensation
    <3> QED
      BY <2>3, <3>2 DEF Uninterrupted
  <2> QED
    BY <2>1, <2>2, <2>3 DEF Abandon
<1>10. CASE StartCompensation \/ PassOver \/ Compensate
  <2>1. /\ phase' = [phase EXCEPT ![Top] = "compensate"] /\ phase[Top] \in {"done", "compensate"}
        /\ UNCHANGED <<thread, iter>>
    BY <1>10, TypeFacts DEF StartCompensation, PassOver, Compensate
  <2>2. runs'[m] = runs[m] /\ rec'[m] = rec[m]
    <3>1. CASE StartCompensation \/ PassOver
      BY <3>1 DEF StartCompensation, PassOver, history
    <3>2. CASE Compensate
      <4> DEFINE target == Compensation[Latest(undo)]
      <4>1. target \in Inside(Top) /\ \A j \in Nodes \ {target} : rec'[j] = rec[j]
        BY <3>2, CompensateEffect
      <4>2. runs' = runs \/ runs' = [runs EXCEPT ![target] = @ + 1]
        BY <3>2 DEF Compensate
      <4> HIDE DEF target
      <4> QED
        BY <1>0, <1>2, <4>1, <4>2
    <3> QED
      BY <1>10, <3>1, <3>2
  <2>3. phase'[n] = phase[n] /\ phase'[Top] # "off" /\ phase[Top] # "off"
    BY <1>0, <2>1, TypeFacts
  <2> QED
    BY <1>4, <2>1, <2>2, <2>3
<1>11. CASE Run \/ Resume
  <2>1. /\ phase' = [phase EXCEPT ![Top] = "schedule"] /\ phase[Top] = "off" /\ runs' = runs
    BY <1>11 DEF Run, Resume, BeginProcess, Stopped, history
  <2>2. phase'[Top] # "off" /\ phase'[n] = "off"
    BY <1>0, <2>1, TypeFacts DEF GraphInv, StoppedInv
  <2>3. CASE Run
    <3>1. runs[m] <= 0 /\ iter' = iter
      BY <1>1, <2>1, <2>3 DEF Run, BodyRuns, Saved
    <3>2. runs'[m] <= iter'[n]
      BY <1>2, <2>1, <3>1
    <3> QED
      BY <2>2, <3>2 DEF BodyRuns
  <2>4. CASE Resume
    <3>1. Saved /\ iter' = [k \in Nodes |-> IF Parent[k] = Top THEN disk.iter[k] ELSE 0]
      BY <2>4 DEF Resume, Saved
    <3>2. runs[m] <= disk.iter[n]
      BY <1>1, <2>1, <3>1 DEF BodyRuns
    <3>3. runs'[m] <= iter'[n]
      BY <1>0, <2>1, <3>1, <3>2
    <3> QED
      BY <2>2, <3>3 DEF BodyRuns
  <2> QED
    BY <1>11, <2>3, <2>4
<1>12. CASE UNCHANGED vars
  BY <1>1, <1>12 DEF BodyRuns, Saved, vars, exec, history
<1> QED
  BY <1>5, <1>6, <1>7, <1>8, <1>9, <1>10, <1>11, <1>12 DEF Next, ExecutorStep

\* What IterInv says of the loops, and the count each is stopped at.
LEMMA WithinBudget ==
    ASSUME GraphInv, IterInv
    PROVE  IterationsWholeRun
<1> SUFFICES ASSUME NEW n \in Inside(Top), Kind[n] = "loop", NEW m \in Inside(n)
             PROVE  runs[m] <= MaxIterations
  BY DEF IterationsWholeRun
<1>0. BodyRuns(n, m)
  BY DEF IterInv
<1>1. /\ n \in Nodes /\ n \in Composites /\ m \in Nodes
  BY ScopeFacts DEF Composites
<1>2. /\ runs[m] \in Nat /\ MaxIterations \in Nat
      /\ iter[n] \in Nat /\ iter[n] <= MaxIterations
  BY <1>1, GraphAssumption DEF GraphInv, Shape, TypeOK
<1>3. CASE phase[Top] = "off"
  <2>1. CASE Saved
    <3>1. disk.iter \in [Inside(Top) -> 0..MaxIterations]
      BY <2>1 DEF GraphInv, Shape, TypeOK, Saved
    <3>2. disk.iter[n] \in Nat /\ disk.iter[n] <= MaxIterations
      BY <1>2, <3>1
    <3>3. runs[m] <= disk.iter[n]
      BY <1>0, <1>3, <2>1 DEF BodyRuns
    <3> QED
      BY <1>2, <3>2, <3>3
  <2>2. CASE ~Saved
    BY <1>0, <1>2, <1>3, <2>2 DEF BodyRuns
  <2> QED
    BY <2>1, <2>2
<1>4. CASE phase[Top] # "off" /\ phase[n] = "off"
  <2>1. runs[m] <= iter[n]
    BY <1>0, <1>4 DEF BodyRuns
  <2> QED
    BY <1>2, <2>1
<1>5. CASE phase[Top] # "off" /\ phase[n] # "off"
  <2>1. iter[n] < MaxIterations
    BY <1>1, <1>5 DEF GraphInv, LabelInv
  <2>2. runs[m] <= iter[n] + 1
    BY <1>0, <1>5 DEF BodyRuns
  <2> QED
    BY <1>2, <2>1, <2>2
<1> QED
  BY <1>3, <1>4, <1>5

\* A record without crashes says what happened: a node starts on what is recorded, success
\* means that all is done, and a loop, however often the run pauses and is resumed, runs its
\* body at most max_iterations times in all.
THEOREM RecordTruthfulHolds == Uninterrupted => (Spec => []RecordTruthful)
<1> SUFFICES ASSUME Uninterrupted PROVE Spec => []RecordTruthful
  OBVIOUS
<1>1. Init => NoRaise /\ IterInv
  <2> SUFFICES ASSUME Init PROVE NoRaise /\ IterInv
    OBVIOUS
  <2>1. /\ \A n \in Nodes : thread[n] = "off" /\ runs[n] = 0
        /\ \A s \in Scopes : phase[s] = "off"
        /\ phase[Top] = "off" /\ disk = NoRun
    BY ScopeFacts DEF Init
  <2>2. \A n \in Inside(Top) : Kind[n] = "loop" => \A m \in Inside(n) : m \in Nodes
    BY DEF Inside
  <2> QED
    BY <2>1, <2>2 DEF NoRaise, IterInv, BodyRuns, Saved
<1>2. GraphInv /\ NoRaise /\ IterInv /\ [Next]_vars => NoRaise' /\ IterInv'
  BY NoRaiseStep, IterStep
<1>3. GraphInv /\ IterInv => RecordTruthful
  BY WithinBudget DEF RecordTruthful, GraphInv, Shape
<1> QED
  BY <1>1, <1>2, <1>3, GraphInvHolds, PTL DEF Spec
=============================================================================
