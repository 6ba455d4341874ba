----------------------------- MODULE WebGraphs -----------------------------
(***************************************************************************)
(* Graph runs from the browser: loro/webui/graphs.py (GraphService,        *)
(* GraphRunHandle) and the handlers of server.py that follow and decide.   *)
(*                                                                         *)
(* A run's thread holds one of a few slots; the cards it runs side by side *)
(* ask the browser one after the other; a browser follows the events of a  *)
(* run from a cursor.  What GraphExecutor does between gates is left to    *)
(* GraphRun.                                                               *)
(***************************************************************************)
EXTENDS Integers, Sequences, FiniteSets

CONSTANTS
    GraphRuns,        \* run ids
    CardsOf,          \* run -> the cards of its graph that ask for a decision
    GraphSlots        \* max_concurrent

ASSUME WebGraphsAssumption == GraphSlots \in Nat \ {0}

NoCard == "no card"

VARIABLES
    graphPc,      \* run -> none, waiting, running, over, closed or timed out
    gate,         \* run -> handle.gate: the card whose request it holds
    card,         \* run -> card -> how far it is
    decided,      \* run -> card -> the answer its request holds
    answered,     \* run -> card -> the answer the browser was told is taken
    feed,         \* run -> handle.events
    cursor,       \* run -> how much of it the browser has
    streamed      \* the runs whose stream the server ended

gateVars     == <<gate, card, decided, answered>>
streamVars   == <<feed, cursor, streamed>>
webGraphsVars == <<graphPc, gateVars, streamVars>>

WebGraphsInit ==
    /\ graphPc = [g \in GraphRuns |-> "none"]
    /\ gate = [g \in GraphRuns |-> NoCard]
    /\ card = [g \in GraphRuns |-> [k \in CardsOf[g] |-> "working"]]
    /\ decided = [g \in GraphRuns |-> [k \in CardsOf[g] |-> "none"]]
    /\ answered = [g \in GraphRuns |-> [k \in CardsOf[g] |-> "none"]]
    /\ feed = [g \in GraphRuns |-> <<>>]
    /\ cursor = [g \in GraphRuns |-> 0]
    /\ streamed = {}

GraphGoto(g, label) == graphPc' = [graphPc EXCEPT ![g] = label]

Publish(g, events) == feed' = [feed EXCEPT ![g] = @ \o events]

CardGoto(g, k, label) == card' = [card EXCEPT ![g][k] = label]

---------------------------------------------------------------------------
(* A run.                                                                  *)

\* GraphService.start, from the browser: what the plan refuses starts nothing.
StartGraph(g) ==
    /\ graphPc[g] = "none"
    /\ GraphGoto(g, "waiting")
    /\ Publish(g, <<"run.started">>)
    /\ UNCHANGED <<gateVars, cursor, streamed>>

SlotsTaken == Cardinality({g \in GraphRuns : graphPc[g] \in {"running", "over"}})

AcquireSlot(g) ==
    /\ graphPc[g] = "waiting"
    /\ SlotsTaken < GraphSlots
    /\ GraphGoto(g, "running")
    /\ UNCHANGED <<gateVars, streamVars>>

\* No slot for 300 seconds: the run fails without its last event.
SlotTimesOut(g) ==
    /\ graphPc[g] = "waiting"
    /\ SlotsTaken = GraphSlots
    /\ GraphGoto(g, "timed out")
    /\ Publish(g, <<"run.failed">>)
    /\ UNCHANGED <<gateVars, cursor, streamed>>

\* The card that holds approval_lock.
LockHeld(g) == \E k \in CardsOf[g] : card[g][k] \in {"asking", "overdue"}

\* Faulty variant: the cards' requests are not serialised.
AskAtOnce(g, k) ==
    /\ graphPc[g] = "running"
    /\ card[g][k] = "working"
    /\ gate' = [gate EXCEPT ![g] = k]
    /\ CardGoto(g, k, "asking")
    /\ Publish(g, <<"gate.requested">>)
    /\ UNCHANGED <<graphPc, decided, answered, cursor, streamed>>

\* gate_provider up to the wait.
AskGate(g, k) ==
    /\ graphPc[g] = "running"
    /\ card[g][k] = "working"
    /\ ~LockHeld(g)
    /\ gate' = [gate EXCEPT ![g] = k]
    /\ CardGoto(g, k, "asking")
    /\ Publish(g, <<"gate.requested">>)
    /\ UNCHANGED <<graphPc, decided, answered, cursor, streamed>>

\* Faulty variant: the answer goes to whichever request the handle holds.
DecideOpenGate(g, k) ==
    /\ graphPc[g] # "none" /\ gate[g] # NoCard
    /\ decided[g][gate[g]] = "none"
    /\ \E answer \in {"approved", "refused"} :
          /\ decided' = [decided EXCEPT ![g][gate[g]] = answer]
          /\ answered' = [answered EXCEPT ![g][k] = answer]
    /\ UNCHANGED <<graphPc, gate, card, streamVars>>

\* resolve_gate: an answer counts only for the request the handle holds.
DecideGate(g, k) ==
    /\ gate[g] = k
    /\ decided[g][k] = "none"
    /\ \E answer \in {"approved", "refused"} :
          /\ decided' = [decided EXCEPT ![g][k] = answer]
          /\ answered' = [answered EXCEPT ![g][k] = answer]
    /\ UNCHANGED <<graphPc, gate, card, streamVars>>

\* Faulty variant: the wait has no end.
GateWaits(g, k) == FALSE

\* The wait ends undecided; an answer may still come before the gate is cleared.
GateTimesOut(g, k) ==
    /\ card[g][k] = "asking"
    /\ decided[g][k] = "none"
    /\ CardGoto(g, k, "overdue")
    /\ UNCHANGED <<graphPc, gate, decided, answered, streamVars>>

GateGivesUp(g, k) ==
    /\ card[g][k] = "overdue"
    /\ gate' = [gate EXCEPT ![g] = NoCard]
    /\ CardGoto(g, k, "refused")
    /\ Publish(g, <<"gate.timeout">>)
    /\ UNCHANGED <<graphPc, decided, answered, cursor, streamed>>

GateReturns(g, k) ==
    /\ card[g][k] = "asking"
    /\ decided[g][k] # "none"
    /\ gate' = [gate EXCEPT ![g] = NoCard]
    /\ CardGoto(g, k, decided[g][k])
    /\ Publish(g, <<"gate.resolved">>)
    /\ UNCHANGED <<graphPc, decided, answered, cursor, streamed>>

\* The executor returns its record, or raises, when no card runs any more.
GraphReturns(g) ==
    /\ graphPc[g] = "running"
    /\ \A k \in CardsOf[g] : card[g][k] \notin {"asking", "overdue"}
    /\ GraphGoto(g, "over")
    /\ \E last \in {"run.finished", "run.failed"} : Publish(g, <<last>>)
    /\ UNCHANGED <<gateVars, cursor, streamed>>

\* The finally clause.
CloseGraph(g) ==
    /\ graphPc[g] = "over"
    /\ GraphGoto(g, "closed")
    /\ Publish(g, <<"run.closed">>)
    /\ UNCHANGED <<gateVars, cursor, streamed>>

---------------------------------------------------------------------------
(* A browser that follows a run.                                           *)

\* Faulty variant: the stream ends with the run's outcome.
LastEvent(event) == event \in {"run.finished", "run.failed", "run.closed"}

IsLast(event) == event = "run.closed"

\* One turn of graph_events: every event after the cursor, up to the last.
ReadFeed(g) ==
    /\ g \notin streamed
    /\ cursor[g] < Len(feed[g])
    /\ LET new  == cursor[g] + 1
           ends == IsLast(feed[g][new]) IN
       /\ cursor' = [cursor EXCEPT ![g] = new]
       /\ streamed' = IF ends THEN streamed \union {g} ELSE streamed
    /\ UNCHANGED <<graphPc, gateVars, feed>>

\* The browser is reloaded: it follows the run again from the start.
ReloadBrowser(g) ==
    /\ cursor[g] > 0
    /\ g \notin streamed
    /\ cursor' = [cursor EXCEPT ![g] = 0]
    /\ UNCHANGED <<graphPc, gateVars, feed, streamed>>

---------------------------------------------------------------------------
GraphThread(g) ==
    \/ AcquireSlot(g) \/ SlotTimesOut(g) \/ GraphReturns(g) \/ CloseGraph(g)
    \/ \E k \in CardsOf[g] :
          AskGate(g, k) \/ GateTimesOut(g, k) \/ GateGivesUp(g, k) \/ GateReturns(g, k)

WebGraphsNext ==
    \/ \E g \in GraphRuns :
          \/ StartGraph(g) \/ GraphThread(g) \/ ReadFeed(g) \/ ReloadBrowser(g)
          \/ \E k \in CardsOf[g] : DecideGate(g, k)

\* A thread that can go on is not kept waiting for ever, and a wait ends.
WebGraphsFairness == WF_webGraphsVars(\E g \in GraphRuns : GraphThread(g))

WebGraphsSpec == WebGraphsInit /\ [][WebGraphsNext]_webGraphsVars /\ WebGraphsFairness

---------------------------------------------------------------------------
(* While a card waits for its answer the handle holds its request, so the  *)
(* browser can answer it: graphs.py says that serialising the prompts      *)
(* keeps a parallel card from replacing another pending one.               *)
PromptAnswerable ==
    \A g \in GraphRuns : \A k \in CardsOf[g] :
        card[g][k] = "asking" /\ decided[g][k] = "none" => gate[g] = k

(* A card goes on only with an approval that was given to that card, and   *)
(* what the user was told is refused never goes on.                        *)
GatesAsAnswered ==
    \A g \in GraphRuns : \A k \in CardsOf[g] :
        /\ card[g][k] = "approved" => answered[g][k] = "approved"
        /\ answered[g][k] = "refused" => card[g][k] # "approved"

(* A stream the server ended has delivered every event of its run, however *)
(* often the browser was reloaded: nothing is published after the last one.*)
StreamComplete == \A g \in streamed : cursor[g] = Len(feed[g])

(* A gate that asks can be answered and goes by its answer, and a browser  *)
(* is shown every event of the run.                                        *)
GatesServed == PromptAnswerable /\ GatesAsAnswered /\ StreamComplete

(* A graph that is waiting or running gives its slot back, although no     *)
(* browser may answer its gates: an unanswered request cannot pin a worker.*)
SlotsReturned ==
    \A g \in GraphRuns :
        graphPc[g] = "waiting" ~> graphPc[g] \in {"closed", "timed out"}
=============================================================================
