------------------------------ MODULE WebProofs ------------------------------
(***************************************************************************)
(* Theorems about the web interface: for any runs, cards, schedules,       *)
(* sign-ins, conversations and bounds, whatever the browsers, the threads  *)
(* and the restarts do.                                                    *)
(***************************************************************************)
EXTENDS WebRuns, WebGraphs, WebSchedules, WebAccess,
        SequenceTheorems, FiniteSetTheorems, TLAPS

-----------------------------------------------------------------------------
(* WebGraphs: gates and streams. *)

GraphLabels == {"none", "waiting", "running", "over", "closed", "timed out"}
CardLabels  == {"working", "asking", "overdue", "approved", "refused"}
Answers     == {"none", "approved", "refused"}
FeedEvents  == {"run.started", "run.finished", "run.failed", "run.closed",
                "gate.requested", "gate.timeout", "gate.resolved"}

GatesType ==
    /\ graphPc \in [GraphRuns -> GraphLabels]
    /\ DOMAIN gate = GraphRuns
    /\ DOMAIN card = GraphRuns /\ \A g \in GraphRuns : card[g] \in [CardsOf[g] -> CardLabels]
    /\ DOMAIN decided = GraphRuns
    /\ \A g \in GraphRuns : decided[g] \in [CardsOf[g] -> Answers]
    /\ feed \in [GraphRuns -> Seq(FeedEvents)]
    /\ cursor \in [GraphRuns -> Nat]
    /\ streamed \subseteq GraphRuns

\* A card that waits has its request in the handle, and its run is running.
AskedInv ==
    \A g \in GraphRuns : \A k \in CardsOf[g] :
        card[g][k] \in {"asking", "overdue"} => gate[g] = k /\ graphPc[g] = "running"

\* What the browser was told is what the request holds, and a card that goes on was
\* approved.
AnsweredInv ==
    /\ answered = decided
    /\ \A g \in GraphRuns : \A k \in CardsOf[g] :
          card[g][k] = "approved" => decided[g][k] = "approved"

\* The last event of a run is published when it is closed, and nothing after it.
FeedInv ==
    /\ \A g \in GraphRuns : \A i \in 1..Len(feed[g]) :
          feed[g][i] = "run.closed" => graphPc[g] = "closed" /\ i = Len(feed[g])
    /\ \A g \in streamed : graphPc[g] = "closed" /\ cursor[g] = Len(feed[g])

GatesInv == GatesType /\ AskedInv /\ AnsweredInv /\ FeedInv

LEMMA PublishEffect ==
    ASSUME NEW s \in Seq(FeedEvents), NEW e \in FeedEvents
    PROVE  /\ s \o <<e>> \in Seq(FeedEvents) /\ Len(s \o <<e>>) = Len(s) + 1
           /\ \A i \in 1..Len(s) : (s \o <<e>>)[i] = s[i]
           /\ (s \o <<e>>)[Len(s) + 1] = e
<1> DEFINE t == <<e>>
<1>1. t \in Seq(FeedEvents) /\ Len(t) = 1 /\ t[1] = e
  OBVIOUS
<1> HIDE DEF t
<1>2. s \o t \in Seq(FeedEvents) /\ Len(s \o t) = Len(s) + 1 /\ Len(s) \in Nat
      /\ \A i \in 1..Len(s) + 1 : (s \o t)[i] = IF i <= Len(s) THEN s[i] ELSE t[i - Len(s)]
  <2>1. /\ s \o t \in Seq(FeedEvents) /\ Len(s \o t) = Len(s) + Len(t)
        /\ \A i \in 1..Len(s) + Len(t) :
              (s \o t)[i] = IF i <= Len(s) THEN s[i] ELSE t[i - Len(s)]
    BY <1>1, ConcatProperties
  <2>2. Len(s) \in Nat
    BY LenProperties
  <2> QED
    BY <1>1, <2>1, <2>2
<1>3. Len(s) + 1 - Len(s) = 1 /\ ~(Len(s) + 1 <= Len(s)) /\ Len(s) + 1 \in 1..Len(s) + 1
  BY <1>2
<1>4. (s \o t)[Len(s) + 1] = e
  BY <1>1, <1>2, <1>3
<1> QED
  BY <1>2, <1>4 DEF t

LEMMA GatesTypeStep == GatesInv /\ WebGraphsNext => GatesType'
<1> SUFFICES ASSUME GatesInv, WebGraphsNext PROVE GatesType'
  OBVIOUS
<1> USE DEF GraphGoto, CardGoto, gateVars, streamVars
<1>t. GatesType
  BY DEF GatesInv
<1>p. ASSUME NEW g \in GraphRuns, NEW e \in FeedEvents, Publish(g, <<e>>)
      PROVE  feed' \in [GraphRuns -> Seq(FeedEvents)]
  BY <1>p, <1>t, PublishEffect DEF Publish, GatesType
<1>c. ASSUME NEW g \in GraphRuns, NEW k \in CardsOf[g], NEW label \in CardLabels,
             card' = [card EXCEPT ![g][k] = label]
      PROVE  DOMAIN card' = GraphRuns
             /\ \A h \in GraphRuns : card'[h] \in [CardsOf[h] -> CardLabels]
  BY <1>c, <1>t DEF GatesType
<1>e. {"run.started", "run.failed", "run.finished", "run.closed", "gate.requested",
       "gate.timeout", "gate.resolved"} \subseteq FeedEvents
      /\ {"asking", "overdue", "approved", "refused"} \subseteq CardLabels
      /\ {"waiting", "running", "over", "closed", "timed out"} \subseteq GraphLabels
  BY DEF FeedEvents, CardLabels, GraphLabels
<1>1. ASSUME NEW g \in GraphRuns, StartGraph(g) \/ SlotTimesOut(g) \/ CloseGraph(g)
      PROVE  GatesType'
  <2>1. feed' \in [GraphRuns -> Seq(FeedEvents)]
    BY <1>1, <1>p, <1>e DEF StartGraph, SlotTimesOut, CloseGraph
  <2> QED
    <3>1. /\ UNCHANGED <<gateVars, cursor, streamed>>
          /\ \E l \in {"waiting", "timed out", "closed"} : graphPc' = [graphPc EXCEPT ![g] = l]
      BY <1>1 DEF StartGraph, SlotTimesOut, CloseGraph
    <3>2. graphPc' \in [GraphRuns -> GraphLabels]
      <4>1. \E l \in GraphLabels : graphPc' = [graphPc EXCEPT ![g] = l]
        BY <1>e, <3>1
      <4> QED
        BY <1>t, <4>1 DEF GatesType
    <3> QED
      BY <1>t, <2>1, <3>1, <3>2 DEF GatesType
<1>2. ASSUME NEW g \in GraphRuns, AcquireSlot(g) PROVE GatesType'
  BY <1>2, <1>t, <1>e DEF AcquireSlot, GatesType
<1>3. ASSUME NEW g \in GraphRuns, GraphReturns(g) PROVE GatesType'
  <2>1. feed' \in [GraphRuns -> Seq(FeedEvents)]
    BY <1>3, <1>p, <1>e DEF GraphReturns
  <2> QED
    BY <1>3, <1>t, <1>e, <2>1 DEF GraphReturns, GatesType
<1>4. ASSUME NEW g \in GraphRuns, NEW k \in CardsOf[g],
             AskGate(g, k) \/ GateGivesUp(g, k) \/ GateReturns(g, k)
      PROVE  GatesType'
  <2>1. feed' \in [GraphRuns -> Seq(FeedEvents)]
    BY <1>4, <1>p, <1>e DEF AskGate, GateGivesUp, GateReturns
  <2>2. decided[g][k] \in Answers /\ (decided[g][k] # "none" => decided[g][k] \in CardLabels)
    BY <1>t DEF GatesType, Answers, CardLabels
  <2>3. \E label \in CardLabels : card' = [card EXCEPT ![g][k] = label]
    BY <1>4, <1>e, <2>2 DEF AskGate, GateGivesUp, GateReturns
  <2>4. DOMAIN card' = GraphRuns /\ \A h \in GraphRuns : card'[h] \in [CardsOf[h] -> CardLabels]
    BY <1>c, <2>3
  <2>5. DOMAIN gate' = GraphRuns /\ UNCHANGED <<graphPc, decided, cursor, streamed>>
    BY <1>4, <1>t DEF AskGate, GateGivesUp, GateReturns, GatesType
  <2> QED
    BY <1>t, <2>1, <2>4, <2>5 DEF GatesType
<1>5. ASSUME NEW g \in GraphRuns, NEW k \in CardsOf[g], GateTimesOut(g, k) PROVE GatesType'
  <2>1. DOMAIN card' = GraphRuns /\ \A h \in GraphRuns : card'[h] \in [CardsOf[h] -> CardLabels]
    BY <1>5, <1>c, <1>e DEF GateTimesOut
  <2> QED
    BY <1>5, <1>t, <2>1 DEF GateTimesOut, GatesType
<1>6. ASSUME NEW g \in GraphRuns, NEW k \in CardsOf[g], DecideGate(g, k) PROVE GatesType'
  <2>1. PICK answer \in {"approved", "refused"} :
           decided' = [decided EXCEPT ![g][k] = answer]
    BY <1>6 DEF DecideGate
  <2>2. DOMAIN decided' = GraphRuns
        /\ \A h \in GraphRuns : decided'[h] \in [CardsOf[h] -> Answers]
    BY <1>t, <2>1 DEF GatesType, Answers
  <2> QED
    BY <1>6, <1>t, <2>2 DEF DecideGate, GatesType
<1>7. ASSUME NEW g \in GraphRuns, ReadFeed(g) \/ ReloadBrowser(g) PROVE GatesType'
  <2>1. cursor' \in [GraphRuns -> Nat] /\ streamed' \subseteq GraphRuns
    BY <1>7, <1>t DEF ReadFeed, ReloadBrowser, GatesType
  <2> QED
    BY <1>7, <1>t, <2>1 DEF ReadFeed, ReloadBrowser, GatesType
<1> QED
  BY <1>1, <1>2, <1>3, <1>4, <1>5, <1>6, <1>7 DEF WebGraphsNext, GraphThread

LEMMA CardEffect ==
    ASSUME GatesType, NEW g \in GraphRuns, NEW k \in CardsOf[g], NEW label, CardGoto(g, k, label)
    PROVE  \A h \in GraphRuns : \A j \in CardsOf[h] :
               card'[h][j] = IF h = g /\ j = k THEN label ELSE card[h][j]
  BY DEF GatesType, CardGoto

LEMMA AskedStep == GatesInv /\ WebGraphsNext => AskedInv'
<1> SUFFICES ASSUME GatesInv, WebGraphsNext,
                    NEW h \in GraphRuns, NEW j \in CardsOf[h],
                    card'[h][j] \in {"asking", "overdue"}
             PROVE  gate'[h] = j /\ graphPc'[h] = "running"
  BY DEF AskedInv
<1> USE DEF GraphGoto, gateVars, streamVars
<1>t. GatesType /\ AskedInv
  BY DEF GatesInv
<1>1. ASSUME NEW g \in GraphRuns, NEW k \in CardsOf[g], AskGate(g, k)
      PROVE  gate'[h] = j /\ graphPc'[h] = "running"
  BY <1>1, <1>t, CardEffect DEF AskGate, GatesType, AskedInv, LockHeld
<1>2. ASSUME NEW g \in GraphRuns, NEW k \in CardsOf[g],
             GateTimesOut(g, k) \/ GateGivesUp(g, k) \/ GateReturns(g, k)
      PROVE  gate'[h] = j /\ graphPc'[h] = "running"
  <2>1. decided[g][k] \notin {"asking", "overdue"}
    BY <1>t DEF GatesType, Answers
  <2>2. CASE GateTimesOut(g, k)
    BY <1>t, <2>2, CardEffect DEF GateTimesOut, AskedInv
  <2>3. CASE GateGivesUp(g, k)
    <3>1. ~(h = g /\ j = k)
      BY <1>t, <2>3, CardEffect DEF GateGivesUp
    <3>2. card[h][j] \in {"asking", "overdue"}
      BY <1>t, <2>3, <3>1, CardEffect DEF GateGivesUp
    <3> QED
      BY <1>t, <2>3, <3>1, <3>2 DEF GateGivesUp, AskedInv, GatesType
  <2>4. CASE GateReturns(g, k)
    <3>1. ~(h = g /\ j = k)
      BY <1>t, <2>1, <2>4, CardEffect DEF GateReturns
    <3>2. card[h][j] \in {"asking", "overdue"}
      BY <1>t, <2>4, <3>1, CardEffect DEF GateReturns
    <3> QED
      BY <1>t, <2>4, <3>1, <3>2 DEF GateReturns, AskedInv, GatesType
  <2> QED
    BY <1>2, <2>2, <2>3, <2>4
<1>3. ASSUME NEW g \in GraphRuns,
             \/ StartGraph(g) \/ AcquireSlot(g) \/ SlotTimesOut(g) \/ GraphReturns(g)
             \/ CloseGraph(g)
      PROVE  gate'[h] = j /\ graphPc'[h] = "running"
  <2>1. /\ UNCHANGED <<gate, card>>
        /\ \E l \in GraphLabels : graphPc' = [graphPc EXCEPT ![g] = l]
    BY <1>3 DEF StartGraph, AcquireSlot, SlotTimesOut, GraphReturns, CloseGraph, GraphLabels
  <2>2. gate[h] = j /\ graphPc[h] = "running"
    BY <1>t, <2>1 DEF AskedInv
  <2>3. g # h
    <3>1. CASE graphPc[g] # "running"
      BY <2>2, <3>1
    <3>2. CASE GraphReturns(g)
      BY <2>1, <3>2 DEF GraphReturns
    <3> QED
      BY <1>3, <3>1, <3>2 DEF StartGraph, AcquireSlot, SlotTimesOut, CloseGraph
  <2> QED
    BY <1>t, <2>1, <2>2, <2>3 DEF GatesType
<1>4. ASSUME NEW g \in GraphRuns, ReadFeed(g) \/ ReloadBrowser(g)
      PROVE  gate'[h] = j /\ graphPc'[h] = "running"
  BY <1>4, <1>t DEF ReadFeed, ReloadBrowser, AskedInv
<1>5. ASSUME NEW g \in GraphRuns, NEW k \in CardsOf[g], DecideGate(g, k)
      PROVE  gate'[h] = j /\ graphPc'[h] = "running"
  BY <1>5, <1>t DEF DecideGate, AskedInv
<1> QED
  BY <1>1, <1>2, <1>3, <1>4, <1>5 DEF WebGraphsNext, GraphThread

LEMMA AnsweredStep == GatesInv /\ WebGraphsNext => AnsweredInv'
<1> SUFFICES ASSUME GatesInv, WebGraphsNext PROVE AnsweredInv'
  OBVIOUS
<1> USE DEF GraphGoto, gateVars, streamVars
<1>t. GatesType /\ AnsweredInv
  BY DEF GatesInv
<1>1. ASSUME NEW g \in GraphRuns, NEW k \in CardsOf[g],
             AskGate(g, k) \/ GateTimesOut(g, k) \/ GateGivesUp(g, k) \/ GateReturns(g, k)
      PROVE  AnsweredInv'
  <2>1. /\ UNCHANGED <<decided, answered>>
        /\ \A h \in GraphRuns : \A j \in CardsOf[h] :
              card'[h][j] = "approved" => card[h][j] = "approved" \/ decided[h][j] = "approved"
    BY <1>1, <1>t, CardEffect DEF AskGate, GateTimesOut, GateGivesUp, GateReturns
  <2> QED
    BY <1>t, <2>1 DEF AnsweredInv
<1>2. ASSUME NEW g \in GraphRuns, NEW k \in CardsOf[g], DecideGate(g, k) PROVE AnsweredInv'
  <2>1. PICK answer \in {"approved", "refused"} :
           /\ decided[g][k] = "none"
           /\ decided' = [decided EXCEPT ![g][k] = answer]
           /\ answered' = [answered EXCEPT ![g][k] = answer] /\ card' = card
    BY <1>2 DEF DecideGate
  <2> QED
    BY <1>t, <2>1 DEF GatesType, AnsweredInv
<1>3. CASE UNCHANGED gateVars
  BY <1>t, <1>3 DEF AnsweredInv
<1> QED
  BY <1>1, <1>2, <1>3 DEF WebGraphsNext, GraphThread, StartGraph, AcquireSlot, SlotTimesOut,
     GraphReturns, CloseGraph, ReadFeed, ReloadBrowser

LEMMA FeedStep == GatesInv /\ WebGraphsNext => FeedInv'
<1> SUFFICES ASSUME GatesInv, WebGraphsNext PROVE FeedInv'
  OBVIOUS
<1> USE DEF GraphGoto, gateVars, streamVars
<1>t. GatesType /\ FeedInv /\ AskedInv
  BY DEF GatesInv
<1>e. {"run.started", "run.failed", "run.finished", "run.closed", "gate.requested",
       "gate.timeout", "gate.resolved"} \subseteq FeedEvents
  BY DEF FeedEvents
\* A run that is not closed publishes an event.
<1>p. ASSUME NEW g \in GraphRuns, NEW e \in FeedEvents, Publish(g, <<e>>),
             graphPc[g] # "closed", e = "run.closed" => graphPc'[g] = "closed",
             \A h \in GraphRuns \ {g} : graphPc'[h] = graphPc[h],
             UNCHANGED <<cursor, streamed>>
      PROVE  FeedInv'
  <2> DEFINE n == Len(feed[g])
  <2>1. /\ feed[g] \in Seq(FeedEvents) /\ n \in Nat
        /\ \A h \in GraphRuns \ {g} : feed'[h] = feed[h]
        /\ feed'[g] = feed[g] \o <<e>>
    BY <1>p, <1>t, LenProperties DEF Publish, GatesType
  <2>2. /\ Len(feed'[g]) = n + 1 /\ feed'[g][n + 1] = e
        /\ \A i \in 1..n : feed'[g][i] = feed[g][i]
    BY <2>1, PublishEffect
  <2>3. g \notin streamed /\ \A i \in 1..n : feed[g][i] # "run.closed"
    BY <1>p, <1>t DEF FeedInv
  <2> HIDE DEF n
  <2>4. ASSUME NEW i \in 1..n + 1, feed'[g][i] = "run.closed"
        PROVE  graphPc'[g] = "closed" /\ i = n + 1
    BY <1>p, <2>1, <2>2, <2>3, <2>4
  <2>5. \A h \in streamed : graphPc'[h] = "closed" /\ cursor[h] = Len(feed'[h])
    BY <1>p, <1>t, <2>1, <2>3 DEF FeedInv, GatesType
  <2>6. \A h \in GraphRuns \ {g} : \A i \in 1..Len(feed'[h]) :
           feed'[h][i] = "run.closed" => graphPc'[h] = "closed" /\ i = Len(feed'[h])
    BY <1>p, <1>t, <2>1 DEF FeedInv
  <2> QED
    BY <1>p, <2>2, <2>4, <2>5, <2>6 DEF FeedInv
<1>1. ASSUME NEW g \in GraphRuns, StartGraph(g) \/ SlotTimesOut(g) \/ CloseGraph(g)
      PROVE  FeedInv'
  <2>1. /\ graphPc[g] # "closed" /\ \A h \in GraphRuns \ {g} : graphPc'[h] = graphPc[h]
        /\ UNCHANGED <<cursor, streamed>>
        /\ \E e \in FeedEvents :
              Publish(g, <<e>>) /\ (e = "run.closed" => graphPc'[g] = "closed")
    BY <1>1, <1>t, <1>e DEF StartGraph, SlotTimesOut, CloseGraph, GatesType
  <2> QED
    BY <1>p, <2>1
<1>2. ASSUME NEW g \in GraphRuns, GraphReturns(g) PROVE FeedInv'
  <2>1. /\ graphPc[g] # "closed" /\ \A h \in GraphRuns \ {g} : graphPc'[h] = graphPc[h]
        /\ UNCHANGED <<cursor, streamed>>
        /\ \E e \in FeedEvents : Publish(g, <<e>>) /\ e # "run.closed"
    BY <1>2, <1>t, <1>e DEF GraphReturns, GatesType
  <2> QED
    BY <1>p, <2>1
<1>3. ASSUME NEW g \in GraphRuns, NEW k \in CardsOf[g],
             AskGate(g, k) \/ GateGivesUp(g, k) \/ GateReturns(g, k)
      PROVE  FeedInv'
  <2>1. graphPc[g] # "closed" /\ UNCHANGED <<graphPc, cursor, streamed>>
    BY <1>3, <1>t DEF AskGate, GateGivesUp, GateReturns, AskedInv
  <2>2. \E e \in FeedEvents : Publish(g, <<e>>) /\ e # "run.closed"
    BY <1>3, <1>e DEF AskGate, GateGivesUp, GateReturns
  <2> QED
    BY <1>p, <2>1, <2>2
<1>4. ASSUME NEW g \in GraphRuns, AcquireSlot(g) PROVE FeedInv'
  BY <1>4, <1>t DEF AcquireSlot, GatesType, FeedInv
<1>5. ASSUME NEW g \in GraphRuns, ReadFeed(g) PROVE FeedInv'
  <2> DEFINE new == cursor[g] + 1
  <2>1. /\ g \notin streamed /\ cursor[g] < Len(feed[g]) /\ cursor[g] \in Nat
        /\ cursor' = [cursor EXCEPT ![g] = new] /\ UNCHANGED <<graphPc, feed>>
        /\ streamed' = IF feed[g][new] = "run.closed" THEN streamed \union {g} ELSE streamed
    BY <1>5, <1>t DEF ReadFeed, GatesType, IsLast
  <2>2. feed[g][new] = "run.closed" => graphPc[g] = "closed" /\ new = Len(feed[g])
    <3>1. Len(feed[g]) \in Nat
      BY <1>t, LenProperties DEF GatesType
    <3>2. new \in 1..Len(feed[g])
      BY <2>1, <3>1
    <3> QED
      BY <1>t, <3>2 DEF FeedInv
  <2> HIDE DEF new
  <2> QED
    BY <1>t, <2>1, <2>2 DEF FeedInv, GatesType
<1>6. ASSUME NEW g \in GraphRuns, ReloadBrowser(g) PROVE FeedInv'
  BY <1>6, <1>t DEF ReloadBrowser, FeedInv, GatesType
<1>7. ASSUME NEW g \in GraphRuns, NEW k \in CardsOf[g], GateTimesOut(g, k) \/ DecideGate(g, k)
      PROVE  FeedInv'
  BY <1>7, <1>t DEF GateTimesOut, DecideGate, FeedInv
<1> QED
  BY <1>1, <1>2, <1>3, <1>4, <1>5, <1>6, <1>7 DEF WebGraphsNext, GraphThread

LEMMA GatesInvHolds == WebGraphsSpec => []GatesInv
<1>1. WebGraphsInit => GatesInv
  BY DEF WebGraphsInit, GatesInv, GatesType, GraphLabels, CardLabels, Answers, AskedInv,
     AnsweredInv, FeedInv
<1>2. GatesInv /\ [WebGraphsNext]_webGraphsVars => GatesInv'
  <2>1. GatesInv /\ WebGraphsNext => GatesInv'
    BY GatesTypeStep, AskedStep, AnsweredStep, FeedStep DEF GatesInv
  <2>2. GatesInv /\ UNCHANGED webGraphsVars => GatesInv'
    BY DEF webGraphsVars, gateVars, streamVars, GatesInv, GatesType, AskedInv, AnsweredInv,
       FeedInv
  <2> QED
    BY <2>1, <2>2
<1> QED
  BY <1>1, <1>2, PTL DEF WebGraphsSpec

\* For any graph runs, cards and slots: a card that waits can be answered, a card goes on
\* only if it was told to, and a stream the server ended has shown every event.
THEOREM GatesServedHolds == WebGraphsSpec => []GatesServed
<1>1. GatesInv => GatesServed
  BY DEF GatesInv, GatesType, AskedInv, AnsweredInv, FeedInv, GatesServed, PromptAnswerable,
     GatesAsAnswered, StreamComplete
<1> QED
  BY <1>1, GatesInvHolds, PTL
-----------------------------------------------------------------------------
(* WebRuns: the transcripts and the approvals of the chat. *)

SpokenLabels == {"silent", "speaking", "asking", "cancelling", "overdue", "answered",
                 "worked", "done", "named", "kept", "unkept", "raised", "cancelled"}

\* A speaker inside execute_speaker.
Busy == {"speaking", "asking", "cancelling", "overdue", "answered", "worked"}

Chats == Conversations \union {CHOOSE c \in Conversations : TRUE}

Lines == [run  : Runs, role : {"user", "tool", "assistant", "event"},
          by   : Speakers \union {"user", "loro"}]

ChatType ==
    /\ WebRunsTypeOK
    /\ sent \in 0..MaxRuns
    /\ chatOf \in [Runs -> Chats]
    /\ \A r \in 1..sent : chatOf[r] \in Conversations
    /\ messages \in [Conversations -> Seq(Lines)]
    /\ spoken \in [Runs -> [Speakers -> SpokenLabels]]

\* A run that may still write to its conversation.
Writing(r) == runPc[r] \in {"queued", "running", "failed", "cancelled", "closing"}

\* The conversation of a run that writes is taken, by this run alone.
OneWriter ==
    \A r \in Runs : Writing(r) =>
        /\ r <= sent /\ chatOf[r] \in active
        /\ \A q \in Runs : Writing(q) /\ chatOf[q] = chatOf[r] => q = r

\* A run not sent yet has neither row nor thread, a run that executes has a running row.
RowsInv ==
    \A r \in Runs :
        /\ rows[r] # "none" \/ runPc[r] # "none" => r <= sent
        /\ runPc[r] \in {"queued", "running", "cancelled"} => rows[r] = "running"
        /\ runPc[r] = "failed" => rows[r] \in {"running", "completed"}

\* Who speaks, does so in the turn of a run that is running.
SpokenInv ==
    \A r \in Runs : \A s \in Speakers :
        /\ spoken[r][s] # "silent" =>
               s \in Range(RunOrder(r)) /\ runPc[r] \notin {"none", "queued"}
        /\ spoken[r][s] \in Busy => runPc[r] = "running"

\* The requests of the approval store and what the runs made of them.
AskInv ==
    /\ \A r \in Runs : \A s \in Speakers :
          spoken[r][s] \in {"asking", "cancelling", "overdue"} => ask[<<r, s>>] # "none"
    /\ \A q \in Asks : acted[q] # "none" => ask[q] \notin {"none", "pending"}
    /\ DecisionHonoured

\* A transcript holds turns already sent, whole, and ends with the turn being written.
TurnsInv ==
    /\ \A c \in Conversations : \A i \in DOMAIN messages[c] : messages[c][i].run <= sent
    /\ \A r \in Runs : Writing(r) =>
          LET said == messages[chatOf[r]] IN
          Len(said) > 0 /\ said[Len(said)].run = r
    /\ TurnsSeparate

\* The replies of a turn are those its speakers have kept, and perhaps one whose keeping
\* broke afterwards; of a parallel turn none is kept before all have answered.
RunReplies(r) ==
    /\ runPc[r] \in {"queued", "running"} =>
          \A s \in Speakers : /\ spoken[r][s] = "kept" => s \in Heard(r)
                              /\ s \in Heard(r) => spoken[r][s] \in {"kept", "unkept"}
    /\ rows[r] = "completed" => Range(RunOrder(r)) \subseteq Heard(r)
    /\ mode[chatOf[r]] = "parallel" =>
          /\ rows[r] = "cancelled" \/ runPc[r] = "cancelled" => Heard(r) = {}
          /\ /\ runPc[r] = "running"
             /\ (\E s \in Range(RunOrder(r)) : spoken[r][s] \in {"kept", "unkept"})
             => \A s \in Range(RunOrder(r)) : spoken[r][s] \in {"done", "kept", "unkept"}

\* They are the first of its order.
RepliesInv ==
    /\ \A r \in 1..sent : FirstHeard(r)
    /\ \A r \in Runs : RunReplies(r)

ChatInv == ChatType /\ OneWriter /\ RowsInv /\ SpokenInv /\ AskInv /\ TurnsInv /\ RepliesInv

LEMMA OrderSeq == \A m : Order(m) \in Seq(Speakers)
<1>1. Roster \in Seq(Speakers) /\ Coordinator \in Speakers /\ "self" \in Speakers
  <2>1. Roster \in Seq(Range(Roster)) /\ Range(Roster) \subseteq Speakers
    BY WebRunsAssumption DEF Speakers
  <2> QED
    BY <2>1, WebRunsAssumption DEF Speakers
<1>2. ASSUME NEW place \in DOMAIN Roster
      PROVE  Append(RemoveAt(Roster, place), Coordinator) \in Seq(Speakers)
  <2>1. place \in Nat /\ Len(Roster) \in Nat /\ place \in 1..Len(Roster)
    BY <1>1, LenProperties
  <2>2. /\ SubSeq(Roster, 1, place - 1) \in Seq(Speakers)
        /\ SubSeq(Roster, place + 1, Len(Roster)) \in Seq(Speakers)
    <3>1. \A i \in 1..place - 1 : Roster[i] \in Speakers
      BY <1>1, <2>1, ElementOfSeq
    <3>2. \A i \in place + 1..Len(Roster) : Roster[i] \in Speakers
      BY <1>1, <2>1, ElementOfSeq
    <3> QED
      BY <1>1, <2>1, <3>1, <3>2, SubSeqProperties
  <2> QED
    BY <1>1, <2>2, ConcatProperties, AppendProperties DEF RemoveAt
<1>3. \E i \in DOMAIN Roster : Roster[i] = Coordinator
  BY WebRunsAssumption DEF Range
<1>4. <<"self">> \in Seq(Speakers)
  BY <1>1
<1> QED
  BY <1>1, <1>2, <1>3, <1>4 DEF Order

LEMMA AppendLine ==
    ASSUME NEW s \in Seq(Lines), NEW m \in Lines
    PROVE  /\ Append(s, m) \in Seq(Lines) /\ Len(s) \in Nat
           /\ DOMAIN s = 1..Len(s) /\ DOMAIN Append(s, m) = 1..Len(s) + 1
           /\ Len(Append(s, m)) = Len(s) + 1 /\ Append(s, m)[Len(s) + 1] = m
           /\ \A i \in 1..Len(s) : Append(s, m)[i] = s[i]
  BY AppendProperties, LenProperties

\* What a step adds to a transcript: nothing, or one line at its end.
Added(c, m) == messages'[c] = Append(messages[c], m)

LEMMA QuietReplies ==
    ASSUME NEW r \in Runs, chatOf[r] \in Conversations,
           messages \in [Conversations -> Seq(Lines)],
           mode' = mode, chatOf'[r] = chatOf[r],
           \/ messages'[chatOf[r]] = messages[chatOf[r]]
           \/ \E m \in Lines : (m.run # r \/ m.role # "assistant") /\ Added(chatOf[r], m)
    PROVE  /\ RunOrder(r)' = RunOrder(r) /\ Heard(r)' = Heard(r)
           /\ FirstHeard(r)' <=> FirstHeard(r)
<1> DEFINE c == chatOf[r]
<1>1. RunOrder(r)' = RunOrder(r)
  BY DEF RunOrder
<1>2. /\ Replies(r)' = Replies(r)
      /\ \A i \in Replies(r) : messages'[c][i] = messages[c][i]
  <2>1. CASE messages'[c] = messages[c]
    BY <2>1 DEF Replies
  <2>2. ASSUME NEW m \in Lines, m.run # r \/ m.role # "assistant", Added(c, m)
        PROVE  /\ Replies(r)' = Replies(r)
               /\ \A i \in Replies(r) : messages'[c][i] = messages[c][i]
    <3> DEFINE n == Len(messages[c])
    <3>1. /\ n \in Nat /\ DOMAIN messages[c] = 1..n /\ DOMAIN messages'[c] = 1..n + 1
          /\ messages'[c][n + 1] = m
          /\ \A i \in 1..n : messages'[c][i] = messages[c][i]
      BY <2>2, AppendLine DEF Added
    <3> HIDE DEF n
    <3>2. \A i \in 1..n + 1 : i \in 1..n \/ i = n + 1
      BY <3>1
    <3>3. 1..n \subseteq 1..n + 1
      BY <3>1
    <3> QED
      BY <2>2, <3>1, <3>2, <3>3 DEF Replies
  <2> QED
    BY <2>1, <2>2
<1>3. Heard(r)' = Heard(r)
  BY <1>2 DEF Heard
<1> QED
  BY <1>1, <1>2, <1>3 DEF FirstHeard

LEMMA AskPair == \A r \in Runs, s \in Speakers : <<r, s>> \in Asks
  BY DEF Asks

LEMMA LinesOf ==
    ASSUME NEW r \in Runs, NEW s \in Speakers
    PROVE  /\ Message(r, "user", "user") \in Lines /\ Message(r, "tool", s) \in Lines
           /\ Message(r, "assistant", s) \in Lines /\ Message(r, "event", "loro") \in Lines
  BY DEF Message, Lines

\* What a speaker does, and what is done to its request.
SpeakerMoves(r, s) ==
    \/ BeginSpeaker(r, s) \/ SpeakerStops(r, s) \/ StopWaiting(r, s) \/ WithdrawAsk(r, s)
    \/ AnswerAsk(r, s) \/ AskInterface(r, s) \/ DecideAsk(r, s) \/ SpeakerRaises(r, s)
    \/ ToolSpeaks(r, s) \/ NameSession(r, s) \/ KeepReply(r, s) \/ KeepBreaks(r, s)

\* The steps that add a reply to the transcript.
AddsReply(r, s) ==
    \/ KeepReply(r, s)
    \/ KeepBreaks(r, s) /\ Keep(chatOf[r], Message(r, "assistant", s))

LEMMA SpeakerLeaves ==
    ASSUME NEW r \in Runs, NEW s \in Speakers, SpeakerMoves(r, s)
    PROVE  UNCHANGED <<sent, chatOf, mode, runPc, rows, active>>
  BY DEF SpeakerMoves, BeginSpeaker, SpeakerStops, StopWaiting, WithdrawAsk, AnswerAsk,
     AskInterface, DecideAsk, SpeakerRaises, ToolSpeaks, NameSession, KeepReply, KeepBreaks,
     chatStore, chatThreads, chatAsks, chatBounds

LEMMA ChatTypeStep == ChatType /\ WebRunsNext => ChatType'
<1> SUFFICES ASSUME ChatType, WebRunsNext PROVE ChatType'
  OBVIOUS
<1> USE DEF chatStore, chatThreads, chatAsks, chatBounds
<1>a. MaxRuns \in Nat
  BY WebRunsAssumption
<1>k. ASSUME NEW c \in Conversations, NEW m \in Lines, Keep(c, m)
      PROVE  messages' \in [Conversations -> Seq(Lines)]
  BY <1>k, AppendLine DEF Keep, ChatType
<1>g. ASSUME NEW r \in Runs, NEW l, RunGoto(r, l),
             l \in {"queued", "running", "failed", "cancelled", "closing", "closed", "ended"}
      PROVE  runPc' \in [Runs -> {"none", "queued", "running", "failed", "cancelled",
                                  "closing", "closed", "ended", "lost"}]
  BY <1>g DEF RunGoto, ChatType, WebRunsTypeOK
<1>s. ASSUME NEW r \in Runs, NEW s \in Speakers, NEW l \in SpokenLabels, Says(r, s, l)
      PROVE  spoken' \in [Runs -> [Speakers -> SpokenLabels]]
  BY <1>s DEF Says, ChatType
<1>f. ASSUME NEW rs, ForgetLocals(rs)
      PROVE  spoken' \in [Runs -> [Speakers -> SpokenLabels]]
  BY <1>f DEF ForgetLocals, ChatType, SpokenLabels
<1>1. ASSUME NEW c \in Conversations, StartChatRun(c) \/ StartBreaks(c) PROVE ChatType'
  <2> DEFINE r == sent + 1
  <2>1. r \in Runs /\ r \in 0..MaxRuns /\ sent' = r /\ (\A q \in 1..r : q \in 1..sent \/ q = r)
        /\ 1..r \subseteq Runs
    BY <1>1, <1>a DEF StartChatRun, StartBreaks, ChatType, Runs
  <2>2. messages' \in [Conversations -> Seq(Lines)]
    <3>1. Keep(c, Message(r, "user", "user")) \/ UNCHANGED messages
      BY <1>1 DEF StartChatRun, StartBreaks
    <3>2. Message(r, "user", "user") \in Lines
      BY <2>1 DEF Lines, Message
    <3> HIDE DEF r
    <3> QED
      BY <1>k, <3>1, <3>2 DEF ChatType
  <2>3. handled' \in [Runs -> {"none", "live", "finished"}]
    BY <1>1, <2>1 DEF StartChatRun, StartBreaks, EvictRuns, ChatType, WebRunsTypeOK
  <2>4. chatOf' = [chatOf EXCEPT ![r] = c] /\ Conversations \subseteq Chats
    BY <1>1 DEF StartChatRun, StartBreaks, Chats
  <2>5. runPc' \in [Runs -> {"none", "queued", "running", "failed", "cancelled",
                             "closing", "closed", "ended", "lost"}]
    BY <1>1, <1>g, <2>1 DEF StartChatRun, StartBreaks, ChatType, WebRunsTypeOK
  <2>6. WebRunsTypeOK'
    <3>1. active' \subseteq Conversations /\ UNCHANGED <<status, sessionOf, stored, cancelled, ask, acted>>
      BY <1>1 DEF StartChatRun, StartBreaks, ChatType, WebRunsTypeOK
    <3>2. UNCHANGED rows \/ rows' = [rows EXCEPT ![r] = "running"]
      BY <1>1 DEF StartChatRun, StartBreaks
    <3> HIDE DEF r
    <3>3. rows' \in [Runs -> {"none", "running", "completed", "cancelled", "failed", "deleted"}]
      BY <3>2 DEF ChatType, WebRunsTypeOK
    <3> QED
      BY <2>3, <2>5, <3>1, <3>3 DEF ChatType, WebRunsTypeOK
  <2>7. UNCHANGED spoken
    BY <1>1 DEF StartChatRun, StartBreaks
  <2> HIDE DEF r
  <2> QED
    BY <2>1, <2>2, <2>4, <2>6, <2>7 DEF ChatType
<1>2. ASSUME NEW c \in Conversations, ArchiveChat(c) \/ DeleteChat(c) PROVE ChatType'
  <2>1. messages' \in [Conversations -> Seq(Lines)]
    <3>1. <<>> \in Seq(Lines)
      OBVIOUS
    <3>2. UNCHANGED messages \/ messages' = [messages EXCEPT ![c] = <<>>]
      BY <1>2 DEF ArchiveChat, DeleteChat
    <3> QED
      BY <3>1, <3>2 DEF ChatType
  <2>2. WebRunsTypeOK'
    <3>1. UNCHANGED <<sessionOf, stored, active, cancelled, runPc, handled, ask, acted>>
      BY <1>2 DEF ArchiveChat, DeleteChat
    <3>2. status' \in [Conversations -> {"active", "archived", "deleted"}]
      <4>1. \E l \in {"active", "archived", "deleted"} : status' = [status EXCEPT ![c] = l]
        BY <1>2 DEF ArchiveChat, DeleteChat
      <4> QED
        BY <4>1 DEF ChatType, WebRunsTypeOK
    <3>3. rows' \in [Runs -> {"none", "running", "completed", "cancelled", "failed", "deleted"}]
      BY <1>2 DEF ArchiveChat, DeleteChat, ChatType, WebRunsTypeOK
    <3> QED
      BY <3>1, <3>2, <3>3 DEF ChatType, WebRunsTypeOK
  <2> QED
    BY <1>2, <2>1, <2>2 DEF ArchiveChat, DeleteChat, ChatType
<1>3. ASSUME NEW r \in Runs, CancelChatRun(r) \/ CompleteBreaks(r) \/ AdmitRun(r)
             \/ CompleteRun(r) \/ RunRaises(r) \/ FreeChat(r)
      PROVE  ChatType'
  <2>1. UNCHANGED <<sent, chatOf, messages, spoken>>
    BY <1>3 DEF CancelChatRun, CompleteBreaks, AdmitRun, CompleteRun, RunRaises, FreeChat
  <2>2. runPc' \in [Runs -> {"none", "queued", "running", "failed", "cancelled",
                             "closing", "closed", "ended", "lost"}]
    BY <1>3, <1>g DEF CancelChatRun, CompleteBreaks, AdmitRun, CompleteRun, RunRaises, FreeChat,
       ChatType, WebRunsTypeOK
  <2>3. WebRunsTypeOK'
    <3>1. UNCHANGED <<status, sessionOf, ask, acted, handled>>
      BY <1>3 DEF CancelChatRun, CompleteBreaks, AdmitRun, CompleteRun, RunRaises, FreeChat
    <3>2. stored' \subseteq Runs /\ active' \subseteq Conversations /\ cancelled' \subseteq Runs
      BY <1>3 DEF CancelChatRun, CompleteBreaks, AdmitRun, CompleteRun, RunRaises, FreeChat,
         ChatType, WebRunsTypeOK
    <3>3. rows' \in [Runs -> {"none", "running", "completed", "cancelled", "failed", "deleted"}]
      BY <1>3 DEF CancelChatRun, CompleteBreaks, AdmitRun, CompleteRun, RunRaises, FreeChat,
         ChatType, WebRunsTypeOK
    <3> QED
      BY <2>2, <3>1, <3>2, <3>3 DEF ChatType, WebRunsTypeOK
  <2> QED
    BY <2>1, <2>3 DEF ChatType
<1>4. ASSUME NEW r \in Runs, RecordEnd(r) \/ EndUnrecorded(r) PROVE ChatType'
  <2>1. UNCHANGED <<sent, chatOf, spoken>>
    BY <1>4 DEF RecordEnd, EndUnrecorded
  <2>2. WebRunsTypeOK'
    <3>1. /\ UNCHANGED <<status, sessionOf, stored, active, cancelled, handled, ask, acted>>
          /\ UNCHANGED rows \/ rows' = [rows EXCEPT ![r] = runPc[r]]
          /\ runPc[r] \in {"failed", "cancelled"} /\ RunGoto(r, "closing")
      BY <1>4 DEF RecordEnd, EndUnrecorded
    <3> QED
      BY <1>g, <3>1 DEF ChatType, WebRunsTypeOK
  <2>3. messages' \in [Conversations -> Seq(Lines)]
    <3>1. Message(r, "event", "loro") \in Lines
      BY DEF Message, Lines
    <3>2. CASE chatOf[r] \in Conversations
      BY <1>4, <1>k, <3>1, <3>2 DEF RecordEnd, EndUnrecorded, ChatType
    <3>3. CASE chatOf[r] \notin Conversations
      BY <1>4, <3>3 DEF RecordEnd, EndUnrecorded, ChatType, Keep
    <3> QED
      BY <3>2, <3>3
  <2> QED
    BY <2>1, <2>2, <2>3 DEF ChatType
<1>5. ASSUME NEW r \in Runs, FinishHandle(r) PROVE ChatType'
  <2>1. WebRunsTypeOK'
    BY <1>5, <1>g DEF FinishHandle, ChatType, WebRunsTypeOK
  <2> QED
    BY <1>5, <1>f, <2>1 DEF FinishHandle, ChatType
<1>6. ASSUME NEW r \in Runs, NEW s \in Speakers,
             \/ BeginSpeaker(r, s) \/ SpeakerStops(r, s) \/ StopWaiting(r, s)
             \/ WithdrawAsk(r, s) \/ AnswerAsk(r, s) \/ AskInterface(r, s) \/ DecideAsk(r, s)
             \/ SpeakerRaises(r, s)
      PROVE  ChatType'
  <2>1. UNCHANGED <<sent, chatOf, messages>>
    BY <1>6 DEF BeginSpeaker, SpeakerStops, StopWaiting, WithdrawAsk, AnswerAsk, AskInterface,
       DecideAsk, SpeakerRaises
  <2>2. UNCHANGED spoken \/ \E l \in SpokenLabels : Says(r, s, l)
    BY <1>6 DEF BeginSpeaker, SpeakerStops, StopWaiting, WithdrawAsk, AnswerAsk, AskInterface,
       DecideAsk, SpeakerRaises, SpokenLabels
  <2>3. /\ ask' \in [Asks -> {"none", "pending", "approved", "denied", "cancelled",
                                "timedout"}]
        /\ acted' \in [Asks -> {"none", "allowed", "refused", "withheld"}]
    <3> DEFINE q == <<r, s>>
    <3>1. WithdrawAs(r, s) \in {ask[q], "cancelled", "timedout"}
      BY DEF WithdrawAs
    <3>2. \A o : TakenAs(r, o) \in {"allowed", "refused", "withheld"}
      BY DEF TakenAs
    <3>3. q \in Asks
      BY AskPair
    <3>4. \/ UNCHANGED ask
          \/ \E o \in {"pending", "approved", "denied", ask[q], WithdrawAs(r, s)} :
                ask' = [ask EXCEPT ![q] = o]
      BY <1>6 DEF BeginSpeaker, SpeakerStops, StopWaiting, WithdrawAsk, AnswerAsk,
         AskInterface, DecideAsk, SpeakerRaises
    <3>5. UNCHANGED acted \/ \E o : acted' = [acted EXCEPT ![q] = TakenAs(r, o)]
      BY <1>6 DEF BeginSpeaker, SpeakerStops, StopWaiting, WithdrawAsk, AnswerAsk,
         AskInterface, DecideAsk, SpeakerRaises
    <3> HIDE DEF q
    <3>6. ask \in [Asks -> {"none", "pending", "approved", "denied", "cancelled", "timedout"}]
      BY DEF ChatType, WebRunsTypeOK
    <3>7. \A o \in {"pending", "approved", "denied", ask[q], WithdrawAs(r, s)} :
             o \in {"none", "pending", "approved", "denied", "cancelled", "timedout"}
      BY <3>1, <3>3, <3>6
    <3>8. acted \in [Asks -> {"none", "allowed", "refused", "withheld"}]
      BY DEF ChatType, WebRunsTypeOK
    <3>9. acted' \in [Asks -> {"none", "allowed", "refused", "withheld"}]
      BY <3>2, <3>3, <3>5, <3>8
    <3> QED
      BY <3>3, <3>4, <3>6, <3>7, <3>9
  <2>4. /\ UNCHANGED <<status, sessionOf, rows, active, cancelled, runPc, handled>>
        /\ stored' \subseteq Runs
    BY <1>6 DEF BeginSpeaker, SpeakerStops, StopWaiting, WithdrawAsk, AnswerAsk,
       AskInterface, DecideAsk, SpeakerRaises, ChatType, WebRunsTypeOK
  <2>5. WebRunsTypeOK'
    BY <2>3, <2>4 DEF ChatType, WebRunsTypeOK
  <2> QED
    BY <1>s, <2>1, <2>2, <2>5 DEF ChatType
<1>7. ASSUME NEW r \in Runs, NEW s \in Speakers,
             ToolSpeaks(r, s) \/ NameSession(r, s) \/ KeepReply(r, s) \/ KeepBreaks(r, s)
      PROVE  ChatType'
  <2>1. UNCHANGED <<sent, chatOf>>
    BY <1>7 DEF ToolSpeaks, NameSession, KeepReply, KeepBreaks
  <2>2. \E l \in SpokenLabels : Says(r, s, l)
    BY <1>7 DEF ToolSpeaks, NameSession, KeepReply, KeepBreaks, SpokenLabels
  <2>3. WebRunsTypeOK'
    <3>1. /\ UNCHANGED <<status, stored, rows, active, cancelled, runPc, handled, ask, acted>>
          /\ \/ UNCHANGED sessionOf
             \/ \E v \in {r, sessionOf[chatOf[r]]} :
                   sessionOf' = [sessionOf EXCEPT ![chatOf[r]] = v]
      BY <1>7 DEF ToolSpeaks, NameSession, KeepReply, KeepBreaks
    <3>2. sessionOf' \in [Conversations -> 0..MaxRuns]
      <4>1. r \in 0..MaxRuns
        BY <1>a DEF Runs
      <4>2. sessionOf \in [Conversations -> 0..MaxRuns]
        BY DEF ChatType, WebRunsTypeOK
      <4> QED
        BY <3>1, <4>1, <4>2
    <3> QED
      BY <3>1, <3>2 DEF ChatType, WebRunsTypeOK
  <2>4. messages' \in [Conversations -> Seq(Lines)]
    <3>1. UNCHANGED messages \/ \E m \in Lines : Keep(chatOf[r], m)
      BY <1>7, LinesOf DEF ToolSpeaks, NameSession, KeepReply, KeepBreaks
    <3>2. messages \in [Conversations -> Seq(Lines)]
      BY DEF ChatType
    <3>3. CASE chatOf[r] \in Conversations
      BY <1>k, <3>1, <3>2, <3>3
    <3>4. CASE chatOf[r] \notin Conversations
      BY <3>1, <3>2, <3>4 DEF Keep
    <3> QED
      BY <3>3, <3>4
  <2> QED
    BY <1>s, <2>1, <2>2, <2>3, <2>4 DEF ChatType
<1>8. CASE WithdrawOrphans \/ RestartServer
  <2>1. WebRunsTypeOK'
    BY <1>8 DEF WithdrawOrphans, RestartServer, ChatType, WebRunsTypeOK
  <2> QED
    BY <1>8, <1>f, <2>1 DEF WithdrawOrphans, RestartServer, ChatType
<1> QED
  BY <1>1, <1>2, <1>3, <1>4, <1>5, <1>6, <1>7, <1>8 DEF WebRunsNext, ChatThread

\* Only start names a run; every other step keeps the runs, and none begins to write.
LEMMA Settled ==
    ASSUME ChatType, WebRunsNext,
           \A c \in Conversations : ~StartChatRun(c) /\ ~StartBreaks(c)
    PROVE  UNCHANGED <<sent, chatOf, mode>> /\ \A q \in Runs : Writing(q)' => Writing(q)
<1> USE DEF chatStore, chatThreads, chatAsks, chatBounds, RunGoto
<1>1. ASSUME NEW c \in Conversations, ArchiveChat(c) \/ DeleteChat(c)
      PROVE  UNCHANGED <<sent, chatOf, mode, runPc>>
  BY <1>1 DEF ArchiveChat, DeleteChat
<1>2. ASSUME NEW r \in Runs, CancelChatRun(r) \/ EndUnrecorded(r) \/ AdmitRun(r)
             \/ CompleteBreaks(r) \/ CompleteRun(r) \/ RunRaises(r) \/ FreeChat(r) \/ RecordEnd(r) \/ FinishHandle(r)
      PROVE  UNCHANGED <<sent, chatOf, mode>> /\ \A q \in Runs : Writing(q)' => Writing(q)
  <2>1. /\ UNCHANGED <<sent, chatOf, mode>>
        /\ \/ UNCHANGED runPc
           \/ runPc[r] = "queued" /\ runPc' = [runPc EXCEPT ![r] = "running"]
           \/ runPc[r] \in {"failed", "cancelled", "running"} /\ \E l : runPc' = [runPc EXCEPT ![r] = l]
           \/ \E l \in {"closed", "ended"} : runPc' = [runPc EXCEPT ![r] = l]
    BY <1>2 DEF CancelChatRun, EndUnrecorded, AdmitRun, CompleteBreaks, CompleteRun, RunRaises, FreeChat,
       RecordEnd, FinishHandle
  <2> QED
    BY <2>1 DEF Writing, ChatType, WebRunsTypeOK
<1>3. ASSUME NEW r \in Runs, NEW s \in Speakers, SpeakerMoves(r, s)
      PROVE  UNCHANGED <<sent, chatOf, mode, runPc>>
  BY <1>3, SpeakerLeaves
<1>4. CASE WithdrawOrphans \/ RestartServer
  BY <1>4 DEF WithdrawOrphans, RestartServer, Writing, ChatType, WebRunsTypeOK
<1> QED
  BY <1>1, <1>2, <1>3, <1>4 DEF WebRunsNext, ChatThread, Writing, SpeakerMoves

LEMMA OneWriterStep == ChatInv /\ WebRunsNext => OneWriter'
<1> SUFFICES ASSUME ChatInv, WebRunsNext PROVE OneWriter'
  OBVIOUS
<1> USE DEF chatStore, chatThreads, chatAsks, chatBounds, RunGoto
<1>t. ChatType /\ OneWriter
  BY DEF ChatInv
<1>1. ASSUME NEW c \in Conversations, StartChatRun(c) \/ StartBreaks(c) PROVE OneWriter'
  <2> DEFINE r == sent + 1
  <2>1. /\ r \in Runs /\ sent \in Nat /\ sent' = r /\ c \notin active /\ active' = active \union {c}
        /\ chatOf' = [chatOf EXCEPT ![r] = c] /\ \A q \in Runs : q \in Nat
    BY <1>1, <1>t, WebRunsAssumption DEF StartChatRun, StartBreaks, ChatType, Runs
  <2>2. \A q \in Runs : Writing(q)' => Writing(q) \/ q = r
    BY <1>1, <1>t DEF StartChatRun, StartBreaks, ChatType, WebRunsTypeOK, Writing
  <2>3. \A q \in Runs : Writing(q) => q # r /\ q <= sent' /\ chatOf'[q] = chatOf[q]
                                    /\ chatOf[q] # c
    BY <1>t, <2>1 DEF OneWriter, ChatType
  <2>4. chatOf'[r] = c
    BY <1>t, <2>1 DEF ChatType
  <2>5. r <= sent'
    BY <2>1
  <2> HIDE DEF r
  <2> QED
    BY <1>t, <2>1, <2>2, <2>3, <2>4, <2>5 DEF OneWriter
<1>2. ASSUME \A c \in Conversations : ~StartChatRun(c) /\ ~StartBreaks(c)
      PROVE  OneWriter'
  <2>1. UNCHANGED <<sent, chatOf>> /\ \A q \in Runs : Writing(q)' => Writing(q)
    BY <1>2, <1>t, Settled
  <2>2. ASSUME NEW r \in Runs, FreeChat(r) PROVE OneWriter'
    <3>1. active' = active \ {chatOf[r]} /\ Writing(r) /\ ~Writing(r)'
      BY <2>2, <1>t DEF FreeChat, Writing, ChatType, WebRunsTypeOK
    <3> QED
      BY <1>t, <2>1, <3>1 DEF OneWriter
  <2>3. CASE RestartServer
    <3>1. \A q \in Runs : ~Writing(q)'
      BY <2>3, <1>t DEF RestartServer, Writing, ChatType, WebRunsTypeOK
    <3> QED
      BY <3>1 DEF OneWriter
  <2>4. CASE UNCHANGED active
    BY <1>t, <2>1, <2>4 DEF OneWriter
  <2>5. ASSUME NEW c \in Conversations, ArchiveChat(c) \/ DeleteChat(c) PROVE UNCHANGED active
    BY <2>5 DEF ArchiveChat, DeleteChat
  <2>6. ASSUME NEW r \in Runs, CancelChatRun(r) \/ EndUnrecorded(r) \/ AdmitRun(r)
               \/ CompleteBreaks(r) \/ CompleteRun(r) \/ RunRaises(r) \/ RecordEnd(r) \/ FinishHandle(r)
        PROVE  UNCHANGED active
    BY <2>6 DEF CancelChatRun, EndUnrecorded, AdmitRun, CompleteBreaks, CompleteRun, RunRaises, RecordEnd,
       FinishHandle
  <2>7. ASSUME NEW r \in Runs, NEW s \in Speakers, SpeakerMoves(r, s) PROVE UNCHANGED active
    BY <2>7, SpeakerLeaves
  <2>8. CASE WithdrawOrphans
    BY <2>4, <2>8 DEF WithdrawOrphans
  <2> QED
    BY <1>2, <2>2, <2>3, <2>4, <2>5, <2>6, <2>7, <2>8 DEF WebRunsNext, ChatThread, SpeakerMoves
<1> QED
  BY <1>1, <1>2

LEMMA RowsStep == ChatInv /\ WebRunsNext => RowsInv'
<1> SUFFICES ASSUME ChatInv, WebRunsNext PROVE RowsInv'
  OBVIOUS
<1> USE DEF chatStore, chatThreads, chatAsks, chatBounds, RunGoto
<1>t. ChatType /\ OneWriter /\ RowsInv
  BY DEF ChatInv
<1>1. ASSUME NEW c \in Conversations, StartChatRun(c) \/ StartBreaks(c) PROVE RowsInv'
  <2> DEFINE r == sent + 1
  <2>1. /\ r \in Runs /\ sent \in Nat /\ sent' = r /\ (\A q \in Runs : q \in Nat) /\ r <= r
    BY <1>1, <1>t, WebRunsAssumption DEF StartChatRun, StartBreaks, ChatType, Runs
  <2>2. \/ UNCHANGED <<rows, runPc>>
        \/ rows' = [rows EXCEPT ![r] = "running"] /\ runPc' = [runPc EXCEPT ![r] = "queued"]
    BY <1>1 DEF StartChatRun, StartBreaks
  <2>3. \A q \in Runs : q <= sent => q <= sent'
    BY <2>1
  <2> HIDE DEF r
  <2> QED
    BY <1>t, <2>1, <2>2, <2>3 DEF RowsInv, ChatType, WebRunsTypeOK
<1>2. ASSUME \A c \in Conversations : ~StartChatRun(c) /\ ~StartBreaks(c)
      PROVE  RowsInv'
  <2>1. UNCHANGED <<sent, chatOf>>
    BY <1>2, <1>t, Settled
  <2>2. ASSUME NEW c \in Conversations, DeleteChat(c) PROVE RowsInv'
    <3>1. \A q \in Runs : Writing(q) => chatOf[q] # c
      BY <1>t, <2>2 DEF DeleteChat, OneWriter
    <3> QED
      BY <1>t, <2>1, <2>2, <3>1 DEF DeleteChat, RowsInv, Writing
  <2>3. ASSUME NEW r \in Runs, CompleteRun(r) \/ CompleteBreaks(r) \/ RecordEnd(r)
        PROVE  RowsInv'
    <3>1. /\ rows[r] # "none" /\ r <= sent
          /\ \/ /\ runPc' = [runPc EXCEPT ![r] = "closing"]
                /\ \E end : rows' = [rows EXCEPT ![r] = end]
             \/ /\ rows[r] = "running" /\ runPc' = [runPc EXCEPT ![r] = "failed"]
                /\ UNCHANGED rows \/ rows' = [rows EXCEPT ![r] = "completed"]
      BY <1>t, <2>3 DEF CompleteRun, CompleteBreaks, RecordEnd, RowsInv
    <3> QED
      BY <1>t, <2>1, <3>1 DEF RowsInv, ChatType, WebRunsTypeOK
  <2>4. ASSUME NEW r \in Runs, EndUnrecorded(r) \/ AdmitRun(r) \/ RunRaises(r) \/ FreeChat(r)
               \/ FinishHandle(r)
        PROVE  RowsInv'
    BY <1>t, <2>1, <2>4 DEF EndUnrecorded, AdmitRun, RunRaises, FreeChat, FinishHandle, RowsInv,
       ChatType, WebRunsTypeOK
  <2>5. CASE RestartServer
    BY <1>t, <2>1, <2>5 DEF RestartServer, RowsInv
  <2>6. CASE UNCHANGED <<rows, runPc>>
    BY <1>t, <2>1, <2>6 DEF RowsInv
  <2>7. ASSUME NEW r \in Runs, NEW s \in Speakers, SpeakerMoves(r, s) PROVE RowsInv'
    BY <2>6, <2>7, SpeakerLeaves
  <2>8. ASSUME NEW c \in Conversations, ArchiveChat(c) PROVE RowsInv'
    BY <2>6, <2>8 DEF ArchiveChat
  <2>9. ASSUME NEW r \in Runs, CancelChatRun(r) PROVE RowsInv'
    BY <2>6, <2>9 DEF CancelChatRun
  <2>10. CASE WithdrawOrphans
    BY <2>6, <2>10 DEF WithdrawOrphans
  <2> QED
    BY <1>2, <2>2, <2>3, <2>4, <2>5, <2>7, <2>8, <2>9, <2>10
       DEF WebRunsNext, ChatThread, SpeakerMoves
<1> QED
  BY <1>1, <1>2

LEMMA SpokenStep == ChatInv /\ WebRunsNext => SpokenInv'
<1> SUFFICES ASSUME ChatInv, WebRunsNext PROVE SpokenInv'
  OBVIOUS
<1> USE DEF chatStore, chatThreads, chatAsks, chatBounds, RunGoto
<1>t. ChatType /\ RowsInv /\ SpokenInv
  BY DEF ChatInv
<1>1. ASSUME NEW c \in Conversations, StartChatRun(c) \/ StartBreaks(c) PROVE SpokenInv'
  <2> DEFINE r == sent + 1
  <2>1. /\ r \in Runs /\ chatOf' = [chatOf EXCEPT ![r] = c] /\ UNCHANGED <<spoken, mode>>
        /\ ~(r <= sent)
    BY <1>1, <1>t, WebRunsAssumption DEF StartChatRun, StartBreaks, ChatType, Runs
  <2>2. UNCHANGED runPc \/ runPc' = [runPc EXCEPT ![r] = "queued"]
    BY <1>1 DEF StartChatRun, StartBreaks
  <2> HIDE DEF r
  <2>3. runPc[r] = "none"
    BY <1>t, <2>1 DEF RowsInv
  <2>4. \A s \in Speakers : spoken'[r][s] = "silent"
    BY <1>t, <2>1, <2>3 DEF SpokenInv
  <2>5. \A q \in Runs : q # r => RunOrder(q)' = RunOrder(q) /\ runPc'[q] = runPc[q]
    BY <1>t, <2>1, <2>2 DEF RunOrder, ChatType, WebRunsTypeOK
  <2> QED
    BY <1>t, <2>1, <2>4, <2>5 DEF SpokenInv, Busy
<1>2. ASSUME \A c \in Conversations : ~StartChatRun(c) /\ ~StartBreaks(c)
      PROVE  SpokenInv'
  <2>1. \A q \in Runs : RunOrder(q)' = RunOrder(q)
    BY <1>2, <1>t, Settled DEF RunOrder
  <2>2. ASSUME NEW r \in Runs, CompleteRun(r) \/ CompleteBreaks(r) \/ RunRaises(r)
        PROVE  SpokenInv'
    <3>1. /\ runPc[r] = "running" /\ UNCHANGED spoken
          /\ \E l \in {"closing", "failed", "cancelled"} : runPc' = [runPc EXCEPT ![r] = l]
          /\ \A s \in Range(RunOrder(r)) : spoken[r][s] \notin Busy
      BY <2>2 DEF CompleteRun, CompleteBreaks, RunRaises, Busy
    <3>2. \A s \in Speakers : spoken[r][s] \notin Busy
      BY <1>t, <3>1 DEF SpokenInv, Busy
    <3> QED
      BY <1>t, <2>1, <3>1, <3>2 DEF SpokenInv, ChatType, WebRunsTypeOK
  <2>3. ASSUME NEW r \in Runs, RecordEnd(r) \/ EndUnrecorded(r) \/ AdmitRun(r) \/ FreeChat(r)
        PROVE  SpokenInv'
    <3>1. /\ runPc[r] # "running" /\ UNCHANGED spoken
          /\ \E l \in {"closing", "running", "closed"} : runPc' = [runPc EXCEPT ![r] = l]
      BY <2>3 DEF RecordEnd, EndUnrecorded, AdmitRun, FreeChat
    <3> QED
      BY <1>t, <2>1, <3>1 DEF SpokenInv, ChatType, WebRunsTypeOK
  <2>4. ASSUME NEW r \in Runs, FinishHandle(r) PROVE SpokenInv'
    <3>1. /\ \A s \in Speakers : spoken'[r][s] = "silent"
          /\ \A q \in Runs \ {r} : spoken'[q] = spoken[q] /\ runPc'[q] = runPc[q]
      BY <1>t, <2>4 DEF FinishHandle, ForgetLocals, ChatType, WebRunsTypeOK
    <3> QED
      BY <1>t, <2>1, <3>1 DEF SpokenInv, Busy
  <2>5. CASE RestartServer
    <3>1. \A q \in Runs : \A s \in Speakers : spoken'[q][s] = "silent"
      BY <2>5 DEF RestartServer, ForgetLocals
    <3> QED
      BY <3>1 DEF SpokenInv, Busy
  <2>6. ASSUME NEW r \in Runs, NEW s \in Speakers,
               \/ BeginSpeaker(r, s) \/ SpeakerStops(r, s) \/ StopWaiting(r, s)
               \/ WithdrawAsk(r, s) \/ AnswerAsk(r, s) \/ AskInterface(r, s)
               \/ SpeakerRaises(r, s) \/ ToolSpeaks(r, s) \/ NameSession(r, s)
               \/ KeepReply(r, s) \/ KeepBreaks(r, s)
        PROVE  SpokenInv'
    <3>1. /\ UNCHANGED runPc /\ \E l : Says(r, s, l)
          /\ \/ runPc[r] = "running" /\ s \in Range(RunOrder(r))
             \/ spoken[r][s] \in Busy
             \/ runPc[r] = "running" /\ spoken[r][s] # "silent"
      BY <2>6 DEF BeginSpeaker, SpeakerStops, StopWaiting, WithdrawAsk, AnswerAsk, AskInterface,
         SpeakerRaises, ToolSpeaks, NameSession, KeepReply, KeepBreaks, Ready, Busy
    <3>2. runPc[r] = "running" /\ s \in Range(RunOrder(r))
      BY <1>t, <3>1 DEF SpokenInv, Busy
    <3>3. \A q \in Runs, u \in Speakers : <<q, u>> # <<r, s>> => spoken'[q][u] = spoken[q][u]
      BY <1>t, <3>1 DEF Says, ChatType
    <3> QED
      BY <1>t, <2>1, <3>1, <3>2, <3>3 DEF SpokenInv
  <2>7. CASE UNCHANGED <<spoken, runPc>>
    BY <1>t, <2>1, <2>7 DEF SpokenInv
  <2>8. ASSUME NEW c \in Conversations, ArchiveChat(c) \/ DeleteChat(c) PROVE SpokenInv'
    BY <2>7, <2>8 DEF ArchiveChat, DeleteChat
  <2>9. ASSUME NEW r \in Runs, NEW s \in Speakers, DecideAsk(r, s) PROVE SpokenInv'
    BY <2>7, <2>9 DEF DecideAsk
  <2>10. ASSUME NEW r \in Runs, CancelChatRun(r) PROVE SpokenInv'
    BY <2>7, <2>10 DEF CancelChatRun
  <2>11. CASE WithdrawOrphans
    BY <2>7, <2>11 DEF WithdrawOrphans
  <2> QED
    BY <1>2, <2>2, <2>3, <2>4, <2>5, <2>6, <2>8, <2>9, <2>10, <2>11 DEF WebRunsNext, ChatThread
<1> QED
  BY <1>1, <1>2

LEMMA AskStep == ChatInv /\ WebRunsNext => AskInv'
<1> SUFFICES ASSUME ChatInv, WebRunsNext PROVE AskInv'
  OBVIOUS
<1> USE DEF chatStore, chatThreads, chatAsks, chatBounds
<1>t. /\ AskInv /\ ask \in [Asks -> {"none", "pending", "approved", "denied", "cancelled",
                                     "timedout"}]
      /\ acted \in [Asks -> {"none", "allowed", "refused", "withheld"}]
      /\ spoken \in [Runs -> [Speakers -> SpokenLabels]]
  BY DEF ChatInv, ChatType, WebRunsTypeOK
\* What a step may do to one request without harm.
<1>p. ASSUME NEW r \in Runs, NEW s \in Speakers, NEW l, Says(r, s, l)
      PROVE  \A q \in Runs, u \in Speakers :
                spoken'[q][u] = IF q = r /\ u = s THEN l ELSE spoken[q][u]
  BY <1>p, <1>t DEF Says
<1>1. ASSUME NEW r \in Runs, NEW s \in Speakers, AskInterface(r, s) PROVE AskInv'
  <2>1. /\ ask[<<r, s>>] = "none" /\ ask' = [ask EXCEPT ![<<r, s>>] = "pending"]
        /\ Says(r, s, "asking") /\ UNCHANGED acted /\ <<r, s>> \in Asks
    BY <1>1, AskPair DEF AskInterface
  <2>2. acted[<<r, s>>] = "none"
    BY <1>t, <2>1 DEF AskInv
  <2>3. \A q \in Asks : ask'[q] = IF q = <<r, s>> THEN "pending" ELSE ask[q]
    BY <1>t, <2>1
  <2>4. \A x \in Runs, u \in Speakers :
           spoken'[x][u] = IF <<x, u>> = <<r, s>> THEN "asking" ELSE spoken[x][u]
    BY <1>p, <2>1
  <2>5. \A x \in Runs, u \in Speakers :
           spoken'[x][u] \in {"asking", "cancelling", "overdue"} => ask'[<<x, u>>] # "none"
    BY <1>t, <2>3, <2>4, AskPair DEF AskInv
  <2> QED
    BY <1>t, <2>1, <2>2, <2>3, <2>5 DEF AskInv, DecisionHonoured
<1>2. ASSUME NEW r \in Runs, NEW s \in Speakers, DecideAsk(r, s) PROVE AskInv'
  BY <1>t, <1>2, AskPair DEF DecideAsk, AskInv, DecisionHonoured
<1>3. ASSUME NEW r \in Runs, NEW s \in Speakers, WithdrawAsk(r, s) \/ AnswerAsk(r, s)
      PROVE  AskInv'
  <2> DEFINE q == <<r, s>>
  <2>1. q \in Asks /\ ask[q] # "none" /\ Says(r, s, "answered")
    BY <1>3, <1>t, AskPair DEF WithdrawAsk, AnswerAsk, AskInv
  <2>2. \E o : /\ acted' = [acted EXCEPT ![q] = TakenAs(r, o)] /\ ask' = [ask EXCEPT ![q] = o]
               /\ o \in {"approved", "denied", "cancelled", "timedout"}
    <3>1. CASE WithdrawAsk(r, s)
      <4>1. WithdrawAs(r, s) \in {"approved", "denied", "cancelled", "timedout"}
        BY <1>t, <2>1 DEF WithdrawAs
      <4>2. ask' = [ask EXCEPT ![q] = WithdrawAs(r, s)]
        BY <3>1, <2>1, <1>t DEF WithdrawAsk, WithdrawAs
      <4> QED
        BY <3>1, <4>1, <4>2 DEF WithdrawAsk
    <3>2. CASE AnswerAsk(r, s)
      <4>1. ask = [ask EXCEPT ![q] = ask[q]]
        BY <1>t, <2>1
      <4>2. ask[q] \in {"approved", "denied", "cancelled", "timedout"}
        BY <3>2, <2>1, <1>t DEF AnswerAsk
      <4> QED
        BY <3>2, <4>1, <4>2 DEF AnswerAsk
    <3> QED
      BY <1>3, <3>1, <3>2
  <2>3. PICK o : /\ acted' = [acted EXCEPT ![q] = TakenAs(r, o)] /\ ask' = [ask EXCEPT ![q] = o]
                 /\ o \in {"approved", "denied", "cancelled", "timedout"}
    BY <2>2
  <2>4. /\ TakenAs(r, o) \in {"allowed", "withheld"} => o = "approved"
        /\ TakenAs(r, o) = "refused" => o # "approved"
    BY DEF TakenAs
  <2>5. \A u \in Asks : u # q => acted'[u] = acted[u] /\ ask'[u] = ask[u]
    BY <1>t, <2>1, <2>3
  <2>6. acted'[q] = TakenAs(r, o) /\ ask'[q] = o
    BY <1>t, <2>1, <2>3
  <2>7. \A x \in Runs, u \in Speakers :
           \/ <<x, u>> # q /\ spoken'[x][u] = spoken[x][u]
           \/ spoken'[x][u] = "answered"
    BY <1>p, <2>1
  <2> HIDE DEF q
  <2> QED
    BY <1>t, <2>1, <2>3, <2>4, <2>5, <2>6, <2>7, AskPair DEF AskInv, DecisionHonoured
<1>4. CASE WithdrawOrphans
  <2>1. /\ UNCHANGED <<spoken, acted>>
        /\ \A q \in Asks : \/ ask'[q] = ask[q]
                           \/ ask[q] = "pending" /\ ask'[q] = "cancelled"
    BY <1>t, <1>4 DEF WithdrawOrphans
  <2> QED
    BY <1>t, <2>1, AskPair DEF AskInv, DecisionHonoured
<1>5. ASSUME NEW r \in Runs, NEW s \in Speakers, StopWaiting(r, s) PROVE AskInv'
  BY <1>t, <1>5, <1>p, AskPair DEF StopWaiting, AskInv, DecisionHonoured
<1>6. ASSUME NEW r \in Runs, NEW s \in Speakers,
             \/ BeginSpeaker(r, s) \/ SpeakerStops(r, s) \/ SpeakerRaises(r, s)
             \/ ToolSpeaks(r, s) \/ NameSession(r, s) \/ KeepReply(r, s) \/ KeepBreaks(r, s)
      PROVE  AskInv'
  <2>1. /\ UNCHANGED <<ask, acted>>
        /\ \E l : Says(r, s, l) /\ l \notin {"asking", "cancelling", "overdue"}
    BY <1>6 DEF BeginSpeaker, SpeakerStops, SpeakerRaises, ToolSpeaks, NameSession,
       KeepReply, KeepBreaks
  <2> QED
    BY <1>t, <1>p, <2>1 DEF AskInv, DecisionHonoured
<1>7. ASSUME NEW rs, ForgetLocals(rs), UNCHANGED <<ask, acted>> PROVE AskInv'
  BY <1>t, <1>7 DEF ForgetLocals, AskInv, DecisionHonoured
<1>8. CASE UNCHANGED <<ask, acted, spoken>>
  BY <1>t, <1>8 DEF AskInv, DecisionHonoured
<1>9. ASSUME NEW c \in Conversations,
             StartChatRun(c) \/ StartBreaks(c) \/ ArchiveChat(c) \/ DeleteChat(c)
      PROVE  AskInv'
  BY <1>8, <1>9 DEF ArchiveChat, DeleteChat, StartChatRun, StartBreaks
<1>10. ASSUME NEW r \in Runs,
              \/ CancelChatRun(r) \/ EndUnrecorded(r) \/ AdmitRun(r) \/ CompleteRun(r)
              \/ CompleteBreaks(r)
              \/ RunRaises(r) \/ RecordEnd(r) \/ FreeChat(r)
       PROVE  AskInv'
  BY <1>8, <1>10 DEF CancelChatRun, EndUnrecorded, AdmitRun, CompleteBreaks, CompleteRun, RunRaises, RecordEnd,
     FreeChat
<1>11. ASSUME NEW r \in Runs, FinishHandle(r)
       PROVE  AskInv'
  BY <1>7, <1>11 DEF FinishHandle
<1>12. CASE RestartServer
  BY <1>7, <1>12 DEF RestartServer
<1> QED
  BY <1>1, <1>2, <1>3, <1>4, <1>5, <1>6, <1>9, <1>10, <1>11, <1>12 DEF WebRunsNext, ChatThread

\* Who else adds to a transcript: a run that writes, and only its own lines.
LEMMA WhoWrites ==
    ASSUME ChatInv, WebRunsNext,
           \A c \in Conversations : ~StartChatRun(c) /\ ~StartBreaks(c) /\ ~DeleteChat(c)
    PROVE  \/ UNCHANGED messages
           \/ \E r \in Runs, m \in Lines :
                 /\ Writing(r) /\ m.run = r /\ Keep(chatOf[r], m)
                 /\ m.role = "assistant" => \E s \in Speakers : AddsReply(r, s)
<1> USE DEF chatStore, chatThreads, chatAsks, chatBounds
<1> DEFINE Goal == \/ UNCHANGED messages
                   \/ \E r \in Runs, m \in Lines :
                         /\ Writing(r) /\ m.run = r /\ Keep(chatOf[r], m)
                         /\ m.role = "assistant" => \E s \in Speakers : AddsReply(r, s)
<1>1. ASSUME NEW r \in Runs, RecordEnd(r) \/ EndUnrecorded(r) PROVE Goal
  <2> DEFINE m == Message(r, "event", "loro")
  <2>1. m \in Lines /\ m.run = r /\ m.role # "assistant"
    BY DEF Message, Lines
  <2>2. Writing(r) /\ (UNCHANGED messages \/ Keep(chatOf[r], m))
    BY <1>1 DEF RecordEnd, EndUnrecorded, Writing
  <2> HIDE DEF m
  <2> QED
    BY <2>1, <2>2
<1>2. ASSUME NEW r \in Runs, NEW s \in Speakers, ToolSpeaks(r, s) PROVE Goal
  <2> DEFINE m == Message(r, "tool", s)
  <2>1. m \in Lines /\ m.run = r /\ m.role # "assistant"
    BY DEF Message, Lines
  <2>2. spoken[r][s] \in Busy /\ (UNCHANGED messages \/ Keep(chatOf[r], m))
    BY <1>2 DEF ToolSpeaks, Busy
  <2>3. Writing(r)
    BY <2>2 DEF Writing, ChatInv, SpokenInv
  <2> HIDE DEF m
  <2> QED
    BY <2>1, <2>2, <2>3
<1>3. ASSUME NEW r \in Runs, NEW s \in Speakers, KeepReply(r, s) \/ KeepBreaks(r, s) PROVE Goal
  <2> DEFINE m == Message(r, "assistant", s)
  <2>1. m \in Lines /\ m.run = r
    BY DEF Message, Lines
  <2>2. Writing(r) /\ (UNCHANGED messages \/ (Keep(chatOf[r], m) /\ AddsReply(r, s)))
    BY <1>3 DEF KeepReply, KeepBreaks, AddsReply, Writing
  <2> HIDE DEF m
  <2> QED
    BY <2>1, <2>2
<1>4. ASSUME NEW r \in Runs, NEW s \in Speakers,
             \/ BeginSpeaker(r, s) \/ SpeakerStops(r, s) \/ StopWaiting(r, s)
             \/ WithdrawAsk(r, s) \/ AnswerAsk(r, s) \/ AskInterface(r, s) \/ DecideAsk(r, s)
             \/ SpeakerRaises(r, s) \/ NameSession(r, s)
      PROVE  Goal
  BY <1>4 DEF BeginSpeaker, SpeakerStops, StopWaiting, WithdrawAsk, AnswerAsk, AskInterface,
     DecideAsk, SpeakerRaises, NameSession
<1>5. ASSUME NEW r \in Runs, CancelChatRun(r) \/ AdmitRun(r)
             \/ CompleteBreaks(r) \/ CompleteRun(r) \/ RunRaises(r) \/ FreeChat(r) \/ FinishHandle(r)
      PROVE  Goal
  BY <1>5 DEF CancelChatRun, AdmitRun, CompleteBreaks, CompleteRun, RunRaises, FreeChat,
     FinishHandle
<1>6. ASSUME NEW c \in Conversations, ArchiveChat(c) PROVE Goal
  BY <1>6 DEF ArchiveChat
<1>7. ASSUME WithdrawOrphans \/ RestartServer PROVE Goal
  BY <1>7 DEF WithdrawOrphans, RestartServer
<1> HIDE DEF Goal
<1>8. Goal
  BY <1>1, <1>2, <1>3, <1>4, <1>5, <1>6, <1>7 DEF WebRunsNext, ChatThread
<1> QED
  BY <1>8 DEF Goal

LEMMA AppendTurn ==
    ASSUME messages \in [Conversations -> Seq(Lines)], TurnsSeparate,
           NEW c \in Conversations, NEW m \in Lines, Keep(c, m),
           \/ \A i \in DOMAIN messages[c] : messages[c][i].run # m.run
           \/ Len(messages[c]) > 0 /\ messages[c][Len(messages[c])].run = m.run
    PROVE  /\ TurnsSeparate'
           /\ Len(messages'[c]) > 0 /\ messages'[c][Len(messages'[c])] = m
           /\ \A i \in DOMAIN messages'[c] :
                 messages'[c][i] = m \/ (i \in DOMAIN messages[c] /\ messages'[c][i] = messages[c][i])
           /\ \A d \in Conversations : d # c => messages'[d] = messages[d]
<1> DEFINE old == messages[c]
           new == messages'[c]
           n   == Len(old)
<1>1. new = Append(old, m) /\ \A d \in Conversations : d # c => messages'[d] = messages[d]
  BY DEF Keep
<1>2. old \in Seq(Lines)
  OBVIOUS
<1>3. /\ n \in Nat /\ DOMAIN old = 1..n /\ DOMAIN new = 1..n + 1 /\ Len(new) = n + 1
      /\ new[n + 1] = m /\ \A i \in 1..n : new[i] = old[i]
  BY <1>1, <1>2, AppendLine
<1>4. \A i, j, k \in 1..n : i < j /\ j < k /\ old[i].run = old[k].run => old[j].run = old[i].run
  <2>1. \A i, j, k \in DOMAIN old :
           i < j /\ j < k /\ old[i].run = old[k].run => old[j].run = old[i].run
    BY DEF TurnsSeparate
  <2> HIDE DEF old, new, n
  <2> QED
    BY <1>3, <2>1
<1>5. (\A i \in 1..n : old[i].run # m.run) \/ (n \in 1..n /\ old[n].run = m.run)
  <2>1. (\A i \in DOMAIN old : old[i].run # m.run) \/ (n > 0 /\ old[n].run = m.run)
    OBVIOUS
  <2> HIDE DEF old, new, n
  <2> QED
    BY <1>3, <2>1
<1> HIDE DEF old, new, n
<1>6. \A i, j, k \in 1..n + 1 : i < j /\ j < k /\ new[i].run = new[k].run => new[j].run = new[i].run
  <2> SUFFICES ASSUME NEW i \in 1..n + 1, NEW j \in 1..n + 1, NEW k \in 1..n + 1,
                      i < j, j < k, new[i].run = new[k].run
               PROVE  new[j].run = new[i].run
    OBVIOUS
  <2>1. i \in 1..n /\ j \in 1..n /\ (k \in 1..n \/ k = n + 1)
    BY <1>3
  <2>2. new[i] = old[i] /\ new[j] = old[j]
    BY <1>3, <2>1
  <2>3. CASE k \in 1..n
    <3>1. old[i].run = old[k].run
      BY <1>3, <2>2, <2>3
    <3> QED
      BY <1>4, <2>1, <2>2, <2>3, <3>1
  <2>4. CASE k = n + 1
    <3>1. old[i].run = m.run
      BY <1>3, <2>2, <2>4
    <3>2. n \in 1..n /\ old[n].run = m.run
      BY <1>5, <2>1, <3>1
    <3>3. j = n \/ j < n
      BY <1>3, <2>1
    <3>4. old[j].run = m.run
      BY <1>4, <2>1, <3>1, <3>2, <3>3
    <3> QED
      BY <2>2, <3>1, <3>4
  <2> QED
    BY <2>1, <2>3, <2>4
<1>7. TurnsSeparate'
  <2>1. ASSUME NEW d \in Conversations
        PROVE  \A i, j, k \in DOMAIN messages'[d] :
                  i < j /\ j < k /\ messages'[d][i].run = messages'[d][k].run
                      => messages'[d][j].run = messages'[d][i].run
    <3>1. CASE d = c
      <4>1. messages'[d] = new /\ DOMAIN new = 1..n + 1
        BY <1>3, <3>1 DEF new
      <4> QED
        BY <1>6, <4>1
    <3>2. CASE d # c
      <4>1. messages'[d] = messages[d]
        BY <1>1, <3>2
      <4>2. \A i, j, k \in DOMAIN messages[d] :
               i < j /\ j < k /\ messages[d][i].run = messages[d][k].run
                   => messages[d][j].run = messages[d][i].run
        BY DEF TurnsSeparate
      <4> QED
        BY <4>1, <4>2
    <3> QED
      BY <3>1, <3>2
  <2> QED
    BY <2>1 DEF TurnsSeparate
<1>8. n + 1 > 0 /\ \A i \in 1..n + 1 : i \in 1..n \/ i = n + 1
  BY <1>3
<1> QED
  BY <1>1, <1>3, <1>7, <1>8 DEF new, old

LEMMA TurnsStep == ChatInv /\ WebRunsNext => TurnsInv'
<1> SUFFICES ASSUME ChatInv, WebRunsNext PROVE TurnsInv'
  OBVIOUS
<1>t. /\ ChatType /\ OneWriter /\ TurnsInv /\ messages \in [Conversations -> Seq(Lines)]
      /\ ChatType' /\ OneWriter'
  BY ChatTypeStep, OneWriterStep DEF ChatInv, ChatType
<1>n. sent \in Nat /\ \A r \in Runs : r \in Nat
  BY <1>t, WebRunsAssumption DEF ChatType, Runs
<1>1. ASSUME NEW c \in Conversations, StartChatRun(c) \/ StartBreaks(c) PROVE TurnsInv'
  <2> DEFINE r == sent + 1
             m == Message(r, "user", "user")
  <2>1. /\ r \in Runs /\ sent' = r /\ c \notin active /\ chatOf' = [chatOf EXCEPT ![r] = c]
        /\ Keep(c, m) \/ UNCHANGED messages
    BY <1>1, <1>t, WebRunsAssumption DEF StartChatRun, StartBreaks, ChatType, Runs, chatStore,
       chatThreads
  <2>2. m \in Lines /\ m.run = r
    BY <2>1 DEF Message, Lines
  <2>3. \A q \in Runs : Writing(q)' =>
           \/ Writing(q) /\ q # r /\ chatOf'[q] = chatOf[q] /\ chatOf[q] # c /\ chatOf[q] \in Conversations
           \/ q = r /\ chatOf'[q] = c /\ Keep(c, m)
    <3> TAKE q \in Runs
    <3>1. Writing(q) => q <= sent /\ chatOf[q] \in active /\ q # r
      BY <1>t, <1>n DEF OneWriter
    <3>2. Writing(q)' => Writing(q) \/ (q = r /\ Keep(c, m))
      <4>1. UNCHANGED runPc \/ (runPc' = [runPc EXCEPT ![r] = "queued"] /\ Keep(c, m))
        BY <1>1 DEF StartChatRun, StartBreaks, RunGoto
      <4> HIDE DEF r, m
      <4> QED
        BY <1>t, <4>1 DEF ChatType, WebRunsTypeOK, Writing
    <3>3. active \subseteq Conversations
      BY <1>t DEF ChatType, WebRunsTypeOK
    <3> HIDE DEF r, m
    <3> QED
      BY <1>t, <2>1, <3>1, <3>2, <3>3 DEF ChatType
  <2>4. \A d \in Conversations : \A i \in DOMAIN messages[d] :
           messages[d][i].run <= r /\ messages[d][i].run # r
    <3> TAKE d \in Conversations
    <3> TAKE i \in DOMAIN messages[d]
    <3>1. messages[d][i] \in Lines
      BY <1>t, ElementOfSeq, LenProperties
    <3>2. messages[d][i].run \in Nat
      BY <3>1, <1>n DEF Lines
    <3>3. messages[d][i].run <= sent
      BY <1>t DEF TurnsInv
    <3> QED
      BY <3>2, <3>3, <1>n
  <2>5. r <= r
    BY <1>n
  <2>6. CASE Keep(c, m)
    <3> HIDE DEF r, m
    <3>1. /\ TurnsSeparate' /\ Len(messages'[c]) > 0 /\ messages'[c][Len(messages'[c])] = m
          /\ \A i \in DOMAIN messages'[c] :
                \/ messages'[c][i] = m
                \/ i \in DOMAIN messages[c] /\ messages'[c][i] = messages[c][i]
          /\ \A d \in Conversations : d # c => messages'[d] = messages[d]
      <4>1. TurnsSeparate /\ \A i \in DOMAIN messages[c] : messages[c][i].run # m.run
        BY <1>t, <2>2, <2>4 DEF TurnsInv
      <4> QED
        BY <1>t, <2>2, <2>6, <4>1, AppendTurn
    <3>2. \A d \in Conversations : \A i \in DOMAIN messages'[d] : messages'[d][i].run <= sent'
      BY <2>1, <2>2, <2>4, <2>5, <3>1
    <3>3. TurnsSeparate'
      BY <3>1
    <3>4. ASSUME NEW q \in Runs, Writing(q)'
          PROVE  LET said == messages'[chatOf'[q]] IN Len(said) > 0 /\ said[Len(said)].run = q
      BY <1>t, <2>2, <2>3, <3>1, <3>4 DEF TurnsInv
    <3> QED
      BY <3>2, <3>3, <3>4 DEF TurnsInv
  <2>7. CASE ~Keep(c, m) /\ UNCHANGED messages
    <3> HIDE DEF r, m
    <3> QED
      BY <1>t, <2>1, <2>3, <2>4, <2>7 DEF TurnsInv, TurnsSeparate
  <2> QED
    BY <2>1, <2>6, <2>7
<1>2. ASSUME NEW c \in Conversations, DeleteChat(c) PROVE TurnsInv'
  <2>1. /\ UNCHANGED <<sent, chatOf, runPc>> /\ c \notin active
        /\ messages' = [messages EXCEPT ![c] = <<>>]
    BY <1>2 DEF DeleteChat, chatThreads
  <2>2. \A r \in Runs : Writing(r) => chatOf[r] # c /\ chatOf[r] \in Conversations
    BY <1>t, <2>1 DEF OneWriter, ChatType, WebRunsTypeOK
  <2>3. \A d \in Conversations : \/ messages'[d] = messages[d] /\ d # c
                                 \/ DOMAIN messages'[d] = {}
    BY <1>t, <2>1
  <2> QED
    BY <1>t, <2>1, <2>2, <2>3 DEF TurnsInv, TurnsSeparate, Writing
<1>3. ASSUME \A c \in Conversations : ~StartChatRun(c) /\ ~StartBreaks(c) /\ ~DeleteChat(c)
      PROVE  TurnsInv'
  <2>1. UNCHANGED <<sent, chatOf>> /\ \A q \in Runs : Writing(q)' => Writing(q)
    BY <1>3, <1>t, Settled
  <2>2. CASE UNCHANGED messages
    BY <1>t, <2>1, <2>2 DEF TurnsInv, TurnsSeparate
  <2>3. ASSUME NEW r \in Runs, NEW m \in Lines, Writing(r), m.run = r, Keep(chatOf[r], m)
        PROVE  TurnsInv'
    <3> DEFINE c == chatOf[r]
    <3>1. c \in Conversations /\ r <= sent
      BY <1>t, <2>3 DEF OneWriter, ChatType, WebRunsTypeOK
    <3>2. Len(messages[c]) > 0 /\ messages[c][Len(messages[c])].run = m.run
      BY <1>t, <2>3 DEF TurnsInv
    <3>3. /\ TurnsSeparate' /\ Len(messages'[c]) > 0 /\ messages'[c][Len(messages'[c])] = m
          /\ \A i \in DOMAIN messages'[c] :
                \/ messages'[c][i] = m
                \/ i \in DOMAIN messages[c] /\ messages'[c][i] = messages[c][i]
          /\ \A d \in Conversations : d # c => messages'[d] = messages[d]
      <4>1. TurnsSeparate /\ Keep(c, m)
        BY <1>t, <2>3 DEF TurnsInv
      <4> HIDE DEF c
      <4> QED
        BY <1>t, <3>1, <3>2, <4>1, AppendTurn
    <3>4. \A q \in Runs : Writing(q) => chatOf[q] \in Conversations /\ (q # r => chatOf[q] # c)
      BY <1>t, <2>3 DEF OneWriter, ChatType, WebRunsTypeOK
    <3> HIDE DEF c
    <3>5. \A d \in Conversations : \A i \in DOMAIN messages'[d] : messages'[d][i].run <= sent'
      BY <1>t, <2>1, <2>3, <3>1, <3>3 DEF TurnsInv
    <3>6. chatOf'[r] = c /\ \A q \in Runs : chatOf'[q] = chatOf[q]
      BY <2>1 DEF c
    <3>7. \A q \in Runs : Writing(q)' =>
             Len(messages'[chatOf'[q]]) > 0 /\ messages'[chatOf'[q]][Len(messages'[chatOf'[q]])].run = q
      <4> SUFFICES ASSUME NEW q \in Runs, Writing(q)'
                   PROVE  Len(messages'[chatOf'[q]]) > 0
                          /\ messages'[chatOf'[q]][Len(messages'[chatOf'[q]])].run = q
        OBVIOUS
      <4>1. CASE q = r
        BY <2>3, <3>3, <3>6, <4>1
      <4>2. CASE q # r
        BY <1>t, <2>1, <3>3, <3>4, <3>6, <4>2 DEF TurnsInv
      <4> QED
        BY <4>1, <4>2
    <3> QED
      BY <3>3, <3>5, <3>7 DEF TurnsInv
  <2> QED
    BY <1>3, <2>2, <2>3, WhoWrites
<1> QED
  BY <1>1, <1>2, <1>3

LEMMA NoReplies ==
    ASSUME NEW r \in Runs, Replies(r)' = {}
    PROVE  Heard(r)' = {} /\ FirstHeard(r)'
<1>1. Heard(r)' = {}
  BY DEF Heard
<1> QED
  BY <1>1 DEF FirstHeard

\* A kept reply is the next of its turn.
LEMMA KeepsReply ==
    ASSUME ChatInv, NEW r \in Runs, NEW s \in Speakers, AddsReply(r, s)
    PROVE  Heard(r)' = Heard(r) \union {s} /\ FirstHeard(r)'
<1> DEFINE c     == chatOf[r]
           order == RunOrder(r)
           old   == messages[c]
           new   == messages'[c]
           n     == Len(old)
           m     == Message(r, "assistant", s)
<1>t. /\ ChatType /\ FirstHeard(r) /\ r <= sent /\ c \in Conversations /\ old \in Seq(Lines)
      /\ runPc[r] = "running"
  BY DEF ChatInv, ChatType, WebRunsTypeOK, OneWriter, Writing, RepliesInv, AddsReply, KeepReply,
     KeepBreaks, Runs
<1>1. /\ RunOrder(r)' = order /\ chatOf' = chatOf /\ new = Append(old, m)
      /\ m \in Lines /\ m.run = r /\ m.role = "assistant" /\ m.by = s
  <2>1. chatOf' = chatOf /\ mode' = mode /\ Keep(c, m)
    BY DEF AddsReply, KeepReply, KeepBreaks, chatThreads
  <2>2. m \in Lines /\ m.run = r /\ m.role = "assistant" /\ m.by = s
    BY DEF Lines, Message
  <2> HIDE DEF m
  <2> QED
    BY <1>t, <2>1, <2>2 DEF RunOrder, Keep, ChatType
<1>2. /\ n \in Nat /\ DOMAIN old = 1..n /\ DOMAIN new = 1..n + 1 /\ new[n + 1] = m
      /\ \A i \in 1..n : new[i] = old[i]
  BY <1>1, <1>t, AppendLine
<1>3. order \in Seq(Speakers) /\ Len(order) \in Nat /\ DOMAIN order = 1..Len(order)
  BY OrderSeq, LenProperties DEF RunOrder
<1>4. /\ \A u \in Speakers : /\ spoken[r][u] = "kept" => u \in Heard(r)
                             /\ u \in Heard(r) => spoken[r][u] \in {"kept", "unkept"}
      /\ spoken[r][s] \in {"done", "named"} /\ s \in Range(order)
      /\ \A i, j \in DOMAIN order : i < j /\ order[j] = s => spoken[r][order[i]] = "kept"
  <2>1. \A u \in Speakers : /\ spoken[r][u] = "kept" => u \in Heard(r)
                            /\ u \in Heard(r) => spoken[r][u] \in {"kept", "unkept"}
    BY <1>t DEF ChatInv, RepliesInv, RunReplies
  <2>2. Ready(r, s)
    BY DEF AddsReply, KeepReply, KeepBreaks
  <2> QED
    BY <2>1, <2>2 DEF Ready, ChatInv, SpokenInv
<1>5. /\ Replies(r) \subseteq 1..n /\ Replies(r)' = Replies(r) \union {n + 1}
  <2>1. /\ Replies(r) = {i \in DOMAIN old : old[i].run = r /\ old[i].role = "assistant"}
        /\ Replies(r)' = {i \in DOMAIN new : new[i].run = r /\ new[i].role = "assistant"}
    BY <1>1 DEF Replies
  <2> HIDE DEF old, new, n, m
  <2>2. \A i : i \in 1..n + 1 <=> i \in 1..n \/ i = n + 1
    BY <1>2
  <2> QED
    BY <1>1, <1>2, <2>1, <2>2
<1>6. \A i \in Replies(r) : new[i].by = old[i].by /\ old[i].by \in Heard(r) /\ i # n + 1
  <2>1. \A i \in Replies(r) : i \in 1..n /\ old[i].by \in Heard(r)
    BY <1>5 DEF Heard
  <2> HIDE DEF old, new, n
  <2> QED
    BY <1>2, <2>1
<1>7. Heard(r)' = Heard(r) \union {s}
  <2>1. /\ Heard(r) = {old[i].by : i \in Replies(r)}
        /\ Heard(r)' = {new[i].by : i \in Replies(r)'}
    BY <1>1 DEF Heard
  <2> HIDE DEF old, new, n, m
  <2>2. new[n + 1].by = s
    BY <1>1, <1>2
  <2> QED
    BY <1>5, <1>6, <2>1, <2>2
<1>8. s \notin Heard(r)
  BY <1>4
<1> DEFINE H == Heard(r)
<1>9. /\ H \subseteq Range(order)
      /\ \A k, l \in DOMAIN order : k < l /\ order[l] \in H => order[k] \in H
      /\ \A i, j \in Replies(r), k, l \in DOMAIN order :
            i < j /\ order[k] = old[i].by /\ order[l] = old[j].by => k < l
  BY <1>t DEF FirstHeard
<1>10. \A k, l \in DOMAIN order : k < l /\ order[l] = s => order[k] \in H
  <2> TAKE k, l \in DOMAIN order
  <2>1. order[k] \in Speakers
    BY <1>3, ElementOfSeq
  <2> QED
    BY <1>4, <2>1
<1>11. \A k, l \in DOMAIN order : k < l /\ order[l] \in H \union {s} => order[k] \in H \union {s}
  BY <1>9, <1>10
<1>12. ASSUME NEW i \in Replies(r)', NEW j \in Replies(r)', NEW k \in DOMAIN order,
              NEW l \in DOMAIN order, i < j, order[k] = new[i].by, order[l] = new[j].by
       PROVE  k < l
  <2> HIDE DEF order, old, new, n, m, H
  <2>1. i \in Replies(r)
    BY <1>2, <1>5, <1>12
  <2>2. CASE j \in Replies(r)
    BY <1>6, <1>9, <1>12, <2>1, <2>2
  <2>3. CASE j = n + 1
    <3>1. order[l] = s /\ order[k] \in H
      BY <1>1, <1>2, <1>6, <1>12, <2>1, <2>3 DEF H
    <3>2. order[l] \notin H
      BY <1>8, <3>1 DEF H
    <3>3. ~(l < k) /\ l # k
      BY <1>9, <3>1, <3>2
    <3> QED
      BY <1>3, <3>3
  <2> QED
    BY <1>5, <2>2, <2>3
<1>13. H \union {s} \subseteq Range(order)
  BY <1>4, <1>9
<1> HIDE DEF old, n, m
<1>14. FirstHeard(r)'
  <2>1. RunOrder(r)' = order /\ Heard(r)' = H \union {s} /\ messages'[chatOf'[r]] = new
    BY <1>1, <1>7
  <2> HIDE DEF order, new, H, c
  <2>2. /\ H \union {s} \subseteq Range(order)
        /\ \A k, l \in DOMAIN order :
              k < l /\ order[l] \in H \union {s} => order[k] \in H \union {s}
        /\ \A i, j \in Replies(r)', k, l \in DOMAIN order :
              i < j /\ order[k] = new[i].by /\ order[l] = new[j].by => k < l
    BY <1>11, <1>12, <1>13
  <2> QED
    BY <2>1, <2>2 DEF FirstHeard
<1> QED
  BY <1>7, <1>14

LEMMA SameReplies ==
    ASSUME NEW r \in Runs, RunReplies(r), RunOrder(r)' = RunOrder(r), Heard(r)' = Heard(r),
           mode' = mode, chatOf'[r] = chatOf[r], rows'[r] = rows[r], runPc'[r] = runPc[r],
           spoken'[r] = spoken[r]
    PROVE  RunReplies(r)'
  BY DEF RunReplies

\* A run not sent yet has said nothing.
LEMMA UnsentReplies ==
    ASSUME NEW r \in Runs, rows'[r] = "none", runPc'[r] = "none"
    PROVE  RunReplies(r)'
  BY DEF RunReplies

LEMMA StartReplies ==
    ASSUME ChatInv, NEW c \in Conversations, StartChatRun(c) \/ StartBreaks(c)
    PROVE  RepliesInv'
<1>t. ChatType /\ RowsInv /\ SpokenInv /\ TurnsInv /\ RepliesInv
  BY DEF ChatInv
<1>0. sent + 1 \in Runs
  BY <1>t, WebRunsAssumption DEF StartChatRun, StartBreaks, ChatType, Runs
<1>r. PICK r \in Runs : r = sent + 1
  BY <1>0
<1> DEFINE m == Message(r, "user", "user")
<1>1. /\ r \in Runs /\ sent' = r /\ sent \in Nat /\ \A q \in Runs : q \in Nat /\ (q <= sent => q # r)
      /\ 1..sent \subseteq Runs
  BY <1>r, <1>t, WebRunsAssumption DEF StartChatRun, StartBreaks, ChatType, Runs
<1>2. /\ chatOf' = [chatOf EXCEPT ![r] = c] /\ UNCHANGED <<mode, spoken>>
      /\ Keep(c, m) \/ UNCHANGED messages
  BY <1>r DEF StartChatRun, StartBreaks, chatStore, chatThreads
<1>3. \/ UNCHANGED <<rows, runPc>>
      \/ rows' = [rows EXCEPT ![r] = "running"] /\ runPc' = [runPc EXCEPT ![r] = "queued"]
  BY <1>r DEF StartChatRun, StartBreaks, RunGoto
<1>4. m \in Lines /\ m.run = r /\ m.role = "user"
  BY <1>1 DEF Lines, Message
<1>5. \A q \in 1..r : q \in 1..sent \/ q = r
  BY <1>1, <1>r
<1>n. \A q \in Runs : q <= sent => q \in 1..sent
  BY <1>1 DEF Runs
<1> HIDE DEF m
<1>6. \A q \in Runs : q # r => chatOf'[q] = chatOf[q] /\ rows'[q] = rows[q] /\ runPc'[q] = runPc[q]
  BY <1>t, <1>2, <1>3 DEF ChatType, WebRunsTypeOK
\* The runs sent before keep what they have.
<1>7. ASSUME NEW q \in 1..sent PROVE FirstHeard(q)' /\ RunReplies(q)'
  <2>1. q \in Runs /\ q # r /\ chatOf[q] \in Conversations
        /\ FirstHeard(q) /\ RunReplies(q) /\ chatOf'[q] = chatOf[q]
        /\ messages \in [Conversations -> Seq(Lines)]
    BY <1>1, <1>6, <1>7, <1>t DEF ChatType, RepliesInv
  <2>2. \/ messages'[chatOf[q]] = messages[chatOf[q]]
        \/ Added(chatOf[q], m)
    BY <1>2, <2>1 DEF Keep, Added
  <2>3. RunOrder(q)' = RunOrder(q) /\ Heard(q)' = Heard(q) /\ (FirstHeard(q)' <=> FirstHeard(q))
    <3>1. \/ messages'[chatOf[q]] = messages[chatOf[q]]
          \/ \E l \in Lines : (l.run # q \/ l.role # "assistant") /\ Added(chatOf[q], l)
      BY <1>4, <2>1, <2>2
    <3> QED
      BY <1>2, <2>1, <3>1, QuietReplies
  <2> QED
    BY <1>2, <1>6, <2>1, <2>3, SameReplies
\* The new run has none.
<1>8. Replies(r)' = {}
  <2>1. \A i \in DOMAIN messages[c] : messages[c][i].run # r
    <3> TAKE i \in DOMAIN messages[c]
    <3>1. messages[c][i] \in Lines /\ messages[c][i].run <= sent
      BY <1>t, ElementOfSeq, LenProperties DEF ChatType, TurnsInv
    <3> QED
      BY <1>1, <3>1 DEF Lines
  <2>2. \A i \in DOMAIN messages'[c] : messages'[c][i].run # r \/ messages'[c][i].role = "user"
    <3>1. CASE UNCHANGED messages
      BY <2>1, <3>1
    <3>2. CASE Keep(c, m)
      <4> DEFINE n == Len(messages[c])
      <4>1. /\ n \in Nat /\ DOMAIN messages[c] = 1..n /\ DOMAIN messages'[c] = 1..n + 1
            /\ messages'[c][n + 1] = m
            /\ \A i \in 1..n : messages'[c][i] = messages[c][i]
        BY <1>t, <1>4, <3>2, AppendLine DEF Keep, ChatType
      <4> HIDE DEF n
      <4>2. \A i \in 1..n + 1 : i \in 1..n \/ i = n + 1
        BY <4>1
      <4> QED
        BY <1>4, <2>1, <4>1, <4>2
    <3> QED
      BY <1>2, <3>1, <3>2
  <2>3. chatOf'[r] = c
    BY <1>1, <1>2, <1>t DEF ChatType
  <2> QED
    BY <2>2, <2>3 DEF Replies
<1>9. Heard(r)' = {} /\ FirstHeard(r)'
  BY <1>1, <1>8, NoReplies
<1>10. RunReplies(r)'
  <2>1. rows[r] = "none" /\ runPc[r] = "none"
    <3>1. ~(r <= sent)
      BY <1>1, <1>r
    <3> QED
      BY <1>1, <1>t, <3>1 DEF RowsInv
  <2>2. \A s \in Speakers : spoken'[r][s] = "silent"
    BY <1>1, <1>2, <1>t, <2>1 DEF SpokenInv
  <2>3. rows'[r] \in {"none", "running"} /\ runPc'[r] \in {"none", "queued"}
    BY <1>1, <1>3, <1>t, <2>1 DEF ChatType, WebRunsTypeOK
  <2> QED
    BY <1>9, <2>2, <2>3 DEF RunReplies
<1>11. ASSUME NEW q \in Runs, q \notin 1..sent, q # r PROVE RunReplies(q)'
  <2>1. rows[q] = "none" /\ runPc[q] = "none"
    BY <1>n, <1>11, <1>t DEF RowsInv
  <2> QED
    BY <1>6, <1>11, <2>1, UnsentReplies
<1> QED
  BY <1>1, <1>5, <1>7, <1>9, <1>10, <1>11 DEF RepliesInv

LEMMA DeleteReplies ==
    ASSUME ChatInv, NEW c \in Conversations, DeleteChat(c)
    PROVE  RepliesInv'
<1>t. ChatType /\ OneWriter /\ RowsInv /\ RepliesInv
  BY DEF ChatInv
<1>1. /\ UNCHANGED <<sent, chatOf, runPc, mode, spoken>> /\ c \notin active
      /\ messages' = [messages EXCEPT ![c] = <<>>]
      /\ rows' = [r \in Runs |-> IF chatOf[r] = c /\ rows[r] # "none" THEN "deleted" ELSE rows[r]]
  BY DEF DeleteChat, chatThreads
<1>n. \A q \in Runs : q <= sent <=> q \in 1..sent
  BY <1>t, WebRunsAssumption DEF ChatType, Runs
<1>s. 1..sent \subseteq Runs
  BY <1>t, WebRunsAssumption DEF ChatType, Runs
<1>2. ASSUME NEW q \in 1..sent PROVE FirstHeard(q)' /\ RunReplies(q)'
  <2>1. q \in Runs /\ chatOf[q] \in Conversations /\ FirstHeard(q) /\ RunReplies(q)
    BY <1>s, <1>t, <1>2 DEF ChatType, RepliesInv
  <2>2. CASE chatOf[q] = c
    <3>1. Replies(q)' = {}
      BY <1>1, <1>t, <2>2 DEF Replies, ChatType
    <3>2. rows'[q] \notin {"completed", "cancelled"}
      BY <1>1, <2>1, <2>2
    <3>3. runPc'[q] \notin {"queued", "running", "failed", "cancelled"}
      BY <1>1, <1>t, <2>1, <2>2 DEF OneWriter, Writing
    <3>4. RunReplies(q)'
      BY <3>2, <3>3 DEF RunReplies
    <3> QED
      BY <2>1, <3>1, <3>4, NoReplies
  <2>3. CASE chatOf[q] # c
    <3>1. /\ messages'[chatOf[q]] = messages[chatOf[q]] /\ rows'[q] = rows[q]
          /\ messages \in [Conversations -> Seq(Lines)]
      BY <1>1, <1>t, <2>1, <2>3 DEF ChatType
    <3>2. RunOrder(q)' = RunOrder(q) /\ Heard(q)' = Heard(q) /\ (FirstHeard(q)' <=> FirstHeard(q))
      BY <1>1, <2>1, <3>1, QuietReplies
    <3> QED
      BY <1>1, <2>1, <3>1, <3>2, SameReplies
  <2> QED
    BY <2>2, <2>3
<1>3. ASSUME NEW q \in Runs, q \notin 1..sent PROVE RunReplies(q)'
  <2>1. rows[q] = "none" /\ runPc[q] = "none"
    BY <1>n, <1>3, <1>t DEF RowsInv
  <2> QED
    BY <1>1, <1>3, <2>1, UnsentReplies
<1> QED
  BY <1>1, <1>2, <1>3 DEF RepliesInv

LEMMA RepliesStep == ChatInv /\ WebRunsNext => RepliesInv'
<1> SUFFICES ASSUME ChatInv, WebRunsNext PROVE RepliesInv'
  OBVIOUS
<1> USE DEF chatStore, chatThreads, chatAsks, chatBounds
<1>t. /\ ChatType /\ OneWriter /\ RowsInv /\ SpokenInv /\ RepliesInv
      /\ messages \in [Conversations -> Seq(Lines)]
      /\ spoken \in [Runs -> [Speakers -> SpokenLabels]]
  BY DEF ChatInv, ChatType
<1>n. 1..sent \subseteq Runs /\ \A q \in Runs : q <= sent <=> q \in 1..sent
  BY <1>t, WebRunsAssumption DEF ChatType, Runs
<1>o. \A q \in Runs : Range(RunOrder(q)) \subseteq Speakers
  BY OrderSeq, LenProperties, ElementOfSeq DEF RunOrder, Range
<1>1. ASSUME NEW c \in Conversations, StartChatRun(c) \/ StartBreaks(c) \/ DeleteChat(c)
      PROVE  RepliesInv'
  BY <1>1, StartReplies, DeleteReplies
<1>2. ASSUME \A c \in Conversations : ~StartChatRun(c) /\ ~StartBreaks(c) /\ ~DeleteChat(c)
      PROVE  RepliesInv'
  <2>1. UNCHANGED <<sent, chatOf, mode>> /\ \A q \in Runs : RunOrder(q)' = RunOrder(q)
    BY <1>2, <1>t, Settled DEF RunOrder
\* A run that does not keep a reply has those it had.
  <2>2. ASSUME NEW q \in 1..sent, \A s \in Speakers : ~AddsReply(q, s)
        PROVE  Heard(q)' = Heard(q) /\ FirstHeard(q)'
    <3>1. q \in Runs /\ chatOf[q] \in Conversations /\ FirstHeard(q)
      BY <1>n, <1>t, <2>2 DEF ChatType, RepliesInv
    <3>2. \/ messages'[chatOf[q]] = messages[chatOf[q]]
          \/ \E m \in Lines : (m.run # q \/ m.role # "assistant") /\ Added(chatOf[q], m)
      <4>1. CASE UNCHANGED messages
        BY <4>1
      <4>2. ASSUME NEW r \in Runs, NEW m \in Lines, m.run = r, Keep(chatOf[r], m),
                   m.role = "assistant" => \E s \in Speakers : AddsReply(r, s)
            PROVE  <3>2
        <5>1. m.run # q \/ m.role # "assistant"
          BY <2>2, <4>2
        <5>2. messages'[chatOf[q]] = messages[chatOf[q]] \/ Added(chatOf[q], m)
          BY <1>t, <3>1, <4>2 DEF Keep, Added
        <5> QED
          BY <5>1, <5>2
      <4> QED
        BY <1>2, <4>1, <4>2, WhoWrites
    <3> QED
      BY <1>t, <2>1, <3>1, <3>2, QuietReplies
\* So it keeps its part of the invariant unless its row, thread or speakers change.
  <2>3. ASSUME NEW q \in Runs, \A s \in Speakers : ~AddsReply(q, s),
               rows'[q] = rows[q], runPc'[q] = runPc[q], spoken'[q] = spoken[q]
        PROVE  RunReplies(q)'
    <3>1. CASE q \in 1..sent
      BY <1>t, <2>1, <2>2, <2>3, <3>1, SameReplies DEF RepliesInv
    <3>2. CASE q \notin 1..sent
      <4>1. rows[q] = "none" /\ runPc[q] = "none"
        BY <1>n, <1>t, <3>2 DEF RowsInv
      <4> QED
        BY <2>3, <4>1, UnsentReplies
    <3> QED
      BY <3>1, <3>2
  <2>4. ASSUME NEW r \in Runs, NEW s \in Speakers, AddsReply(r, s) PROVE RepliesInv'
    <3>0. PICK l \in {"kept", "unkept"} : Says(r, s, l)
      BY <2>4 DEF AddsReply, KeepReply, KeepBreaks
    <3>1. /\ Heard(r)' = Heard(r) \union {s} /\ FirstHeard(r)'
          /\ runPc[r] = "running" /\ rows[r] = "running" /\ UNCHANGED <<runPc, rows>>
          /\ Ready(r, s) /\ spoken[r][s] \in {"done", "named"} /\ s \in Range(RunOrder(r))
      BY <1>t, <2>4, KeepsReply DEF AddsReply, KeepReply, KeepBreaks, Ready, RowsInv, SpokenInv
    <3>2. \A q \in Runs, u \in Speakers :
             spoken'[q][u] = IF q = r /\ u = s THEN l ELSE spoken[q][u]
      BY <1>t, <3>0 DEF Says
    <3>3. RunReplies(r)'
      <4>1. \A u \in Speakers : /\ spoken'[r][u] = "kept" => u \in Heard(r)'
                                /\ u \in Heard(r)' => spoken'[r][u] \in {"kept", "unkept"}
        BY <1>t, <3>1, <3>2 DEF RepliesInv, RunReplies
      <4>2. mode[chatOf[r]] = "parallel" =>
               \A u \in Range(RunOrder(r)) : spoken'[r][u] \in {"done", "kept", "unkept"}
        BY <1>o, <3>1, <3>2 DEF Ready
      <4> QED
        BY <2>1, <3>1, <4>1, <4>2 DEF RunReplies
    <3>4. ASSUME NEW q \in Runs, q # r
          PROVE  spoken'[q] = spoken[q] /\ \A u \in Speakers : ~AddsReply(q, u)
      <4>1. spoken'[q] = spoken[q]
        BY <1>t, <3>0, <3>4 DEF Says
      <4>2. ASSUME NEW u \in Speakers, AddsReply(q, u) PROVE FALSE
        <5>1. /\ spoken[q][u] \in {"done", "named"}
              /\ \E k \in {"kept", "unkept"} : Says(q, u, k)
          BY <4>2 DEF AddsReply, KeepReply, KeepBreaks, Ready
        <5>2. spoken'[q][u] \in {"kept", "unkept"}
          BY <1>t, <5>1 DEF Says
        <5> QED
          BY <4>1, <5>1, <5>2
      <4> QED
        BY <4>1, <4>2
    <3>5. \A q \in Runs : RunReplies(q)'
      BY <2>3, <3>1, <3>3, <3>4
    <3>6. \A q \in 1..sent : FirstHeard(q)'
      BY <1>n, <2>2, <3>1, <3>4
    <3> QED
      BY <2>1, <3>5, <3>6 DEF RepliesInv
\* From here on nobody keeps a reply.
  <2>5. ASSUME \A r \in Runs, s \in Speakers : ~AddsReply(r, s) PROVE RepliesInv'
    <3>1. \A q \in 1..sent' : FirstHeard(q)'
      BY <1>n, <2>1, <2>2, <2>5
    <3>2. \A q \in 1..sent : Heard(q)' = Heard(q)
      BY <1>n, <2>2, <2>5
    <3>p. \A q \in Runs : RunReplies(q)
      BY <1>t DEF RepliesInv
    <3>3. ASSUME NEW r \in Runs, runPc[r] # "none",
                 \A q \in Runs \ {r} : /\ rows'[q] = rows[q] /\ runPc'[q] = runPc[q]
                                       /\ spoken'[q] = spoken[q],
                 Heard(r)' = Heard(r) => RunReplies(r)'
          PROVE  RepliesInv'
      <4>1. r \in 1..sent
        BY <1>n, <1>t, <3>3 DEF RowsInv
      <4>2. RunReplies(r)'
        BY <3>2, <3>3, <4>1
      <4>3. \A q \in Runs : RunReplies(q)'
        BY <2>3, <2>5, <3>3, <4>2
      <4> QED
        BY <3>1, <4>3 DEF RepliesInv
    <3>4. ASSUME NEW r \in Runs, CompleteRun(r) \/ CompleteBreaks(r) PROVE RepliesInv'
      <4>1. /\ runPc[r] = "running" /\ UNCHANGED spoken
            /\ \E l \in {"closing", "failed"} : runPc' = [runPc EXCEPT ![r] = l]
            /\ UNCHANGED rows \/ rows' = [rows EXCEPT ![r] = "completed"]
            /\ \A s \in Range(RunOrder(r)) : spoken[r][s] = "kept"
        BY <3>4 DEF CompleteRun, CompleteBreaks, RunGoto
      <4>2. Range(RunOrder(r)) \subseteq Heard(r)
        BY <1>o, <3>p, <4>1 DEF RunReplies
      <4>3. runPc'[r] \in {"closing", "failed"} /\ rows'[r] \in {"running", "completed"}
        BY <1>t, <4>1 DEF ChatType, WebRunsTypeOK, RowsInv
      <4>4. Heard(r)' = Heard(r) => RunReplies(r)'
        BY <2>1, <4>2, <4>3 DEF RunReplies
      <4> QED
        BY <1>t, <3>3, <4>1, <4>4 DEF ChatType, WebRunsTypeOK
    <3>5. ASSUME NEW r \in Runs, RunRaises(r) PROVE RepliesInv'
      <4>1. /\ runPc[r] = "running" /\ UNCHANGED <<rows, spoken>>
            /\ \E s \in Range(RunOrder(r)) :
                  \/ /\ spoken[r][s] \in {"unkept", "raised"}
                     /\ runPc' = [runPc EXCEPT ![r] = "failed"]
                  \/ /\ spoken[r][s] = "cancelled"
                     /\ runPc' = [runPc EXCEPT ![r] = "cancelled"]
        BY <3>5 DEF RunRaises, RunGoto
      <4>5. \/ runPc'[r] = "failed" /\ rows'[r] = "running"
            \/ /\ runPc'[r] = "cancelled" /\ rows'[r] = "running"
               /\ \E s \in Range(RunOrder(r)) : spoken[r][s] = "cancelled"
        BY <1>t, <4>1 DEF ChatType, WebRunsTypeOK, RowsInv
      <4>2. mode[chatOf[r]] = "parallel" /\ runPc'[r] = "cancelled" =>
               \A s \in Range(RunOrder(r)) : spoken[r][s] \notin {"kept", "unkept"}
        BY <3>p, <4>1, <4>5 DEF RunReplies
      <4>3. Heard(r) \subseteq Range(RunOrder(r))
        BY <1>n, <1>t, <4>1 DEF RowsInv, RepliesInv, FirstHeard
      <4>4. mode[chatOf[r]] = "parallel" /\ runPc'[r] = "cancelled" => Heard(r) = {}
        BY <1>o, <3>p, <4>1, <4>2, <4>3 DEF RunReplies
      <4>6. Heard(r)' = Heard(r) => RunReplies(r)'
        BY <2>1, <4>4, <4>5 DEF RunReplies
      <4>7. \E l : runPc' = [runPc EXCEPT ![r] = l]
        BY <4>1
      <4> QED
        BY <1>t, <3>3, <4>1, <4>6, <4>7 DEF ChatType, WebRunsTypeOK
    <3>6. ASSUME NEW r \in Runs, RecordEnd(r) \/ EndUnrecorded(r) PROVE RepliesInv'
      <4>1. /\ runPc[r] \in {"failed", "cancelled"} /\ runPc' = [runPc EXCEPT ![r] = "closing"]
            /\ rows' = [rows EXCEPT ![r] = runPc[r]] \/ UNCHANGED rows
            /\ UNCHANGED spoken
        BY <3>6 DEF RecordEnd, EndUnrecorded, RunGoto
      <4>2. mode[chatOf[r]] = "parallel" /\ runPc[r] = "cancelled" => Heard(r) = {}
        BY <3>p, <4>1 DEF RunReplies
      <4>3. /\ runPc'[r] = "closing"
            /\ \/ rows'[r] = runPc[r]
               \/ rows'[r] = rows[r] /\ rows[r] \in {"running", "completed"}
        BY <1>t, <4>1 DEF ChatType, WebRunsTypeOK, RowsInv
      <4>4. Heard(r)' = Heard(r) => RunReplies(r)'
        BY <2>1, <3>p, <4>1, <4>2, <4>3 DEF RunReplies
      <4> QED
        BY <1>t, <3>3, <4>1, <4>4 DEF ChatType, WebRunsTypeOK
    <3>7. ASSUME NEW r \in Runs, AdmitRun(r) PROVE RepliesInv'
      <4>1. /\ runPc[r] = "queued" /\ runPc' = [runPc EXCEPT ![r] = "running"]
            /\ UNCHANGED <<rows, spoken>>
        BY <3>7 DEF AdmitRun, RunGoto
      <4>2. \A s \in Speakers : spoken[r][s] = "silent"
        BY <1>t, <4>1 DEF SpokenInv
      <4>3. runPc'[r] = "running" /\ rows'[r] = "running"
        BY <1>t, <4>1 DEF ChatType, WebRunsTypeOK, RowsInv
      <4>4. Heard(r)' = Heard(r) => RunReplies(r)'
        BY <1>o, <2>1, <3>p, <4>1, <4>2, <4>3 DEF RunReplies
      <4> QED
        BY <1>t, <3>3, <4>1, <4>4 DEF ChatType, WebRunsTypeOK
    <3>8. ASSUME NEW r \in Runs, FreeChat(r) \/ FinishHandle(r) PROVE RepliesInv'
      <4>1. /\ runPc[r] \in {"closing", "closed"} /\ UNCHANGED rows
            /\ \E l \in {"closed", "ended"} : runPc' = [runPc EXCEPT ![r] = l]
            /\ \A q \in Runs \ {r} : spoken'[q] = spoken[q]
        BY <3>8 DEF FreeChat, FinishHandle, RunGoto, ForgetLocals
      <4>2. runPc'[r] \in {"closed", "ended"}
        BY <1>t, <4>1 DEF ChatType, WebRunsTypeOK
      <4>3. Heard(r)' = Heard(r) => RunReplies(r)'
        BY <2>1, <3>p, <4>1, <4>2 DEF RunReplies
      <4> QED
        BY <1>t, <3>3, <4>1, <4>3 DEF ChatType, WebRunsTypeOK
    <3>9. ASSUME NEW r \in Runs, NEW s \in Speakers, SpeakerMoves(r, s), ~DecideAsk(r, s)
          PROVE  RepliesInv'
      <4>1. PICK l :
               /\ Says(r, s, l) /\ UNCHANGED <<runPc, rows>>
               /\ \/ KeepBreaks(r, s) /\ l = "unkept"
                  \/ NameSession(r, s) /\ l = "named"
                  \/ l \notin {"kept", "unkept"} /\ spoken[r][s] \notin {"done", "kept", "unkept"}
               /\ spoken[r][s] \notin {"kept", "unkept"}
               /\ spoken[r][s] # "silent" \/ (s \in Range(RunOrder(r)) /\ runPc[r] = "running")
        BY <2>5, <3>9 DEF SpeakerMoves, BeginSpeaker, SpeakerStops, StopWaiting, WithdrawAsk,
           AnswerAsk, AskInterface, SpeakerRaises, ToolSpeaks, NameSession, KeepBreaks, Ready,
           AddsReply
      <4>2. /\ s \in Range(RunOrder(r)) /\ runPc[r] # "none"
        BY <1>t, <4>1 DEF SpokenInv
      <4>3. \A q \in Runs, u \in Speakers :
               spoken'[q][u] = IF q = r /\ u = s THEN l ELSE spoken[q][u]
        BY <1>t, <4>1 DEF Says
      <4>4. \A u \in Speakers : /\ spoken'[r][u] = "kept" <=> spoken[r][u] = "kept"
                                /\ spoken[r][u] = "unkept" => spoken'[r][u] = "unkept"
        BY <4>1, <4>3
      <4>5. mode[chatOf[r]] = "parallel" /\ runPc[r] = "running" =>
               \/ \A u \in Range(RunOrder(r)) : spoken'[r][u] \notin {"kept", "unkept"}
               \/ \A u \in Range(RunOrder(r)) : spoken'[r][u] \in {"done", "kept", "unkept"}
        <5>1. CASE KeepBreaks(r, s) /\ l = "unkept"
          BY <1>o, <4>3, <5>1 DEF KeepBreaks, Ready
        <5>2. CASE NameSession(r, s)
          BY <5>2 DEF NameSession, ToBeNamed, Opens
        <5>3. CASE l \notin {"kept", "unkept"} /\ spoken[r][s] \notin {"done", "kept", "unkept"}
          BY <1>o, <3>p, <4>2, <4>3, <5>3 DEF RunReplies
        <5> QED
          BY <4>1, <5>1, <5>2, <5>3
      <4>6. Heard(r)' = Heard(r) => RunReplies(r)'
        BY <2>1, <3>p, <4>1, <4>4, <4>5 DEF RunReplies
      <4>7. \A q \in Runs \ {r} : spoken'[q] = spoken[q]
        BY <1>t, <4>1 DEF Says
      <4> QED
        BY <3>3, <4>1, <4>2, <4>6, <4>7
    <3>10. CASE RestartServer
      <4>1. /\ \A q \in Runs : runPc'[q] \in {"none", "ended", "lost"}
            /\ UNCHANGED rows /\ \A q \in Runs : runPc'[q] = "none" => runPc[q] = "none"
        BY <1>t, <3>10 DEF RestartServer
      <4>2. ASSUME NEW q \in Runs PROVE RunReplies(q)'
        <5>1. CASE q \in 1..sent
          BY <2>1, <3>2, <3>p, <4>1, <5>1 DEF RunReplies
        <5>2. CASE q \notin 1..sent
          <6>1. rows[q] = "none"
            BY <1>n, <1>t, <5>2 DEF RowsInv
          <6> QED
            BY <4>1, <6>1 DEF RunReplies
        <5> QED
          BY <5>1, <5>2
      <4> QED
        BY <3>1, <4>2 DEF RepliesInv
    <3>11. CASE UNCHANGED <<rows, runPc, spoken>>
      BY <2>3, <2>5, <3>1, <3>11 DEF RepliesInv
    <3>12. ASSUME NEW c \in Conversations, ArchiveChat(c) PROVE RepliesInv'
      BY <3>11, <3>12 DEF ArchiveChat
    <3>13. ASSUME NEW r \in Runs, CancelChatRun(r) PROVE RepliesInv'
      BY <3>11, <3>13 DEF CancelChatRun
    <3>14. ASSUME NEW r \in Runs, NEW s \in Speakers, DecideAsk(r, s) PROVE RepliesInv'
      BY <3>11, <3>14 DEF DecideAsk
    <3>15. CASE WithdrawOrphans
      BY <3>11, <3>15 DEF WithdrawOrphans
    <3> QED
      BY <1>2, <3>4, <3>5, <3>6, <3>7, <3>8, <3>9, <3>10, <3>12, <3>13, <3>14, <3>15
         DEF WebRunsNext, ChatThread, SpeakerMoves
  <2> QED
    BY <2>4, <2>5
<1> QED
  BY <1>1, <1>2

LEMMA ChatInvHolds == WebRunsSpec => []ChatInv
<1>1. WebRunsInit => ChatInv
  <2> SUFFICES ASSUME WebRunsInit PROVE ChatInv
    OBVIOUS
  <2> USE DEF WebRunsInit
  <2>1. ChatType
    <3>1. WebRunsTypeOK
      BY WebRunsAssumption DEF WebRunsTypeOK
    <3>2. 1..sent = {} /\ sent \in 0..MaxRuns
      BY WebRunsAssumption
    <3>3. chatOf \in [Runs -> Chats] /\ spoken \in [Runs -> [Speakers -> SpokenLabels]]
      BY DEF Chats, SpokenLabels
    <3>4. messages \in [Conversations -> Seq(Lines)]
      OBVIOUS
    <3> QED
      BY <3>1, <3>2, <3>3, <3>4 DEF ChatType
  <2>2. OneWriter /\ RowsInv /\ SpokenInv /\ AskInv
    BY DEF OneWriter, Writing, RowsInv, SpokenInv, AskInv, DecisionHonoured, Busy, Asks
  <2>3. TurnsInv
    BY DEF TurnsInv, TurnsSeparate, Writing
  <2>4. RepliesInv
    <3>1. 1..sent = {}
      OBVIOUS
    <3> QED
      BY <3>1 DEF RepliesInv, RunReplies
  <2> QED
    BY <2>1, <2>2, <2>3, <2>4 DEF ChatInv
<1>2. ChatInv /\ [WebRunsNext]_webRunsVars => ChatInv'
  <2>1. ChatInv /\ WebRunsNext => ChatInv'
    BY ChatTypeStep, OneWriterStep, RowsStep, SpokenStep, AskStep, TurnsStep, RepliesStep
       DEF ChatInv
  <2>2. ChatInv /\ UNCHANGED webRunsVars => ChatInv'
    <3> SUFFICES ASSUME ChatInv, UNCHANGED webRunsVars PROVE ChatInv'
      OBVIOUS
    <3> USE DEF webRunsVars, chatStore, chatThreads, chatAsks, chatBounds
    <3>1. ChatType'
      BY DEF ChatInv, ChatType, WebRunsTypeOK
    <3>2. OneWriter' /\ RowsInv'
      BY DEF ChatInv, OneWriter, RowsInv, Writing
    <3>3. SpokenInv' /\ AskInv'
      BY DEF ChatInv, SpokenInv, RunOrder, AskInv, DecisionHonoured
    <3>4. TurnsInv'
      BY DEF ChatInv, TurnsInv, TurnsSeparate, Writing
    <3>5. \A r : /\ RunOrder(r)' = RunOrder(r) /\ Heard(r)' = Heard(r)
                 /\ FirstHeard(r)' <=> FirstHeard(r)
      BY DEF RunOrder, Replies, Heard, FirstHeard
    <3>6. RepliesInv'
      BY <3>5 DEF ChatInv, RepliesInv, RunReplies
    <3> QED
      BY <3>1, <3>2, <3>3, <3>4, <3>6 DEF ChatInv
  <2> QED
    BY <2>1, <2>2
<1> QED
  BY <1>1, <1>2, PTL DEF WebRunsSpec

\* For any conversations, participants, modes and bounds, whatever is sent, cancelled,
\* archived, deleted and restarted, and whichever write breaks: the turns of a transcript are
\* never mixed, the replies of a turn are the first of its order, all of them once it is
\* recorded as completed, and none of a parallel turn before all its speakers have answered.
THEOREM TranscriptsWholeHolds == WebRunsSpec => []TranscriptsWhole
<1>1. ChatInv => TranscriptsWhole
  <2> SUFFICES ASSUME ChatInv PROVE TranscriptsWhole
    OBVIOUS
  <2>1. \A r \in Runs : rows[r] # "none" => r \in 1..sent
    BY WebRunsAssumption DEF ChatInv, ChatType, RowsInv, Runs
  <2>2. ASSUME NEW r \in Runs, r \in 1..sent, mode[chatOf[r]] = "parallel",
               runPc[r] = "running", Heard(r) # {}
        PROVE  \A s \in Range(Roster) : spoken[r][s] \in {"done", "kept", "unkept"}
    <3>1. RunOrder(r) = Roster /\ Range(Roster) \subseteq Speakers
      BY <2>2 DEF RunOrder, Order, Speakers
    <3>2. RunReplies(r) /\ Heard(r) \subseteq Range(Roster)
      BY <2>2, <3>1 DEF ChatInv, RepliesInv, FirstHeard
    <3>3. \E s \in Range(Roster) : spoken[r][s] \in {"kept", "unkept"}
      BY <2>2, <3>1, <3>2 DEF RunReplies
    <3> QED
      BY <2>2, <3>1, <3>2, <3>3 DEF RunReplies
  <2>3. RepliesInOrder
    BY <2>1, <2>2 DEF ChatInv, RepliesInv, RunReplies, RepliesInOrder
  <2> QED
    BY <2>3 DEF ChatInv, ChatType, TurnsInv, TranscriptsWhole
<1> QED
  BY <1>1, ChatInvHolds, PTL

\* For any runs and speakers, and a decision that comes while the run gives up waiting: what
\* a run takes as allowed was approved, and what it takes as refused was not.
THEOREM DecisionHonouredHolds == WebRunsSpec => []DecisionHonoured
<1>1. ChatInv => DecisionHonoured
  BY DEF ChatInv, AskInv
<1> QED
  BY <1>1, ChatInvHolds, PTL

-----------------------------------------------------------------------------
(* WebSchedules: the times a schedule is tried. *)

Times == [Schedules -> Nat]

TicksType ==
    /\ clock \in Nat /\ stops \in Nat
    /\ nextRun \in Times /\ lastError \in [Schedules -> BOOLEAN]
    /\ starts \in [Schedules -> Seq(Nat)]
    /\ ticking \in [open  : BOOLEAN, at : Nat, done : SUBSET Schedules,
                    next  : Times \union {<<>>},
                    error : [Schedules -> BOOLEAN] \union {<<>>}]
    /\ ticking.open => ticking.next \in Times /\ ticking.error \in [Schedules -> BOOLEAN]

\* The tries that came too early.
Early(s) ==
    {i \in DOMAIN starts[s] : i > 1 /\ starts[s][i] < starts[s][i - 1] + Interval}

\* What the last try of a schedule leaves of its interval.
Spaced(s, next) ==
    LET tries == starts[s] IN
    Len(tries) > 0 => tries[Len(tries)] <= clock /\ tries[Len(tries)] + Interval <= next

\* In a tick the file is as it was and a record is as the file or as tried; a failure that
\* keeps the file behind is counted before the schedule is tried again.
TicksInv ==
    /\ ticking.open => ticking.at <= clock
    /\ \A s \in Schedules :
          /\ Cardinality(Early(s)) <= stops
          /\ Len(starts[s]) > 0 => starts[s][Len(starts[s])] <= clock
          /\ ticking.open /\ s \in ticking.done => Spaced(s, ticking.next[s])
          /\ ticking.open /\ s \notin ticking.done => ticking.next[s] = nextRun[s]
          /\ ~ticking.open \/ s \notin ticking.done =>
                Spaced(s, nextRun[s]) \/ Cardinality(Early(s)) < stops

SpacingInv == TicksType /\ TicksInv

LEMMA EarlyFinite ==
    ASSUME TicksType, NEW s \in Schedules
    PROVE  IsFiniteSet(Early(s)) /\ Cardinality(Early(s)) \in Nat
<1>1. Early(s) \subseteq 1..Len(starts[s]) /\ Len(starts[s]) \in Nat
  BY LenProperties DEF Early, TicksType
<1>2. IsFiniteSet(1..Len(starts[s]))
  BY <1>1, FS_Interval
<1> QED
  BY <1>1, <1>2, FS_Subset, FS_CardinalityType

\* One more try is early only if the last one was less than an interval before.
LEMMA EarlyTry ==
    ASSUME TicksType, NEW s \in Schedules, NEW at \in Nat,
           starts' = [starts EXCEPT ![s] = Append(@, at)]
    PROVE  /\ Cardinality(Early(s)') \in Nat
           /\ Cardinality(Early(s)') <= Cardinality(Early(s)) + 1
           /\ (Len(starts[s]) > 0 => starts[s][Len(starts[s])] + Interval <= at)
                  => Cardinality(Early(s)') = Cardinality(Early(s))
           /\ Len(starts'[s]) > 0 /\ starts'[s][Len(starts'[s])] = at
<1> DEFINE old == starts[s]
           new == starts'[s]
           n   == Len(old)
<1>1. /\ old \in Seq(Nat) /\ n \in Nat /\ new = Append(old, at) /\ Interval \in Nat
      /\ DOMAIN old = 1..n /\ DOMAIN new = 1..n + 1 /\ Len(new) = n + 1 /\ new[n + 1] = at
      /\ (\A i \in 1..n : new[i] = old[i] /\ old[i] \in Nat)
  BY AppendProperties, LenProperties, ElementOfSeq, WebSchedulesAssumption DEF TicksType
<1>2. /\ Early(s) = {i \in 1..n : i > 1 /\ old[i] < old[i - 1] + Interval}
      /\ Early(s)' = {i \in 1..n + 1 : i > 1 /\ new[i] < new[i - 1] + Interval}
  BY <1>1 DEF Early
<1> DEFINE E == Early(s)
           F == Early(s)'
<1>3. IsFiniteSet(E) /\ Cardinality(E) \in Nat
  BY EarlyFinite
<1> HIDE DEF old, new, n
<1>4. \A i \in 1..n + 1 : i \in 1..n \/ i = n + 1
  BY <1>1
<1>5. \A i \in 1..n : /\ i \in 1..n + 1 /\ i # n + 1
                      /\ i > 1 => i - 1 \in 1..n /\ new[i] = old[i] /\ new[i - 1] = old[i - 1]
  BY <1>1
<1>6. F \ {n + 1} = E /\ n + 1 \notin E
  <2>1. \A i : i \in F /\ i # n + 1 <=> i \in E
    BY <1>2, <1>4, <1>5
  <2> HIDE DEF E, F
  <2> QED
    BY <2>1, <1>2, <1>5 DEF E
<1>7. n + 1 \in F => n > 0 /\ at < old[n] + Interval
  <2> HIDE DEF E
  <2>1. n + 1 \in F => n + 1 > 1 /\ new[n + 1] < new[(n + 1) - 1] + Interval
    BY <1>2
  <2>2. (n + 1) - 1 = n /\ (n > 0 => n \in 1..n) /\ (n + 1 > 1 => n > 0)
    BY <1>1
  <2> HIDE DEF F
  <2> QED
    BY <1>1, <2>1, <2>2
<1> HIDE DEF E, F
<1>8. CASE n + 1 \in F
  <2>1. F = E \union {n + 1}
    BY <1>6, <1>8
  <2>2. Cardinality(F) = Cardinality(E) + 1
    BY <1>3, <1>6, <2>1, FS_AddElement
  <2>3. ~(n > 0 => old[n] + Interval <= at)
    <3>1. n > 0 /\ n \in 1..n
      BY <1>1, <1>7, <1>8
    <3>2. old[n] \in Nat
      BY <1>1, <3>1
    <3> QED
      BY <1>1, <1>7, <1>8, <3>1, <3>2
  <2> QED
    BY <1>1, <1>3, <2>2, <2>3 DEF E, F, n, old, new
<1>9. CASE n + 1 \notin F
  <2>1. F = E
    BY <1>6, <1>9
  <2> QED
    BY <1>1, <1>3, <2>1 DEF E, F, n, old, new
<1> QED
  BY <1>8, <1>9

LEMMA TicksTypeStep == TicksType /\ WebSchedulesNext => TicksType'
<1> SUFFICES ASSUME TicksType, WebSchedulesNext PROVE TicksType'
  OBVIOUS
<1> USE DEF scheduleFile
<1>i. Interval \in Nat
  BY WebSchedulesAssumption
<1>n. NoTick \in [open : BOOLEAN, at : Nat, done : SUBSET Schedules,
                  next : Times \union {<<>>}, error : [Schedules -> BOOLEAN] \union {<<>>}]
      /\ ~NoTick.open
  BY DEF NoTick
<1>1. CASE MinutePasses
  BY <1>1 DEF MinutePasses, TicksType
<1>2. CASE BeginTick
  BY <1>2 DEF BeginTick, TicksType
<1>3. ASSUME NEW s \in Schedules, TrySchedule(s) PROVE TicksType'
  <2>1. PICK started \in BOOLEAN :
           /\ ticking.open /\ UNCHANGED <<clock, stops, nextRun, lastError>>
           /\ ticking' = [ticking EXCEPT !.done = @ \union {s},
                                         !.next[s] = ticking.at + Interval,
                                         !.error[s] = ~started]
           /\ starts' = [starts EXCEPT ![s] = Append(@, ticking.at)]
    BY <1>3 DEF TrySchedule, NextDue
  <2>2. ticking.at \in Nat /\ ticking.at + Interval \in Nat
    BY <1>i DEF TicksType
  <2>3. starts' \in [Schedules -> Seq(Nat)]
    BY <2>1, <2>2, AppendProperties DEF TicksType
  <2>4. /\ ticking' \in [open : BOOLEAN, at : Nat, done : SUBSET Schedules,
                         next : Times \union {<<>>},
                         error : [Schedules -> BOOLEAN] \union {<<>>}]
        /\ ticking'.next \in Times /\ ticking'.error \in [Schedules -> BOOLEAN]
    BY <2>1, <2>2 DEF TicksType, Times
  <2> QED
    BY <2>1, <2>3, <2>4 DEF TicksType
<1>4. CASE EndTick
  BY <1>4, <1>n DEF EndTick, TickDone, TicksType
<1>5. CASE TickRaises \/ RestartScheduler
  BY <1>5, <1>n DEF TickRaises, RestartScheduler, TicksType
<1>6. ASSUME NEW s \in Schedules, UpdateSchedule(s) PROVE TicksType'
  BY <1>6, <1>i DEF UpdateSchedule, TicksType, Times
<1> QED
  BY <1>1, <1>2, <1>3, <1>4, <1>5, <1>6 DEF WebSchedulesNext, Tick

LEMMA TicksStep == SpacingInv /\ WebSchedulesNext => TicksInv'
<1> SUFFICES ASSUME SpacingInv, WebSchedulesNext PROVE TicksInv'
  OBVIOUS
<1> USE DEF scheduleFile
<1>t. TicksType /\ TicksInv /\ TicksType'
  BY TicksTypeStep DEF SpacingInv
<1>i. Interval \in Nat
  BY WebSchedulesAssumption
<1>c. \A s \in Schedules : Cardinality(Early(s)) \in Nat
  BY <1>t, EarlyFinite
<1>l. \A s \in Schedules : Len(starts[s]) \in Nat
                           /\ (Len(starts[s]) > 0 => starts[s][Len(starts[s])] \in Nat)
  BY <1>t, LenProperties, ElementOfSeq DEF TicksType
<1>n. NoTick.open = FALSE
  BY DEF NoTick
\* Steps that try nothing.
<1>e. ASSUME UNCHANGED starts
      PROVE  \A s \in Schedules : Early(s)' = Early(s)
  BY <1>e DEF Early
<1>1. CASE MinutePasses
  BY <1>1, <1>t, <1>c, <1>l, <1>e DEF MinutePasses, TicksInv, TicksType, Spaced
<1>2. CASE BeginTick
  <2>1. /\ UNCHANGED <<clock, nextRun, starts, stops>> /\ ~ticking.open
        /\ ticking'.open /\ ticking'.at = clock /\ ticking'.done = {} /\ ticking'.next = nextRun
    BY <1>2 DEF BeginTick
  <2> QED
    BY <1>t, <1>e, <2>1 DEF TicksInv, TicksType, Spaced
<1>3. ASSUME NEW s \in Schedules, TrySchedule(s) PROVE TicksInv'
  <2> DEFINE at == ticking.at
  <2>1. /\ UNCHANGED <<clock, nextRun, stops>> /\ ticking.open /\ s \notin ticking.done
        /\ nextRun[s] <= at /\ starts' = [starts EXCEPT ![s] = Append(@, at)]
        /\ ticking'.open /\ ticking'.at = at /\ ticking'.done = ticking.done \union {s}
        /\ ticking'.next = [ticking.next EXCEPT ![s] = at + Interval]
    BY <1>3, <1>t DEF TrySchedule, Due, NextDue, TicksType
  <2>2. at \in Nat /\ at <= clock /\ clock \in Nat /\ stops \in Nat /\ ticking.next \in Times
        /\ nextRun[s] \in Nat /\ starts \in [Schedules -> Seq(Nat)]
    BY <1>t, <2>1 DEF TicksType, TicksInv, Times
  <2>3. PICK a \in Nat : a = at
    BY <2>2
  <2>4. /\ Cardinality(Early(s)') \in Nat
        /\ Cardinality(Early(s)') <= Cardinality(Early(s)) + 1
        /\ (Len(starts[s]) > 0 => starts[s][Len(starts[s])] + Interval <= at)
               => Cardinality(Early(s)') = Cardinality(Early(s))
        /\ Len(starts'[s]) > 0 /\ starts'[s][Len(starts'[s])] = at
    BY <1>t, <2>1, <2>3, EarlyTry
  <2> HIDE DEF at
  <2>6. Cardinality(Early(s)') <= stops
    <3>1. Spaced(s, nextRun[s]) \/ Cardinality(Early(s)) < stops
      BY <1>t, <2>1 DEF TicksInv
    <3>2. CASE Cardinality(Early(s)) < stops
      BY <1>c, <2>2, <2>4, <3>2
    <3>3. CASE Spaced(s, nextRun[s])
      <4>1. Len(starts[s]) > 0 => starts[s][Len(starts[s])] + Interval <= at
        BY <1>i, <1>l, <2>1, <2>2, <3>3 DEF Spaced
      <4>2. Cardinality(Early(s)) <= stops
        BY <1>t DEF TicksInv
      <4> QED
        BY <2>4, <4>1, <4>2
    <3> QED
      BY <3>1, <3>2, <3>3
  <2>7. Spaced(s, ticking.next[s])'
    <3>1. ticking'.next[s] = at + Interval
      BY <2>1, <2>2 DEF Times
    <3> QED
      BY <1>i, <2>1, <2>2, <2>4, <3>1 DEF Spaced
  <2>8. ASSUME NEW q \in Schedules, q # s
        PROVE  /\ Early(q)' = Early(q) /\ starts'[q] = starts[q]
               /\ ticking'.next[q] = ticking.next[q]
    <3>1. starts'[q] = starts[q]
      BY <2>1, <2>2, <2>8
    <3> QED
      BY <2>1, <2>2, <2>8, <3>1 DEF Early, Times
  <2> QED
    BY <1>t, <2>1, <2>2, <2>4, <2>6, <2>7, <2>8 DEF TicksInv, Spaced
<1>4. CASE EndTick
  <2>1. /\ UNCHANGED <<clock, starts, stops>> /\ ticking.open /\ nextRun' = ticking.next
        /\ ~ticking'.open
    BY <1>4, <1>n DEF EndTick, TickDone
  <2> QED
    BY <1>t, <1>e, <2>1 DEF TicksInv, Spaced
<1>5. CASE TickRaises \/ RestartScheduler
  <2>1. /\ UNCHANGED <<clock, starts, nextRun>> /\ stops' = stops + 1 /\ ~ticking'.open
    BY <1>5, <1>n DEF TickRaises, RestartScheduler
  <2>2. stops \in Nat
    BY <1>t DEF TicksType
  <2>3. \A s \in Schedules : Cardinality(Early(s)') < stops' /\ Cardinality(Early(s)') <= stops'
    BY <1>t, <1>c, <1>e, <2>1, <2>2 DEF TicksInv
  <2> QED
    BY <1>t, <2>1, <2>3 DEF TicksInv
<1>6. ASSUME NEW s \in Schedules, UpdateSchedule(s) PROVE TicksInv'
  <2>1. /\ UNCHANGED <<clock, starts, stops, ticking>> /\ ~ticking.open
        /\ nextRun' = [nextRun EXCEPT ![s] = IF enabled[s] THEN @ ELSE clock + Interval]
    BY <1>6 DEF UpdateSchedule
  <2>2. \A q \in Schedules : nextRun'[q] = nextRun[q] \/ nextRun'[q] = clock + Interval
    BY <1>t, <2>1 DEF TicksType, Times
  <2>3. \A q \in Schedules : Spaced(q, clock + Interval)
    <3> SUFFICES ASSUME NEW q \in Schedules, Len(starts[q]) > 0
                 PROVE  /\ starts[q][Len(starts[q])] <= clock
                        /\ starts[q][Len(starts[q])] + Interval <= clock + Interval
      BY DEF Spaced
    <3>1. starts[q][Len(starts[q])] \in Nat /\ clock \in Nat
      BY <1>l, <1>t DEF TicksType
    <3>2. starts[q][Len(starts[q])] <= clock
      BY <1>t DEF TicksInv
    <3> QED
      BY <1>i, <3>1, <3>2
  <2> QED
    BY <1>t, <1>e, <2>1, <2>2, <2>3 DEF TicksInv, Spaced
<1> QED
  BY <1>1, <1>2, <1>3, <1>4, <1>5, <1>6 DEF WebSchedulesNext, Tick

\* For any schedules, intervals and times: a schedule is tried early at most as often as the
\* server or the write of a tick failed.
THEOREM ScheduleSpacingHolds == WebSchedulesSpec => []ScheduleSpacing
<1>1. WebSchedulesInit => SpacingInv
  <2> SUFFICES ASSUME WebSchedulesInit PROVE SpacingInv
    OBVIOUS
  <2>1. TicksType
    BY WebSchedulesAssumption DEF WebSchedulesInit, TicksType, NoTick, Times
  <2>2. \A s \in Schedules : Len(starts[s]) = 0 /\ DOMAIN starts[s] = {}
    BY DEF WebSchedulesInit
  <2>3. \A s \in Schedules : Cardinality(Early(s)) = 0
    <3>1. \A s \in Schedules : Early(s) = {}
      BY <2>2 DEF Early
    <3> QED
      BY <3>1, FS_EmptySet
  <2>4. stops = 0 /\ ~ticking.open
    BY DEF WebSchedulesInit, NoTick
  <2> QED
    BY <2>1, <2>2, <2>3, <2>4 DEF SpacingInv, TicksInv, Spaced
<1>2. SpacingInv /\ [WebSchedulesNext]_webSchedulesVars => SpacingInv'
  <2>1. SpacingInv /\ WebSchedulesNext => SpacingInv'
    BY TicksTypeStep, TicksStep DEF SpacingInv
  <2>2. SpacingInv /\ UNCHANGED webSchedulesVars => SpacingInv'
    BY DEF webSchedulesVars, scheduleFile, SpacingInv, TicksType, TicksInv, Spaced, Early
  <2> QED
    BY <2>1, <2>2
<1>3. SpacingInv => ScheduleSpacing
  BY DEF SpacingInv, TicksInv, Early, ScheduleSpacing
<1> QED
  BY <1>1, <1>2, <1>3, PTL DEF WebSchedulesSpec

-----------------------------------------------------------------------------
(* WebAccess: the sign-in. *)

CallbackLabels == {"none", "exchanging", "in", "refused"}

\* A callback that took its sign-in.
Granted(c) == callback[c] \in {"exchanging", "in"}

SignInType ==
    /\ begun \in 0..MaxLogins
    /\ pending \subseteq [login : 1..begun, at : Int]
    /\ callback \in [Callbacks -> CallbackLabels]
    /\ seconds \in Int

\* A sign-in is taken once, after it was begun, and is not pending any more.
TakenInv ==
    /\ \A c \in Callbacks : Granted(c) => c[1] <= begun /\ \A p \in pending : p.login # c[1]
    /\ \A c, d \in Callbacks : Granted(c) /\ Granted(d) /\ c[1] = d[1] => c = d

SignInInv == SignInType /\ TakenInv

LEMMA SignInStep == SignInInv /\ WebAccessNext => SignInInv'
<1> SUFFICES ASSUME SignInInv, WebAccessNext PROVE SignInInv'
  OBVIOUS
<1>t. SignInType /\ TakenInv
  BY DEF SignInInv
<1>a. MaxLogins \in Nat /\ \A c \in Callbacks : c[1] \in Logins
  BY WebAccessAssumption DEF Callbacks
<1>1. CASE BeginLogin
  <2> DEFINE new == [login |-> begun + 1, at |-> seconds]
  <2>1. /\ begun' = begun + 1 /\ begun < MaxLogins /\ begun \in Nat
        /\ UNCHANGED <<callback, seconds>>
        /\ \A p \in pending' : p \in pending \/ p = new
    BY <1>1, <1>t DEF BeginLogin, SignInType
  <2>2. begun' \in 0..MaxLogins /\ \A l \in 1..begun : l \in 1..begun' /\ l <= begun'
    BY <1>a, <2>1
  <2>3. new \in [login : 1..begun', at : Int] /\ new.login = begun + 1
    BY <1>t, <2>1 DEF SignInType
  <2>4. \A c \in Callbacks : Granted(c) => c[1] # begun + 1 /\ c[1] <= begun + 1
    BY <1>a, <1>t, <2>1 DEF TakenInv, Logins
  <2> HIDE DEF new
  <2>5. SignInType'
    BY <1>t, <2>1, <2>2, <2>3 DEF SignInType
  <2>6. TakenInv'
    BY <1>t, <2>1, <2>3, <2>4 DEF TakenInv, Granted
  <2> QED
    BY <2>5, <2>6 DEF SignInInv
<1>2. ASSUME NEW c \in Callbacks, ReceiveCallback(c) PROVE SignInInv'
  <2>1. /\ UNCHANGED <<begun, seconds>> /\ c[1] <= begun
        /\ pending' = {p \in pending : p.login # c[1]}
        /\ callback' = [callback EXCEPT ![c] = IF Awaited(c) THEN "exchanging" ELSE "refused"]
    BY <1>2 DEF ReceiveCallback, TakeLogin
  <2>2. SignInType'
    BY <1>t, <2>1 DEF SignInType, CallbackLabels
  <2>3. \A d \in Callbacks : Granted(d)' => Granted(d) \/ (d = c /\ Awaited(c))
    BY <1>t, <2>1 DEF Granted, SignInType
  <2>4. Awaited(c) => \A d \in Callbacks : Granted(d) => d[1] # c[1]
    BY <1>t DEF Awaited, TakenInv
  <2>5. TakenInv'
    BY <1>t, <2>1, <2>3, <2>4 DEF TakenInv
  <2> QED
    BY <2>2, <2>5 DEF SignInInv
<1>3. ASSUME NEW c \in Callbacks, FinishLogin(c) PROVE SignInInv'
  <2>1. /\ UNCHANGED <<begun, seconds, pending>> /\ callback[c] = "exchanging"
        /\ \E l \in {"in", "refused"} : callback' = [callback EXCEPT ![c] = l]
    BY <1>3 DEF FinishLogin
  <2>2. \A d \in Callbacks : Granted(d)' => Granted(d)
    BY <1>t, <2>1 DEF Granted, SignInType
  <2>3. SignInType'
    BY <1>t, <2>1 DEF SignInType, CallbackLabels
  <2>4. TakenInv'
    BY <1>t, <2>1, <2>2 DEF TakenInv
  <2> QED
    BY <2>3, <2>4 DEF SignInInv
<1>4. CASE UNCHANGED <<begun, pending, callback>> /\ seconds' \in Int
  BY <1>t, <1>4 DEF SignInInv, SignInType, TakenInv, Granted
<1>5. CASE SecondPasses \/ Logout \/ MeetExpired
  BY <1>4, <1>5, <1>t DEF SecondPasses, Logout, MeetExpired, signIns, SignInType
<1>6. ASSUME NEW s \in Subjects, Authorise(s) \/ Handle(s) PROVE SignInInv'
  BY <1>4, <1>6, <1>t DEF Authorise, Handle, signIns, SignInType
<1> QED
  BY <1>1, <1>2, <1>3, <1>5, <1>6 DEF WebAccessNext

\* For any sign-ins, caps and times: a callback that is sent twice, or whose sign-in was
\* forgotten or is too old, makes no second session.
THEOREM SignInOnceHolds == WebAccessSpec => []SignInOnce
<1>1. WebAccessInit => SignInInv
  BY WebAccessAssumption DEF WebAccessInit, SignInInv, SignInType, TakenInv, Granted,
     CallbackLabels
<1>2. SignInInv /\ [WebAccessNext]_webAccessVars => SignInInv'
  <2>1. SignInInv /\ UNCHANGED webAccessVars => SignInInv'
    BY DEF webAccessVars, signIns, SignInInv, SignInType, TakenInv, Granted
  <2> QED
    BY <2>1, SignInStep
<1>3. SignInInv => SignInOnce
  <2> SUFFICES ASSUME SignInInv PROVE SignInOnce
    OBVIOUS
  <2>t. TakenInv
    BY DEF SignInInv
  <2>1. \A l \in Logins, k \in {1, 2} :
           <<l, k>> \in Callbacks /\ <<l, k>>[1] = l /\ <<l, k>>[2] = k
    BY DEF Callbacks
  <2>2. ASSUME NEW l \in Logins
        PROVE  Cardinality({k \in {1, 2} : callback[<<l, k>>] \in {"exchanging", "in"}}) <= 1
    <3> DEFINE T == {k \in {1, 2} : callback[<<l, k>>] \in {"exchanging", "in"}}
    <3>1. \A j, k \in T : j = k
      <4> SUFFICES ASSUME NEW j \in T, NEW k \in T PROVE j = k
        OBVIOUS
      <4>1. Granted(<<l, j>>) /\ Granted(<<l, k>>)
        BY DEF Granted
      <4>2. <<l, j>> = <<l, k>>
        BY <2>1, <2>t, <4>1 DEF TakenInv
      <4> QED
        BY <2>1, <4>2
    <3> HIDE DEF T
    <3>2. T = {} \/ \E k : T = {k}
      BY <3>1
    <3>3. Cardinality(T) = 0 \/ Cardinality(T) = 1
      BY <3>2, FS_EmptySet, FS_Singleton
    <3>4. Cardinality(T) <= 1
      BY <3>3
    <3> QED
      BY <3>4 DEF T
  <2>3. \A l \in Logins : (\E p \in pending : p.login = l)
           => \A k \in {1, 2} : callback[<<l, k>>] \notin {"exchanging", "in"}
    <3> SUFFICES ASSUME NEW l \in Logins, NEW p \in pending, p.login = l, NEW k \in {1, 2},
                        callback[<<l, k>>] \in {"exchanging", "in"}
                 PROVE  FALSE
      OBVIOUS
    <3>1. Granted(<<l, k>>)
      BY DEF Granted
    <3> QED
      BY <2>1, <2>t, <3>1 DEF TakenInv
  <2> QED
    BY <2>2, <2>3 DEF SignInOnce
<1> QED
  BY <1>1, <1>2, <1>3, PTL DEF WebAccessSpec
=============================================================================
