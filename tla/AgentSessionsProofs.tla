--------------------------- MODULE AgentSessionsProofs -------------------------
(***************************************************************************)
(* Proofs about AgentSessions, for any number of runs, sessions, messages  *)
(* and profiles and any limits: type correctness, that a run executes no   *)
(* more calls than its budget, that a message is acknowledged only after a *)
(* saved record named it, that delegation only narrows, that records keep  *)
(* what was said and reports answer the calls of their step.               *)
(***************************************************************************)
EXTENDS AgentSessions, SequenceTheorems, FiniteSetTheorems, WellFoundedInduction, TLAPS

Labels ==
    {"idle", "deliver", "mark", "prompt", "tools", "model", "save", "consume"} \union Ended

Shape ==
    /\ grant = [r \in Runs |-> grant[r]]
    /\ TypeOK

\* A run waits for a subagent only inside a call.
WaitInv ==
    \A r \in Runs : child[r] # None => pc[r] = "tools" /\ Len(ran[r]) < Len(batch[r])

\* Between two batches everything counted was executed.
BetweenBatches == {"idle", "deliver", "mark", "prompt", "model"}

BudgetInv ==
    \A r \in Runs :
        /\ pc[r] \in BetweenBatches => executed[r] = counted[r] /\ counted[r] <= MaxToolCalls
        /\ pc[r] = "tools" =>
              /\ executed[r] + Len(batch[r]) = counted[r] + Len(ran[r])
              /\ counted[r] <= MaxToolCalls
        /\ executed[r] <= MaxToolCalls

\* A run acknowledges what the record it saved names.
MailInv ==
    /\ ConsumedWasNamed
    /\ \A r \in Runs : pc[r] = "consume" => inbound[r] \subseteq settled

IInv == Shape /\ WaitInv /\ BudgetInv /\ MailInv

-----------------------------------------------------------------------------
(* Histories. *)

LEMMA DroppedText == Dropped \in Texts
BY DEF Dropped, Texts

LEMMA TurnTexts ==
    ASSUME NEW r \in Runs \union {Past}, NEW b \in BOOLEAN
    PROVE  Turn(r, b) \in Seq(Texts)
<1>1. [role |-> "user", of |-> r] \in Texts /\ [role |-> "assistant", of |-> r] \in Texts
  BY DEF Texts
<1>2. <<[role |-> "user", of |-> r]>> \in Seq(Texts) /\ <<[role |-> "assistant", of |-> r]>> \in Seq(Texts)
      /\ <<>> \in Seq(Texts)
  BY <1>1
<1> QED
  BY <1>2, ConcatProperties, Zenon DEF Turn

LEMMA NoHistoryTexts == NoHistory \in Histories
BY DEF NoHistory, Histories

LEMMA SliceTexts ==
    ASSUME NEW s \in Seq(Texts), NEW i \in Nat \ {0}, NEW j \in Nat, j <= Len(s)
    PROVE  SubSeq(s, i, j) \in Seq(Texts)
<1>1. \A k \in i..j : s[k] \in Texts
  OBVIOUS
<1> QED
  BY <1>1, SubSeqProperties

\* The least element that Compact chooses exists.
LEMMA LeastExists ==
    ASSUME NEW T \in SUBSET Nat, T # {}
    PROVE  \E k \in T : \A j \in T : k <= j
<1> DEFINE less == OpToRel(<, Nat)
<1>1. less = {ss \in Nat \X Nat : ss[1] < ss[2]}
  BY DEF OpToRel
<1>2. IsWellFoundedOn(less, Nat)
  BY NatLessThanWellFounded
<1> HIDE DEF less
<1>3. PICK k \in T : \A j \in T : ~(<<j, k>> \in less)
  BY <1>2, WFMin
<1>4. ASSUME NEW j \in T
      PROVE  k <= j
  <2> DEFINE pair == <<j, k>>
  <2>1. pair \in Nat \X Nat /\ pair[1] = j /\ pair[2] = k
    OBVIOUS
  <2>2. ~(pair \in less)
    BY <1>3
  <2> HIDE DEF pair
  <2>3. ~(pair[1] < pair[2])
    BY <1>1, <2>1, <2>2
  <2> QED
    BY <2>1, <2>3
<1> QED
  BY <1>4

\* Compaction cuts a history before its recent turns.
LEMMA CompactCut ==
    ASSUME NEW h \in Histories
    PROVE  \E cut \in 0..Len(h.messages) :
              /\ cut <= RecentStart(h.messages)
              /\ Compact(h) = [messages |-> SubSeq(h.messages, cut + 1, Len(h.messages)),
                               summary  |-> Bounded(h.summary \o SubSeq(h.messages, 1, cut))]
<1> DEFINE msgs == h.messages
           fits == {k \in Cuts(msgs) : Tokens(msgs, h.summary, k) <= MaxHistory}
           last == CHOOSE k \in Cuts(msgs) : \A j \in Cuts(msgs) : j <= k
           least == CHOOSE k \in fits : \A j \in fits : k <= j
           cut == IF fits = {} THEN last ELSE least
<1>1. msgs \in Seq(Texts) /\ h.summary \in Seq(Texts) /\ Len(msgs) \in Nat
  BY DEF Histories
<1>2. RecentStart(msgs) \in 0..Len(msgs)
  <2> DEFINE asked == {i \in 1..Len(msgs) : msgs[i].role = "user"
                          /\ Cardinality({j \in i..Len(msgs) : msgs[j].role = "user"}) = KeepRecent}
             i0 == CHOOSE i \in asked : TRUE
  <2>1. asked # {} => i0 \in 1..Len(msgs)
    OBVIOUS
  <2>2. RecentStart(msgs) = IF asked = {} THEN 0 ELSE i0 - 1
    BY DEF RecentStart
  <2> HIDE DEF asked, i0
  <2> QED
    BY <1>1, <2>1, <2>2
<1>3. Cuts(msgs) \subseteq 0..Len(msgs) /\ RecentStart(msgs) \in Cuts(msgs)
      /\ \A j \in Cuts(msgs) : j <= RecentStart(msgs)
  BY <1>1, <1>2 DEF Cuts
<1>4. last \in Cuts(msgs)
  BY <1>3
<1>5. fits # {} => least \in fits
  <2>1. fits \subseteq Nat
    BY <1>1, <1>3
  <2>2. fits # {} => \E k \in fits : \A j \in fits : k <= j
    BY <2>1, LeastExists
  <2> HIDE DEF fits
  <2> QED
    BY <2>2
<1>6. cut \in 0..Len(msgs) /\ cut <= RecentStart(msgs)
  BY <1>3, <1>4, <1>5
<1>7. Compact(h) = [messages |-> SubSeq(msgs, cut + 1, Len(msgs)),
                    summary  |-> Bounded(h.summary \o SubSeq(msgs, 1, cut))]
  BY DEF Compact
<1> HIDE DEF cut
<1> QED
  BY <1>6, <1>7

\* It leaves a history, whatever it is given.
LEMMA CompactTexts ==
    ASSUME NEW h \in Histories
    PROVE  Compact(h) \in Histories
<1> DEFINE msgs == h.messages
<1>1. msgs \in Seq(Texts) /\ h.summary \in Seq(Texts) /\ Len(msgs) \in Nat
  BY DEF Histories
<1>2. PICK cut \in 0..Len(msgs) :
          Compact(h) = [messages |-> SubSeq(msgs, cut + 1, Len(msgs)),
                        summary  |-> Bounded(h.summary \o SubSeq(msgs, 1, cut))]
  BY CompactCut
<1> DEFINE lines == h.summary \o SubSeq(msgs, 1, cut)
<1> HIDE DEF msgs
<1>8. SubSeq(msgs, cut + 1, Len(msgs)) \in Seq(Texts) /\ SubSeq(msgs, 1, cut) \in Seq(Texts)
  BY <1>1, SliceTexts
<1>9. lines \in Seq(Texts)
  BY <1>1, <1>8, ConcatProperties
<1> HIDE DEF lines
<1>10. Bounded(lines) \in Seq(Texts)
  <2>1. CASE Len(lines) <= MaxSummary
    BY <1>9, <2>1 DEF Bounded
  <2>2. CASE ~(Len(lines) <= MaxSummary)
    <3> DEFINE kept == SubSeq(lines, Len(lines) - MaxSummary + 1, Len(lines))
    <3>1. Len(lines) \in Nat /\ Len(lines) - MaxSummary + 1 \in Nat \ {0}
      BY <1>9, <2>2, AgentAssumption
    <3>2. kept \in Seq(Texts)
      BY <1>9, <3>1, SliceTexts
    <3>3. <<Dropped>> \in Seq(Texts)
      BY DroppedText
    <3>4. Bounded(lines) = <<Dropped>> \o kept
      BY <2>2 DEF Bounded
    <3> HIDE DEF kept
    <3> QED
      BY <3>2, <3>3, <3>4, ConcatProperties
  <2> QED
    BY <2>1, <2>2
<1> QED
  BY <1>2, <1>8, <1>10 DEF Histories, lines

-----------------------------------------------------------------------------
(* Calls. *)

LEMMA RequestedCalls ==
    ASSUME NEW a \in Asks
    PROVE  Requested(a) \in Seq(Calls)
<1> DEFINE n == [i \in DOMAIN a.natives |-> Native(a.natives[i])]
           d == [i \in DOMAIN a.directives |-> Directive(a.directives[i])]
<1>1. a.natives \in Seq(Kinds) /\ a.directives \in Seq(Kinds)
  BY AgentAssumption
<1>2. n \in Seq(Calls)
  <2>1. \A i \in 1..Len(a.natives) : Native(a.natives[i]) \in Calls
    BY <1>1 DEF Native, Calls
  <2> QED
    BY <1>1, <2>1, IsASeq
<1>3. d \in Seq(Calls)
  <2>1. \A i \in 1..Len(a.directives) : Directive(a.directives[i]) \in Calls
    BY <1>1 DEF Directive, Calls
  <2> QED
    BY <1>1, <2>1, IsASeq
<1>4. Requested(a) = n \o d
  BY DEF Requested, InOrder
<1> HIDE DEF n, d
<1> QED
  BY <1>2, <1>3, <1>4, ConcatProperties

-----------------------------------------------------------------------------
(* The variables keep their shape. *)

\* What a caller, a subagent or a resumed session starts with.
LEMMA EnterShape ==
    ASSUME Shape, NEW r \in Runs, NEW label \in {"deliver", "prompt"}, NEW s \in Sessions,
           NEW h \in Histories, NEW g, g.tools \subseteq Kinds, g.depth \in Nat,
           NEW depth \in Nat, NEW caller \in Runs \union {None},
           Enter(r, label, s, h, g, depth, caller)
    PROVE  /\ pc' \in [Runs -> Labels]
           /\ sess' \in [Runs -> Sessions \union {None}]
           /\ prior' \in [Runs -> Histories]
           /\ grant' = [q \in Runs |-> grant'[q]]
           /\ \A q \in Runs : grant'[q].tools \subseteq Kinds /\ grant'[q].depth \in Nat
           /\ level' \in [Runs -> Nat]
           /\ parent' \in [Runs -> Runs \union {None}]
<1>1. /\ pc' = [pc EXCEPT ![r] = label] /\ sess' = [sess EXCEPT ![r] = s]
      /\ prior' = [prior EXCEPT ![r] = h] /\ grant' = [grant EXCEPT ![r] = g]
      /\ level' = [level EXCEPT ![r] = depth] /\ parent' = [parent EXCEPT ![r] = caller]
  BY DEF Enter, Goto
<1>2. grant' = [q \in Runs |-> IF q = r THEN g ELSE grant[q]]
  BY <1>1 DEF Shape
<1>3. pc' \in [Runs -> Labels]
  BY <1>1 DEF Shape, TypeOK, Labels
<1> QED
  BY <1>1, <1>2, <1>3 DEF Shape, TypeOK

LEMMA LeaveShape ==
    ASSUME Shape, NEW gone, NEW how \in Ended, Leave(gone, how)
    PROVE  Shape'
<1>1. NoHistory \in Histories
  BY NoHistoryTexts
<1>2. <<>> \in Seq(Calls) /\ <<>> \in Seq([call : Calls, ok : BOOLEAN])
  OBVIOUS
<1>3. 0 \in 0..MaxSteps
  BY AgentAssumption
<1>4. Len(<<>>) <= Len(<<>>)
  OBVIOUS
<1> QED
  BY <1>1, <1>2, <1>3, <1>4 DEF Shape, TypeOK, Leave, Left, NoGrant, store, mailbox

LEMMA AdmitShape ==
    ASSUME Shape, NEW r \in Runs, NEW calls \in Seq(Calls), Admit(r, calls)
    PROVE  /\ pc' \in [Runs -> Labels]
           /\ counted' \in [Runs -> Nat]
           /\ batch' \in [Runs -> Seq(Calls)]
           /\ ran' \in [Runs -> Seq([call : Calls, ok : BOOLEAN])]
           /\ \A q \in Runs : Len(ran'[q]) <= Len(batch'[q])
<1>1. <<>> \in Seq(Calls) /\ <<>> \in Seq([call : Calls, ok : BOOLEAN]) /\ Len(<<>>) = 0
  OBVIOUS
<1>2. Len(calls) \in Nat
  OBVIOUS
<1>3. counted' \in [Runs -> Nat]
  BY <1>2 DEF Admit, Shape, TypeOK
<1>4. ran' = [ran EXCEPT ![r] = <<>>]
  BY DEF Admit
<1>5. ran' \in [Runs -> Seq([call : Calls, ok : BOOLEAN])]
  BY <1>1, <1>4 DEF Shape, TypeOK
<1>6. PICK b \in {calls, <<>>}, label \in {"tools", "save"} :
          batch' = [batch EXCEPT ![r] = b] /\ pc' = [pc EXCEPT ![r] = label]
  BY DEF Admit, Goto
<1>7. b \in Seq(Calls) /\ Len(b) \in Nat
  BY <1>1, <1>2
<1>8. batch' \in [Runs -> Seq(Calls)]
  BY <1>6, <1>7 DEF Shape, TypeOK
<1>9. pc' \in [Runs -> Labels]
  BY <1>6 DEF Shape, TypeOK, Labels
<1>10. \A q \in Runs : Len(ran'[q]) <= Len(batch'[q])
  BY <1>1, <1>4, <1>6, <1>7 DEF Shape, TypeOK
<1> QED
  BY <1>3, <1>5, <1>8, <1>9, <1>10

LEMMA ExecutedShape ==
    ASSUME Shape, NEW r \in Runs, NEW isOk \in BOOLEAN, Len(ran[r]) < Len(batch[r]),
           Executed(r, isOk)
    PROVE  /\ ran' \in [Runs -> Seq([call : Calls, ok : BOOLEAN])]
           /\ executed' \in [Runs -> Nat]
           /\ Len(ran'[r]) = Len(ran[r]) + 1
           /\ \A q \in Runs : Len(ran'[q]) <= Len(batch[q])
<1> DEFINE Results == [call : Calls, ok : BOOLEAN]
           result == [call |-> Current(r), ok |-> isOk]
<1>1. /\ ran \in [Runs -> Seq(Results)] /\ batch[r] \in Seq(Calls)
      /\ executed \in [Runs -> Nat]
      /\ \A q \in Runs : Len(ran[q]) <= Len(batch[q])
  BY DEF Shape, TypeOK
<1>2. Current(r) \in Calls
  BY <1>1 DEF Current
<1>3. result \in Results
  BY <1>2
<1>4. ran' = [ran EXCEPT ![r] = Append(ran[r], result)]
      /\ executed' = [executed EXCEPT ![r] = executed[r] + 1]
  BY DEF Executed
<1> HIDE DEF result, Results
<1> DEFINE now == Append(ran[r], result)
<1>5. now \in Seq(Results) /\ Len(now) = Len(ran[r]) + 1 /\ Len(ran[r]) \in Nat
  BY <1>1, <1>3
<1> HIDE DEF now
<1>6. ran' = [ran EXCEPT ![r] = now]
  BY <1>4 DEF now
<1>7. ran' \in [Runs -> Seq(Results)] /\ executed' \in [Runs -> Nat]
  BY <1>1, <1>4, <1>5, <1>6
<1>8. Len(batch[r]) \in Nat
  BY <1>1
<1>9. Len(ran'[r]) = Len(ran[r]) + 1 /\ \A q \in Runs : Len(ran'[q]) <= Len(batch[q])
  BY <1>1, <1>5, <1>6, <1>8
<1> QED
  BY <1>7, <1>9 DEF Results

LEMMA FreshSession ==
    ASSUME \E s \in Sessions : Fresh(s)
    PROVE  NewSession \in Sessions
BY DEF NewSession

LEMMA DepositShape ==
    ASSUME Shape, NEW m \in Messages, NEW s \in Sessions, Deposit(m, s)
    PROVE  /\ mail' \in [Messages -> {"unsent", "queued", "delivered", "acknowledged"}]
           /\ addressee' \in [Messages -> Sessions \union {None}]
BY DEF Deposit, Shape, TypeOK

LEMMA ShapePreserved ==
    ASSUME Shape, WaitInv, [Next]_vars
    PROVE  Shape'
<1> USE DEF store, mailbox, setup, loop
<1>1. ASSUME NEW r \in Runs, Start(r)
      PROVE  Shape'
  <2>1. PICK p \in Profiles : Begin(r, p) \/ \E s \in Sessions : Resume(r, s, p)
    BY <1>1 DEF Start
  <2>2. p.tools \subseteq Kinds /\ p.depth \in Nat /\ 0 \in Nat
    BY AgentAssumption
  <2>3. CASE Begin(r, p)
    <3>1. NewSession \in Sessions /\ NoHistory \in Histories
      BY <2>3, FreshSession, NoHistoryTexts DEF Begin
    <3> QED
      BY <2>2, <2>3, <3>1, EnterShape DEF Begin, Shape, TypeOK, Labels
  <2>4. ASSUME NEW s \in Sessions, Resume(r, s, p)
        PROVE  Shape'
    <3>1. Compact(record[s]) \in Histories
      BY <2>4, CompactTexts DEF Resume, Shape, TypeOK
    <3> QED
      BY <2>2, <2>4, <3>1, EnterShape DEF Resume, Shape, TypeOK, Labels
  <2> QED
    BY <2>1, <2>3, <2>4
<1>2. ASSUME NEW r \in Runs, Collect(r) \/ Mark(r) \/ Consume(r)
      PROVE  Shape'
  <2>1. CASE Collect(r)
    BY <2>1 DEF Collect, Outstanding, Goto, Shape, TypeOK
  <2>2. CASE Mark(r)
    BY <2>2 DEF Mark, Goto, Shape, TypeOK
  <2>3. CASE Consume(r)
    BY <2>3 DEF Consume, Shape, TypeOK
  <2> QED
    BY <1>2, <2>1, <2>2, <2>3
<1>3. ASSUME NEW r \in Runs, Prompt(r)
      PROVE  Shape'
  <2>1. <<>> \in Seq(Calls)
    OBVIOUS
  <2>2. PICK calls \in Seq(Calls) : Admit(r, calls)
    BY <1>3, <2>1, RequestedCalls DEF Prompt
  <2> QED
    BY <1>3, <2>2, AdmitShape DEF Prompt, Shape, TypeOK, Labels
<1>4. ASSUME NEW r \in Runs, OutOfSteps(r)
      PROVE  Shape'
  BY <1>4 DEF OutOfSteps, Goto, Shape, TypeOK
<1>5. ASSUME NEW r \in Runs, MoreSteps(r), steps' = [steps EXCEPT ![r] = @ + 1]
      PROVE  steps' \in [Runs -> 0..MaxSteps]
  <2>1. steps \in [Runs -> 0..MaxSteps] /\ MaxSteps \in Nat
    BY AgentAssumption DEF Shape, TypeOK
  <2>2. steps[r] + 1 \in 0..MaxSteps
    BY <1>5, <2>1 DEF MoreSteps
  <2> QED
    BY <1>5, <2>1, <2>2
<1>6. ASSUME NEW r \in Runs, Finish(r)
      PROVE  Shape'
  <2>1. steps' \in [Runs -> 0..MaxSteps]
    BY <1>5, <1>6 DEF Finish, Asked
  <2> QED
    BY <1>6, <2>1 DEF Finish, Goto, Shape, TypeOK
<1>7. ASSUME NEW r \in Runs, Malformed(r)
      PROVE  Shape'
  <2>1. steps' \in [Runs -> 0..MaxSteps]
    BY <1>5, <1>7 DEF Malformed
  <2> QED
    BY <1>7, <2>1 DEF Malformed, Shape, TypeOK
<1>8. ASSUME NEW r \in Runs, Reply(r)
      PROVE  Shape'
  <2>1. steps' \in [Runs -> 0..MaxSteps]
    BY <1>5, <1>8 DEF Reply, Asked
  <2>2. PICK calls \in Seq(Calls) : Admit(r, calls)
    BY <1>8, RequestedCalls DEF Reply
  <2> QED
    BY <1>8, <2>1, <2>2, AdmitShape DEF Reply, Shape, TypeOK, Labels
<1>9. ASSUME NEW r \in Runs, EndStep(r)
      PROVE  Shape'
  BY <1>9 DEF EndStep, Goto, Shape, TypeOK
<1>10. ASSUME NEW r \in Runs, Refuse(r) \/ Work(r)
       PROVE  Shape'
  <2>1. PICK isOk \in BOOLEAN : Executed(r, isOk)
    BY <1>10 DEF Refuse, Work
  <2>2. Len(ran[r]) < Len(batch[r])
    BY <1>10 DEF Refuse, Work, Allowed, Executing
  <2> QED
    BY <1>10, <2>1, <2>2, ExecutedShape DEF Refuse, Work, Shape, TypeOK
<1>11. ASSUME NEW r \in Runs, Return(r)
       PROVE  Shape'
  <2>1. PICK isOk \in BOOLEAN : Executed(r, isOk)
    BY <1>11 DEF Return
  <2>2. Len(ran[r]) < Len(batch[r])
    BY <1>11 DEF Return, WaitInv
  <2> QED
    BY <1>11, <2>1, <2>2, ExecutedShape DEF Return, Shape, TypeOK
<1>12. ASSUME NEW r \in Runs, NEW m \in Messages, NEW s \in Sessions, SendMessage(r, m, s)
       PROVE  Shape'
  <2>1. Len(ran[r]) < Len(batch[r]) /\ Executed(r, TRUE) /\ Deposit(m, s)
    BY <1>12 DEF SendMessage, Allowed, Executing
  <2> QED
    BY <1>12, <2>1, ExecutedShape, DepositShape DEF SendMessage, Shape, TypeOK
<1>13. ASSUME NEW r \in Runs, NEW c \in Runs, NEW p \in Profiles, Delegate(r, c, p)
       PROVE  Shape'
  <2>1. NewSession \in Sessions /\ NoHistory \in Histories
    BY <1>13, FreshSession, NoHistoryTexts DEF Delegate
  <2>2. Narrowed(r, p).tools \subseteq Kinds /\ Narrowed(r, p).depth \in Nat
    BY AgentAssumption DEF Narrowed, Shape, TypeOK
  <2>3. level[r] + 1 \in Nat
    BY DEF Shape, TypeOK
  <2> QED
    BY <1>13, <2>1, <2>2, <2>3, EnterShape DEF Delegate, Shape, TypeOK, Labels
<1>14. ASSUME NEW r \in Runs, Save(r)
       PROVE  Shape'
  <2>1. PICK b \in BOOLEAN : record' = [record EXCEPT ![sess[r]] =
                                           [prior[r] EXCEPT !.messages = @ \o Turn(r, b)]]
    BY <1>14 DEF Save
  <2> DEFINE new == [prior[r] EXCEPT !.messages = @ \o Turn(r, b)]
  <2>2. prior[r] \in Histories
    BY DEF Shape, TypeOK
  <2>3. prior[r].messages \o Turn(r, b) \in Seq(Texts)
    BY <2>2, TurnTexts, ConcatProperties DEF Histories
  <2>4. new \in Histories
    BY <2>2, <2>3 DEF Histories
  <2> HIDE DEF new
  <2>5. record' = [record EXCEPT ![sess[r]] = new]
    BY <2>1 DEF new
  <2>6. record' \in [Sessions -> Histories \union {None}]
    BY <2>4, <2>5 DEF Shape, TypeOK
  <2> QED
    BY <1>14, <2>6 DEF Save, Goto, Shape, TypeOK
<1>15. ASSUME NEW gone, NEW how \in Ended, Leave(gone, how)
       PROVE  Shape'
  BY <1>15, LeaveShape
<1>16. ASSUME NEW r \in Runs, Complete(r) \/ Abort(r) \/ Crash(r)
       PROVE  Shape'
  BY <1>15, <1>16 DEF Complete, Abort, Crash, Ended
<1>17. ASSUME NEW m \in Messages, NEW s \in Sessions, UserSends(m, s)
       PROVE  Shape'
  BY <1>17, DepositShape DEF UserSends, Shape, TypeOK
<1>18. ASSUME NEW m \in Messages, UserAcknowledges(m)
       PROVE  Shape'
  BY <1>18 DEF UserAcknowledges, Shape, TypeOK
<1>19. CASE UNCHANGED vars
  BY <1>19 DEF vars, Shape, TypeOK
<1> QED
  BY <1>1, <1>2, <1>3, <1>4, <1>6, <1>7, <1>8, <1>9, <1>10, <1>11, <1>12, <1>13, <1>14,
     <1>16, <1>17, <1>18, <1>19 DEF Next, Step

-----------------------------------------------------------------------------
(* What the shape does not say: calls in progress, the budget, the mailbox. *)

\* An action leaves a run alone if it changes none of its bookkeeping.
Untouched(r) ==
    /\ pc'[r] = pc[r] /\ child'[r] = child[r]
    /\ batch'[r] = batch[r] /\ ran'[r] = ran[r]
    /\ counted'[r] = counted[r] /\ executed'[r] = executed[r]

\* The bookkeeping of one run, before and after.
Bookkept(r) ==
    /\ child[r] # None => pc[r] = "tools" /\ Len(ran[r]) < Len(batch[r])
    /\ pc[r] \in BetweenBatches => executed[r] = counted[r] /\ counted[r] <= MaxToolCalls
    /\ pc[r] = "tools" =>
          /\ executed[r] + Len(batch[r]) = counted[r] + Len(ran[r])
          /\ counted[r] <= MaxToolCalls
    /\ executed[r] <= MaxToolCalls

LEMMA BookkeptParts == WaitInv /\ BudgetInv <=> \A r \in Runs : Bookkept(r)
BY DEF WaitInv, BudgetInv, Bookkept

LEMMA UntouchedKept ==
    ASSUME NEW r \in Runs, Bookkept(r), Untouched(r)
    PROVE  Bookkept(r)'
BY DEF Bookkept, Untouched

\* The calls of a step are admitted while all of what was counted is executed.
LEMMA AdmitKept ==
    ASSUME Shape, NEW r \in Runs, Bookkept(r), pc[r] \in {"prompt", "model"},
           NEW calls \in Seq(Calls), Admit(r, calls), UNCHANGED <<child, executed>>
    PROVE  Bookkept(r)'
<1>1. Len(calls) \in Nat /\ Len(<<>>) = 0 /\ Len(<<>>) \in Nat
  OBVIOUS
<1>2. counted[r] \in Nat /\ executed[r] \in Nat /\ executed'[r] = executed[r]
      /\ counted'[r] = counted[r] + Len(calls)
      /\ executed[r] = counted[r] /\ counted[r] <= MaxToolCalls /\ child[r] = None
      /\ ran'[r] = <<>> /\ child'[r] = None
  BY DEF Admit, Shape, TypeOK, Bookkept, BetweenBatches
<1>3. CASE WithinBudget(r, Len(calls))
  <2>1. batch'[r] = calls /\ pc'[r] = "tools"
    BY <1>3 DEF Admit, Goto, Shape, TypeOK
  <2>2. counted'[r] <= MaxToolCalls
    BY <1>2, <1>3 DEF WithinBudget
  <2> QED
    BY <1>1, <1>2, <2>1, <2>2, AgentAssumption DEF Bookkept, BetweenBatches
<1>4. CASE ~WithinBudget(r, Len(calls))
  <2>1. pc'[r] = "save"
    BY <1>4 DEF Admit, Goto, Shape, TypeOK
  <2> QED
    BY <1>2, <2>1 DEF Bookkept, BetweenBatches
<1> QED
  BY <1>3, <1>4

LEMMA OneMore ==
    ASSUME NEW done \in Nat, NEW count \in Nat, NEW answered \in Nat, NEW asked \in Nat,
           NEW limit \in Nat,
           done + asked = count + answered, answered < asked, count <= limit
    PROVE  (done + 1) + asked = count + (answered + 1) /\ done + 1 <= limit
OBVIOUS

\* A call that is answered moves from the batch to what was executed.
LEMMA ExecutedKept ==
    ASSUME Shape, NEW r \in Runs, Bookkept(r), pc[r] = "tools", Len(ran[r]) < Len(batch[r]),
           NEW isOk \in BOOLEAN, Executed(r, isOk), child'[r] = None,
           UNCHANGED <<pc, batch, counted>>
    PROVE  Bookkept(r)'
<1>1. Len(ran'[r]) = Len(ran[r]) + 1
  BY ExecutedShape
<1>2. executed'[r] = executed[r] + 1
  BY DEF Executed, Shape, TypeOK
<1>3. /\ Len(ran[r]) \in Nat /\ Len(batch[r]) \in Nat /\ counted[r] \in Nat
      /\ executed[r] \in Nat
  BY DEF Shape, TypeOK
<1>4. pc'[r] = "tools" /\ batch'[r] = batch[r] /\ counted'[r] = counted[r]
  OBVIOUS
<1>5. executed[r] + Len(batch[r]) = counted[r] + Len(ran[r]) /\ counted[r] <= MaxToolCalls
  BY DEF Bookkept
<1>6. Len(ran[r]) < Len(batch[r]) /\ MaxToolCalls \in Nat
  BY AgentAssumption
<1>7. /\ (executed[r] + 1) + Len(batch[r]) = counted[r] + (Len(ran[r]) + 1)
      /\ executed[r] + 1 <= MaxToolCalls
  BY <1>3, <1>5, <1>6, OneMore
<1>8. executed'[r] + Len(batch'[r]) = counted'[r] + Len(ran'[r]) /\ executed'[r] <= MaxToolCalls
  BY <1>1, <1>2, <1>4, <1>7, Zenon
<1>9. child'[r] = None
  OBVIOUS
<1> QED
  BY <1>4, <1>5, <1>8, <1>9 DEF Bookkept, BetweenBatches

LEMMA EnterKept ==
    ASSUME Shape, NEW r \in Runs, Bookkept(r), pc[r] = "idle",
           NEW label \in {"deliver", "prompt"}, NEW s, NEW h, NEW g, NEW depth, NEW caller,
           Enter(r, label, s, h, g, depth, caller),
           child'[r] = child[r], UNCHANGED <<batch, ran, counted, executed>>
    PROVE  Bookkept(r)'
<1>1. pc'[r] = label
  BY DEF Enter, Goto, Shape, TypeOK
<1> QED
  BY <1>1 DEF Bookkept, BetweenBatches

LEMMA LeaveKept ==
    ASSUME NEW gone, NEW how \in Ended, Leave(gone, how), NEW r \in Runs, Bookkept(r)
    PROVE  Bookkept(r)'
<1>1. CASE r \in gone
  <2>1. pc'[r] = how /\ child'[r] = None /\ executed'[r] = 0
    BY <1>1 DEF Leave, Left
  <2>2. how \notin BetweenBatches /\ how # "tools"
    BY DEF Ended, BetweenBatches
  <2> QED
    BY <2>1, <2>2, AgentAssumption DEF Bookkept
<1>2. CASE r \notin gone
  BY <1>2 DEF Leave, Left, Bookkept
<1> QED
  BY <1>1, <1>2

LEMMA BookkeepingPreserved ==
    ASSUME Shape, \A q \in Runs : Bookkept(q), [Next]_vars
    PROVE  \A q \in Runs : Bookkept(q)'
<1> USE DEF store, mailbox, setup, loop
<1> SUFFICES ASSUME NEW q \in Runs PROVE Bookkept(q)'
  OBVIOUS
<1>0. Bookkept(q)
  OBVIOUS
<1>1. ASSUME NEW r \in Runs, Start(r)
      PROVE  Bookkept(q)'
  <2>1. PICK p \in Profiles : Begin(r, p) \/ \E s \in Sessions : Resume(r, s, p)
    BY <1>1 DEF Start
  <2>2. PICK label \in {"deliver", "prompt"} :
            \E s, h : Enter(r, label, s, h, p, 0, None)
    BY <2>1 DEF Begin, Resume
  <2>3. pc[r] = "idle" /\ UNCHANGED <<loop, executed>>
    BY <2>1 DEF Begin, Resume, Unborn
  <2>4. CASE q = r
    BY <1>0, <2>2, <2>3, <2>4, EnterKept
  <2>5. CASE q # r
    BY <1>0, <2>2, <2>3, <2>5, UntouchedKept DEF Enter, Goto, Untouched, Shape, TypeOK
  <2> QED
    BY <2>4, <2>5
<1>2. ASSUME NEW r \in Runs, Collect(r) \/ Mark(r)
      PROVE  Bookkept(q)'
  BY <1>0, <1>2 DEF Collect, Mark, Goto, Bookkept, BetweenBatches, Shape, TypeOK
<1>3. ASSUME NEW r \in Runs, Prompt(r) \/ Reply(r)
      PROVE  Bookkept(q)'
  <2>1. <<>> \in Seq(Calls)
    OBVIOUS
  <2>2. PICK calls \in Seq(Calls) : Admit(r, calls)
    BY <1>3, <2>1, RequestedCalls DEF Prompt, Reply
  <2>3. pc[r] \in {"prompt", "model"} /\ UNCHANGED <<child, executed>>
    BY <1>3 DEF Prompt, Reply, Asked
  <2>4. CASE q = r
    BY <1>0, <2>2, <2>3, <2>4, AdmitKept
  <2>5. CASE q # r
    BY <1>0, <2>2, <2>3, <2>5, UntouchedKept DEF Admit, Goto, Untouched, Shape, TypeOK
  <2> QED
    BY <2>4, <2>5
<1>4. ASSUME NEW r \in Runs, OutOfSteps(r) \/ Finish(r) \/ Save(r)
      PROVE  Bookkept(q)'
  BY <1>0, <1>4 DEF OutOfSteps, Finish, Save, Asked, Goto, Bookkept, BetweenBatches, Shape, TypeOK
<1>5. ASSUME NEW r \in Runs, Malformed(r) \/ Consume(r)
      PROVE  Bookkept(q)'
  BY <1>0, <1>5, UntouchedKept DEF Malformed, Consume, Untouched
<1>6. ASSUME NEW r \in Runs, EndStep(r)
      PROVE  Bookkept(q)'
  <2>1. /\ executed[r] \in Nat /\ counted[r] \in Nat /\ Len(ran[r]) \in Nat
    BY DEF Shape, TypeOK
  <2>4. Bookkept(r) /\ Len(ran[r]) = Len(batch[r]) /\ pc[r] = "tools"
    BY <1>6 DEF EndStep
  <2>5. executed[r] + Len(batch[r]) = counted[r] + Len(ran[r])
    BY <2>4 DEF Bookkept
  <2>2. executed[r] = counted[r]
    BY <2>1, <2>4, <2>5
  <2>3. pc' = [pc EXCEPT ![r] = "model"]
    BY <1>6 DEF EndStep, Goto
  <2> QED
    <3>1. UNCHANGED <<counted, batch, ran, child, executed>>
      BY <1>6 DEF EndStep
    <3>2. pc'[q] = IF q = r THEN "model" ELSE pc[q]
      BY <2>3 DEF Shape, TypeOK
    <3>3. CASE q = r
      <4>1. child[r] = None
        BY <2>1, <2>4 DEF Bookkept
      <4> QED
        BY <2>2, <2>4, <3>1, <3>2, <3>3, <4>1 DEF Bookkept, BetweenBatches
    <3>4. CASE q # r
      BY <1>0, <3>1, <3>2, <3>4 DEF Bookkept
    <3> QED
      BY <3>3, <3>4
<1>7. ASSUME NEW r \in Runs, NEW isOk \in BOOLEAN, Executed(r, isOk), pc[r] = "tools",
             Len(ran[r]) < Len(batch[r]), child' = [child EXCEPT ![r] = None],
             UNCHANGED <<pc, batch, counted>>
      PROVE  Bookkept(q)'
  <2>1. child'[r] = None
    BY <1>7 DEF Shape, TypeOK
  <2>2. CASE q = r
    BY <1>0, <1>7, <2>1, <2>2, ExecutedKept
  <2>3. CASE q # r
    BY <1>0, <1>7, <2>3, UntouchedKept DEF Executed, Untouched, Shape, TypeOK
  <2> QED
    BY <2>2, <2>3
<1>8. ASSUME NEW r \in Runs, Executing(r), child' = child
      PROVE  /\ pc[r] = "tools" /\ Len(ran[r]) < Len(batch[r])
             /\ child' = [child EXCEPT ![r] = None]
  BY <1>8 DEF Executing, Shape, TypeOK
<1>9. ASSUME NEW r \in Runs,
             \/ Refuse(r) \/ Work(r)
             \/ \E m \in Messages, s \in Sessions : SendMessage(r, m, s)
      PROVE  Bookkept(q)'
  <2>1. PICK isOk \in BOOLEAN : Executed(r, isOk)
    BY <1>9 DEF Refuse, Work, SendMessage
  <2>2. Executing(r) /\ UNCHANGED <<child, pc, batch, counted>>
    BY <1>9 DEF Refuse, Work, SendMessage, Allowed
  <2> QED
    BY <1>7, <1>8, <2>1, <2>2
<1>10. ASSUME NEW r \in Runs, Return(r)
       PROVE  Bookkept(q)'
  <2>1. PICK isOk \in BOOLEAN : Executed(r, isOk)
    BY <1>10 DEF Return
  <2>2. pc[r] = "tools" /\ Len(ran[r]) < Len(batch[r])
    BY <1>10 DEF Return, Bookkept
  <2> QED
    BY <1>7, <1>10, <2>1, <2>2 DEF Return
<1>11. ASSUME NEW r \in Runs, NEW c \in Runs, NEW p \in Profiles, Delegate(r, c, p)
       PROVE  Bookkept(q)'
  <2>1. /\ Enter(c, "prompt", NewSession, NoHistory, Narrowed(r, p), level[r] + 1, r)
        /\ pc[c] = "idle" /\ pc[r] = "tools" /\ Len(ran[r]) < Len(batch[r])
        /\ child' = [child EXCEPT ![r] = c] /\ UNCHANGED <<batch, ran, counted, executed>>
    BY <1>11 DEF Delegate, Unborn, Allowed, Executing
  <2>2. c # r
    BY <2>1
  <2>3. CASE q = c
    <3>1. child'[c] = child[c]
      BY <2>1, <2>2 DEF Shape, TypeOK
    <3> QED
      BY <1>0, <2>1, <2>3, <3>1, EnterKept
  <2>4. CASE q = r
    <3>1. pc'[r] = "tools"
      BY <2>1, <2>2 DEF Enter, Goto, Shape, TypeOK
    <3> QED
      BY <1>0, <2>1, <2>4, <3>1 DEF Bookkept, BetweenBatches
  <2>5. CASE q # c /\ q # r
    BY <1>0, <2>1, <2>5, UntouchedKept DEF Enter, Goto, Untouched, Shape, TypeOK
  <2> QED
    BY <2>3, <2>4, <2>5
<1>12. ASSUME NEW r \in Runs, Complete(r) \/ Abort(r) \/ Crash(r)
       PROVE  Bookkept(q)'
  <2>1. ASSUME NEW gone, NEW how \in Ended, Leave(gone, how)
        PROVE  Bookkept(q)'
    BY <1>0, <2>1, LeaveKept
  <2> QED
    BY <1>12, <2>1 DEF Complete, Abort, Crash, Ended
<1>13. ASSUME NEW m \in Messages, NEW s \in Sessions, UserSends(m, s)
       PROVE  Bookkept(q)'
  BY <1>0, <1>13, UntouchedKept DEF UserSends, Untouched
<1>14. ASSUME NEW m \in Messages, UserAcknowledges(m)
       PROVE  Bookkept(q)'
  BY <1>0, <1>14, UntouchedKept DEF UserAcknowledges, Untouched
<1>15. CASE UNCHANGED vars
  BY <1>0, <1>15, UntouchedKept DEF vars, Untouched
<1> QED
  BY <1>1, <1>2, <1>3, <1>4, <1>5, <1>6, <1>9, <1>10, <1>11, <1>12, <1>13, <1>14,
     <1>15 DEF Next, Step

LEMMA MailPreserved ==
    ASSUME Shape, MailInv, [Next]_vars
    PROVE  MailInv'
<1> USE DEF store, mailbox, setup, loop, MailInv, ConsumedWasNamed
<1>1. ASSUME settled \subseteq settled',
             \A m \in Messages : mail'[m] = "acknowledged" => mail[m] = "acknowledged",
             \A r \in Runs : pc'[r] = "consume" => pc[r] = "consume" /\ inbound'[r] = inbound[r]
      PROVE  MailInv'
  BY <1>1
<1>2. ASSUME NEW r \in Runs, Start(r)
      PROVE  MailInv'
  <2>1. PICK label \in {"deliver", "prompt"} : pc' = [pc EXCEPT ![r] = label]
    BY <1>2 DEF Start, Begin, Resume, Enter, Goto
  <2>2. UNCHANGED <<settled, mail, inbound>>
    BY <1>2 DEF Start, Begin, Resume
  <2> QED
    BY <1>1, <2>1, <2>2 DEF Shape, TypeOK
<1>3. ASSUME NEW r \in Runs, Collect(r) \/ Mark(r)
      PROVE  MailInv'
  BY <1>3 DEF Collect, Mark, Goto, Shape, TypeOK
<1>4. ASSUME NEW r \in Runs, Prompt(r) \/ Reply(r)
      PROVE  MailInv'
  <2>1. PICK label \in {"tools", "save"} : pc' = [pc EXCEPT ![r] = label]
    BY <1>4 DEF Prompt, Reply, Admit, Goto
  <2>2. UNCHANGED <<settled, mail, inbound>>
    BY <1>4 DEF Prompt, Reply
  <2> QED
    BY <1>1, <2>1, <2>2 DEF Shape, TypeOK
<1>5. ASSUME NEW r \in Runs, OutOfSteps(r) \/ Finish(r) \/ EndStep(r)
      PROVE  MailInv'
  <2>1. PICK label \in {"model", "save"} : pc' = [pc EXCEPT ![r] = label]
    BY <1>5 DEF OutOfSteps, Finish, EndStep, Goto
  <2>2. UNCHANGED <<settled, mail, inbound>>
    BY <1>5 DEF OutOfSteps, Finish, EndStep
  <2> QED
    BY <1>1, <2>1, <2>2 DEF Shape, TypeOK
<1>6. ASSUME NEW r \in Runs, Malformed(r) \/ Refuse(r) \/ Work(r) \/ Return(r)
      PROVE  MailInv'
  BY <1>1, <1>6 DEF Malformed, Refuse, Work, Return
<1>7. ASSUME NEW m \in Messages, NEW s \in Sessions, Deposit(m, s),
             UNCHANGED <<settled, pc, inbound>>
      PROVE  MailInv'
  BY <1>1, <1>7 DEF Deposit, Shape, TypeOK
<1>8. ASSUME NEW m \in Messages, NEW s \in Sessions,
             UserSends(m, s) \/ \E r \in Runs : SendMessage(r, m, s)
      PROVE  MailInv'
  BY <1>7, <1>8 DEF UserSends, SendMessage
<1>9. ASSUME NEW r \in Runs, NEW c \in Runs, NEW p \in Profiles, Delegate(r, c, p)
      PROVE  MailInv'
  BY <1>1, <1>9 DEF Delegate, Enter, Goto, Shape, TypeOK
<1>10. ASSUME NEW r \in Runs, Save(r)
       PROVE  MailInv'
  BY <1>10 DEF Save, Goto, Shape, TypeOK
<1>11. ASSUME NEW r \in Runs, Consume(r)
       PROVE  MailInv'
  BY <1>11 DEF Consume, Consumable, Shape, TypeOK
<1>12. ASSUME NEW gone, NEW how \in Ended, Leave(gone, how)
       PROVE  MailInv'
  BY <1>1, <1>12 DEF Leave, Left, Ended
<1>13. ASSUME NEW r \in Runs, Complete(r) \/ Abort(r) \/ Crash(r)
       PROVE  MailInv'
  BY <1>12, <1>13 DEF Complete, Abort, Crash, Ended
<1>14. ASSUME NEW m \in Messages, UserAcknowledges(m)
       PROVE  MailInv'
  BY <1>14 DEF UserAcknowledges, Shape, TypeOK
<1>15. CASE UNCHANGED vars
  BY <1>1, <1>15 DEF vars
<1> QED
  BY <1>2, <1>3, <1>4, <1>5, <1>6, <1>8, <1>9, <1>10, <1>11, <1>13, <1>14, <1>15 DEF Next, Step

-----------------------------------------------------------------------------
(* Delegation. *)

\* What a run was granted, and what its caller waits for while it has one.  A run that has
\* not started or has ended works for nobody and has executed nothing.
Bond(r) ==
    /\ ~Running(r) => parent[r] = None /\ child[r] = None /\ ran[r] = <<>>
    /\ parent[r] # None =>
          /\ child[parent[r]] = r
          /\ grant[r].tools \subseteq grant[parent[r]].tools
          /\ grant[r].depth <= grant[parent[r]].depth
          /\ level[r] <= grant[parent[r]].depth
    /\ \A i \in DOMAIN ran[r] : ran[r][i].ok => ran[r][i].call.kind \in grant[r].tools
    /\ child[r] # None => Current(r).kind \in grant[r].tools

\* Nothing changes for the run, nor for its caller.
Uninvolved(q) ==
    /\ parent'[q] = parent[q] /\ level'[q] = level[q] /\ grant'[q] = grant[q]
    /\ pc'[q] = pc[q] /\ child'[q] = child[q] /\ ran'[q] = ran[q] /\ batch'[q] = batch[q]
    /\ parent[q] # None => /\ child'[parent[q]] = child[parent[q]]
                           /\ grant'[parent[q]] = grant[parent[q]]

LEMMA UninvolvedKept ==
    ASSUME NEW q \in Runs, Bond(q), Uninvolved(q)
    PROVE  Bond(q)'
BY DEF Bond, Uninvolved, Running, Current

\* A run that moves on without executing anything.
LEMMA MovedKept ==
    ASSUME Shape, \A q \in Runs : Bond(q), NEW r \in Runs, Running(r),
           NEW label \in Labels \ (Ended \union {"idle"}), pc' = [pc EXCEPT ![r] = label],
           UNCHANGED <<setup, batch, ran, child>>
    PROVE  \A q \in Runs : Bond(q)'
<1> SUFFICES ASSUME NEW q \in Runs PROVE Bond(q)'
  OBVIOUS
<1>1. Bond(q) /\ UNCHANGED <<parent, level, grant, batch, ran, child>>
  BY DEF setup
<1>2. Running(q)' => Running(q)
  BY DEF Running, Shape, TypeOK
<1>3. Running(q) => Running(q)'
  BY DEF Running, Shape, TypeOK
<1> QED
  BY <1>1, <1>2, <1>3 DEF Bond, Current

\* The calls of the next step replace those of the last.
LEMMA AdmitBond ==
    ASSUME Shape, \A q \in Runs : Bond(q), NEW r \in Runs, Running(r), child[r] = None,
           NEW calls, Admit(r, calls), UNCHANGED <<setup, child>>
    PROVE  \A q \in Runs : Bond(q)'
<1> SUFFICES ASSUME NEW q \in Runs PROVE Bond(q)'
  OBVIOUS
<1> USE DEF setup
<1>0. Bond(q)
  OBVIOUS
<1>1. CASE q = r
  <2>1. ran'[r] = <<>> /\ child'[r] = None
    BY DEF Admit, Shape, TypeOK
  <2>2. pc'[r] \in {"tools", "save"}
    BY DEF Admit, Goto, Shape, TypeOK
  <2>3. Running(r)'
    BY <2>2 DEF Running, Ended
  <2> QED
    BY <1>0, <1>1, <2>1, <2>3 DEF Bond
<1>2. CASE q # r
  <2>1. Uninvolved(q)
    BY <1>2 DEF Admit, Goto, Uninvolved, Shape, TypeOK
  <2> QED
    BY <1>0, <2>1, UninvolvedKept
<1> QED
  BY <1>1, <1>2

\* A call takes effect only if the run was granted its kind.
LEMMA ExecutedBond ==
    ASSUME Shape, \A q \in Runs : Bond(q), NEW r \in Runs, pc[r] = "tools",
           Len(ran[r]) < Len(batch[r]),
           NEW isOk \in BOOLEAN, isOk => Current(r).kind \in grant[r].tools, Executed(r, isOk),
           \A q \in Runs : parent[q] = r => child'[r] = child[r],
           child'[r] \in {child[r], None}, child'[r] = None,
           \A q \in Runs \ {r} : child'[q] = child[q],
           UNCHANGED <<pc, setup, batch>>
    PROVE  \A q \in Runs : Bond(q)'
<1> SUFFICES ASSUME NEW q \in Runs PROVE Bond(q)'
  OBVIOUS
<1> USE DEF setup
<1>0. Bond(q)
  OBVIOUS
<1>1. parent[q] # None => child'[parent[q]] = child[parent[q]]
  BY DEF Shape, TypeOK
<1>2. CASE q = r
  <2>1. ran'[r] = Append(ran[r], [call |-> Current(r), ok |-> isOk])
    BY DEF Executed, Shape, TypeOK
  <2>2. ran[r] \in Seq([call : Calls, ok : BOOLEAN])
    BY DEF Shape, TypeOK
  <2>3. ASSUME NEW i \in DOMAIN ran'[r], ran'[r][i].ok
        PROVE  ran'[r][i].call.kind \in grant[r].tools
    <3>1. CASE i = Len(ran[r]) + 1
      BY <2>1, <2>2, <2>3, <3>1
    <3>2. CASE i # Len(ran[r]) + 1
      <4>1. i \in DOMAIN ran[r] /\ ran'[r][i] = ran[r][i]
        BY <2>1, <2>2, <3>2
      <4> QED
        BY <1>0, <1>2, <2>3, <4>1 DEF Bond
    <3> QED
      BY <3>1, <3>2
  <2>4. Running(r)'
    BY DEF Running, Ended
  <2> QED
    BY <1>0, <1>1, <1>2, <2>3, <2>4 DEF Bond
<1>3. CASE q # r
  <2>1. Uninvolved(q)
    BY <1>1, <1>3 DEF Executed, Uninvolved, Shape, TypeOK
  <2> QED
    BY <1>0, <2>1, UninvolvedKept
<1> QED
  BY <1>2, <1>3

\* Runs leave together with all that work for them.
LEMMA LeaveBond ==
    ASSUME Shape, \A q \in Runs : Bond(q), NEW gone, NEW how \in Ended, Leave(gone, how),
           \A q \in Runs \ gone : parent[q] # None => parent[q] \notin gone
    PROVE  \A q \in Runs : Bond(q)'
<1> SUFFICES ASSUME NEW q \in Runs PROVE Bond(q)'
  OBVIOUS
<1>0. Bond(q) /\ parent[q] \in Runs \union {None}
  BY DEF Shape, TypeOK
<1>1. CASE q \in gone
  BY <1>1 DEF Leave, Left, Bond
<1>2. CASE q \notin gone
  <2>1. Uninvolved(q)
    BY <1>0, <1>2 DEF Leave, Left, Uninvolved
  <2> QED
    BY <1>0, <2>1, UninvolvedKept
<1> QED
  BY <1>1, <1>2

\* A run starts with what it was granted, for the user or for the caller that waits for it.
LEMMA EnterBond ==
    ASSUME Shape, \A q \in Runs : Bond(q), NEW c \in Runs, pc[c] = "idle",
           NEW label \in {"deliver", "prompt"}, NEW s, NEW h, NEW g, NEW depth,
           NEW caller \in (Runs \ {c}) \union {None}, Enter(c, label, s, h, g, depth, caller),
           caller = None => UNCHANGED child,
           caller # None => /\ child' = [child EXCEPT ![caller] = c]
                            /\ child[caller] = None /\ Running(caller)
                            /\ Current(caller).kind \in grant[caller].tools
                            /\ g.tools \subseteq grant[caller].tools
                            /\ g.depth <= grant[caller].depth /\ depth <= grant[caller].depth,
           UNCHANGED <<batch, ran>>
    PROVE  \A q \in Runs : Bond(q)'
<1> SUFFICES ASSUME NEW q \in Runs PROVE Bond(q)'
  OBVIOUS
<1>0. Bond(q) /\ Bond(c) /\ parent[q] \in Runs \union {None}
  BY DEF Shape, TypeOK
<1>1. parent[c] = None /\ child[c] = None /\ ran[c] = <<>>
  BY <1>0 DEF Bond, Running
<1>2. /\ pc'[c] = label /\ grant'[c] = g /\ level'[c] = depth /\ parent'[c] = caller
      /\ \A x \in Runs \ {c} : /\ pc'[x] = pc[x] /\ grant'[x] = grant[x]
                               /\ level'[x] = level[x] /\ parent'[x] = parent[x]
  BY DEF Enter, Goto, Shape, TypeOK
<1>3. \A x \in Runs : x # caller => child'[x] = child[x]
  BY DEF Shape, TypeOK
<1>4. caller # None => child'[caller] = c
  BY DEF Shape, TypeOK
<1>5. CASE q = c
  <2>1. Running(c)'
    BY <1>2 DEF Running, Ended
  <2>2. child'[c] = None /\ ran'[c] = <<>>
    BY <1>1, <1>3
  <2>3. caller # None => caller \in Runs /\ grant'[caller] = grant[caller]
    BY <1>2
  <2> QED
    BY <1>2, <1>4, <1>5, <2>1, <2>2, <2>3 DEF Bond
<1>6. parent[q] # None => parent[q] # c
  BY <1>0, <1>1, AgentAssumption DEF Bond
<1>7. CASE q # c /\ q = caller
  <2>1. Running(q)' /\ Current(q)' = Current(q) /\ ran'[q] = ran[q] /\ grant'[q] = grant[q]
        /\ level'[q] = level[q] /\ parent'[q] = parent[q]
    BY <1>2, <1>7, AgentAssumption DEF Running, Current
  <2>2. parent[q] # None => parent[q] # q
    BY <1>0, <1>7, AgentAssumption DEF Bond
  <2>3. parent[q] # None => child'[parent[q]] = child[parent[q]] /\ grant'[parent[q]] = grant[parent[q]]
    BY <1>0, <1>2, <1>3, <1>6, <1>7, <2>2
  <2> QED
    BY <1>0, <1>7, <2>1, <2>3, AgentAssumption DEF Bond
<1>8. CASE q # c /\ q # caller
  <2>1. parent[q] # None => parent[q] # caller
    BY <1>0, <1>8, AgentAssumption DEF Bond
  <2>2. Uninvolved(q)
    BY <1>0, <1>2, <1>3, <1>6, <1>8, <2>1 DEF Uninvolved
  <2> QED
    BY <1>0, <2>2, UninvolvedKept
<1> QED
  BY <1>5, <1>7, <1>8

\* A run that dies takes along every run that works for it, directly or not.
LEMMA LineageUp ==
    ASSUME Shape, NEW r, NEW q \in Runs, parent[q] # None, r \in Lineage(parent[q])
    PROVE  r \in Lineage(q)
<1>1. r \in Runs /\ parent[q] \in Runs
  BY DEF Lineage, Shape, TypeOK
<1>2. ASSUME NEW S \in SUBSET Runs, q \in S, \A x \in S : parent[x] \in S \union {None}
      PROVE  r \in S
  <2>1. parent[q] \in S
    BY <1>2
  <2> QED
    BY <1>2, <2>1 DEF Lineage
<1> QED
  BY <1>1, <1>2 DEF Lineage

LEMMA BondsPreserved ==
    ASSUME Shape, WaitInv, \A q \in Runs : Bond(q), [Next]_vars
    PROVE  \A q \in Runs : Bond(q)'
<1> USE DEF store, mailbox, loop
<1>1. ASSUME NEW r \in Runs, Start(r)
      PROVE  \A q \in Runs : Bond(q)'
  <2>1. PICK p \in Profiles : Begin(r, p) \/ \E s \in Sessions : Resume(r, s, p)
    BY <1>1 DEF Start
  <2>2. PICK label \in {"deliver", "prompt"} :
            \E s, h : Enter(r, label, s, h, p, 0, None)
    BY <2>1 DEF Begin, Resume
  <2>3. pc[r] = "idle" /\ UNCHANGED <<child, batch, ran>>
    BY <2>1 DEF Begin, Resume, Unborn
  <2> QED
    BY <2>2, <2>3, EnterBond
<1>2. ASSUME NEW r \in Runs, NEW label \in Labels \ (Ended \union {"idle"}),
             pc[r] \in Labels \ (Ended \union {"idle"}), pc' = [pc EXCEPT ![r] = label],
             UNCHANGED <<setup, batch, ran, child>>
      PROVE  \A q \in Runs : Bond(q)'
  BY <1>2, MovedKept DEF Running
<1>3. ASSUME UNCHANGED <<pc, setup, batch, ran, child>>
      PROVE  \A q \in Runs : Bond(q)'
  <2>1. \A q \in Runs : Uninvolved(q)
    BY <1>3 DEF Uninvolved, setup
  <2> QED
    BY <2>1, UninvolvedKept
<1>4. ASSUME NEW r \in Runs, Collect(r) \/ Mark(r)
      PROVE  \A q \in Runs : Bond(q)'
  <2>1. pc[r] \in {"deliver", "mark"} /\ UNCHANGED <<setup, batch, ran, child>>
    BY <1>4 DEF Collect, Mark
  <2>2. UNCHANGED pc \/ \E label \in {"mark", "prompt"} : pc' = [pc EXCEPT ![r] = label]
    BY <1>4 DEF Collect, Mark, Goto
  <2> QED
    BY <1>2, <1>3, <2>1, <2>2 DEF Labels, Ended
<1>5. ASSUME NEW r \in Runs, OutOfSteps(r) \/ Finish(r) \/ EndStep(r) \/ Save(r)
      PROVE  \A q \in Runs : Bond(q)'
  <2>1. pc[r] \in {"model", "tools", "save"} /\ UNCHANGED <<setup, batch, ran, child>>
    BY <1>5 DEF OutOfSteps, Finish, Asked, EndStep, Save
  <2>2. PICK label \in {"save", "model", "consume"} : pc' = [pc EXCEPT ![r] = label]
    BY <1>5 DEF OutOfSteps, Finish, EndStep, Save, Goto
  <2> QED
    BY <1>2, <2>1, <2>2 DEF Labels, Ended
<1>6. ASSUME NEW r \in Runs, Malformed(r) \/ Consume(r)
      PROVE  \A q \in Runs : Bond(q)'
  BY <1>3, <1>6 DEF Malformed, Consume
<1>7. ASSUME NEW r \in Runs, Prompt(r) \/ Reply(r)
      PROVE  \A q \in Runs : Bond(q)'
  <2>1. PICK calls : Admit(r, calls)
    BY <1>7 DEF Prompt, Reply
  <2>2. pc[r] \in {"prompt", "model"} /\ UNCHANGED <<setup, child>>
    BY <1>7 DEF Prompt, Reply, Asked
  <2>3. Running(r) /\ child[r] = None
    BY <2>2 DEF Running, Ended, WaitInv
  <2> QED
    BY <2>1, <2>2, <2>3, AdmitBond
<1>8. ASSUME NEW r \in Runs,
             \/ Refuse(r) \/ Work(r)
             \/ \E m \in Messages, s \in Sessions : SendMessage(r, m, s)
      PROVE  \A q \in Runs : Bond(q)'
  <2>1. Executing(r) /\ UNCHANGED <<pc, setup, batch, child>>
    BY <1>8 DEF Refuse, Work, SendMessage, Allowed
  <2>2. PICK isOk \in BOOLEAN : Executed(r, isOk) /\ (isOk => Current(r).kind \in grant[r].tools)
    BY <1>8 DEF Refuse, Work, SendMessage, Allowed
  <2>3. child[r] = None /\ pc[r] = "tools" /\ Len(ran[r]) < Len(batch[r])
    BY <2>1 DEF Executing
  <2> QED
    BY <2>1, <2>2, <2>3, ExecutedBond
<1>9. ASSUME NEW r \in Runs, Return(r)
      PROVE  \A q \in Runs : Bond(q)'
  <2>1. pc[r] = "tools" /\ child[r] # None /\ pc[child[r]] \in Ended
        /\ child' = [child EXCEPT ![r] = None]
        /\ UNCHANGED <<pc, setup, batch>>
    BY <1>9 DEF Return, Answered
  <2>2. PICK isOk \in BOOLEAN : Executed(r, isOk)
    BY <1>9 DEF Return
  <2>3. Len(ran[r]) < Len(batch[r]) /\ Current(r).kind \in grant[r].tools
    BY <2>1 DEF WaitInv, Bond
  <2>4. ASSUME NEW q \in Runs, parent[q] = r
        PROVE  FALSE
    <3>1. child[r] = q
      BY <2>4, AgentAssumption DEF Bond
    <3>2. ~Running(q)
      BY <2>1, <3>1 DEF Running
    <3> QED
      BY <2>4, <3>2, AgentAssumption DEF Bond
  <2>5. child'[r] = None /\ \A q \in Runs \ {r} : child'[q] = child[q]
    BY <2>1 DEF Shape, TypeOK
  <2> QED
    BY <2>1, <2>2, <2>3, <2>4, <2>5, ExecutedBond
<1>10. ASSUME NEW r \in Runs, NEW c \in Runs, NEW p \in Profiles, Delegate(r, c, p)
       PROVE  \A q \in Runs : Bond(q)'
  <2>1. /\ Enter(c, "prompt", NewSession, NoHistory, Narrowed(r, p), level[r] + 1, r)
        /\ pc[c] = "idle" /\ pc[r] = "tools" /\ child[r] = None
        /\ Current(r).kind \in grant[r].tools /\ level[r] < grant[r].depth
        /\ child' = [child EXCEPT ![r] = c] /\ UNCHANGED <<batch, ran>>
    BY <1>10 DEF Delegate, Unborn, Allowed, Executing
  <2>2. c # r /\ Running(r) /\ r # None
    BY <2>1, AgentAssumption DEF Running, Ended
  <2>3. level[r] \in Nat /\ grant[r].depth \in Nat /\ p.depth \in Nat
    BY AgentAssumption DEF Shape, TypeOK
  <2>4. level[r] + 1 <= grant[r].depth
    BY <2>1, <2>3
  <2>5. Narrowed(r, p).tools \subseteq grant[r].tools /\ Narrowed(r, p).depth <= grant[r].depth
    BY <2>3 DEF Narrowed
  <2> QED
    BY <2>1, <2>2, <2>4, <2>5, EnterBond
<1>11. ASSUME NEW r \in Runs, Complete(r) \/ Abort(r)
       PROVE  \A q \in Runs : Bond(q)'
  <2>1. PICK how \in Ended : Leave({r}, how)
    BY <1>11 DEF Complete, Abort, Ended
  <2>2. child[r] = None
    BY <1>11 DEF Complete, Abort, WaitInv
  <2>3. \A q \in Runs \ {r} : parent[q] # None => parent[q] \notin {r}
    BY <2>2, AgentAssumption DEF Bond
  <2> QED
    BY <2>1, <2>3, LeaveBond
<1>12. ASSUME NEW r \in Runs, Crash(r)
       PROVE  \A q \in Runs : Bond(q)'
  <2> DEFINE gone == {q \in Runs : Running(q) /\ r \in Lineage(q)}
  <2>1. Leave(gone, "failed") /\ "failed" \in Ended
    BY <1>12 DEF Crash, Ended
  <2>2. ASSUME NEW q \in Runs \ gone, parent[q] # None
        PROVE  parent[q] \notin gone
    <3>1. Running(q)
      BY <2>2 DEF Bond
    <3>2. r \notin Lineage(q)
      BY <3>1
    <3> QED
      BY <2>2, <3>2, LineageUp
  <2> HIDE DEF gone
  <2> QED
    BY <2>1, <2>2, LeaveBond
<1>13. ASSUME NEW m \in Messages, UserAcknowledges(m) \/ \E s \in Sessions : UserSends(m, s)
       PROVE  \A q \in Runs : Bond(q)'
  BY <1>3, <1>13 DEF UserAcknowledges, UserSends
<1>14. CASE UNCHANGED vars
  BY <1>3, <1>14 DEF vars
<1> QED
  BY <1>1, <1>4, <1>5, <1>6, <1>7, <1>8, <1>9, <1>10, <1>11, <1>12, <1>13, <1>14 DEF Next, Step

\* Along a chain of callers the rights only grow: the callers that may do all a run may
\* do, and whose depth limit it respects, are closed under going up.
LEMMA BondsNarrow ==
    ASSUME Shape, \A q \in Runs : Bond(q)
    PROVE  DelegationNarrows
<1> SUFFICES ASSUME NEW r \in Runs, NEW a \in Lineage(r)
             PROVE  /\ \A i \in DOMAIN ran[r] : ran[r][i].ok => ran[r][i].call.kind \in grant[a].tools
                    /\ a # r => level[r] <= grant[a].depth
  BY DEF DelegationNarrows
<1> DEFINE wider == {q \in Runs : /\ grant[r].tools \subseteq grant[q].tools
                                  /\ q # r => level[r] <= grant[q].depth}
<1>1. ASSUME NEW q \in wider
      PROVE  parent[q] \in wider \union {None}
  <2>1. q \in Runs /\ Bond(q) /\ parent[q] \in Runs \union {None}
    BY <1>1 DEF Shape, TypeOK
  <2>2. CASE parent[q] # None
    <3>1. /\ grant[q].tools \subseteq grant[parent[q]].tools
          /\ grant[q].depth <= grant[parent[q]].depth /\ level[q] <= grant[parent[q]].depth
      BY <2>1, <2>2 DEF Bond
    <3>2. /\ level[r] \in Nat /\ grant[q].depth \in Nat /\ grant[parent[q]].depth \in Nat
      BY <2>1, <2>2 DEF Shape, TypeOK
    <3> QED
      BY <1>1, <2>1, <2>2, <3>1, <3>2
  <2> QED
    BY <2>2
<1>2. r \in wider
  OBVIOUS
<1>3. wider \in SUBSET Runs
  OBVIOUS
<1> HIDE DEF wider
<1>4. a \in wider
  BY <1>1, <1>2, <1>3 DEF Lineage
<1> QED
  BY <1>4 DEF wider, Bond

-----------------------------------------------------------------------------
(* What is kept of a conversation. *)

\* Nothing that was said is the marker of dropped lines.
Clean(whole) == \A i \in DOMAIN whole : whole[i] # Dropped

\* HistoryKept of one record, and the same place by place.
Kept(h, whole) ==
    LET msgs  == h.messages
        lines == h.summary
        older == SubSeq(whole, 1, Len(whole) - Len(msgs))
    IN /\ Suffix(msgs, whole)
       /\ Turns(msgs) >= KeepRecent \/ Turns(msgs) = Turns(whole)
       /\ IF lines # <<>> /\ Head(lines) = Dropped THEN Suffix(Tail(lines), older)
          ELSE lines = older

Ends(part, whole, length) ==
    /\ Len(part) <= length
    /\ \A i \in 1..Len(part) : part[i] = whole[length - Len(part) + i]

KeptAt(h, whole) ==
    LET before == Len(whole) - Len(h.messages)
    IN /\ Ends(h.messages, whole, Len(whole))
       /\ Turns(h.messages) >= KeepRecent \/ Turns(h.messages) = Turns(whole)
       /\ \/ Len(h.summary) = before /\ Ends(h.summary, whole, before)
          \/ /\ h.summary # <<>> /\ h.summary[1] = Dropped
             /\ Ends(Tail(h.summary), whole, before)

LEMMA SuffixEnds ==
    ASSUME NEW part \in Seq(Texts), NEW whole \in Seq(Texts), NEW length \in 0..Len(whole)
    PROVE  Suffix(part, SubSeq(whole, 1, length)) <=> Ends(part, whole, length)
<1> DEFINE older == SubSeq(whole, 1, length)
<1>1. /\ older \in Seq(Texts) /\ Len(older) = length
      /\ \A i \in 1..length : older[i] = whole[i]
  BY SubSeqProperties
<1> HIDE DEF older
<1>2. CASE ~(Len(part) <= length)
  BY <1>1, <1>2 DEF Suffix, Ends, older
<1>3. CASE Len(part) <= length
  <2> DEFINE first == length - Len(part) + 1
             end == SubSeq(older, first, length)
  <2>1. /\ Len(part) \in Nat /\ length \in Nat /\ first \in 1..(length + 1)
        /\ length - first + 1 = Len(part)
    BY <1>3
  <2>2. /\ end \in Seq(Texts) /\ Len(end) = Len(part)
        /\ \A i \in 1..Len(part) : end[i] = older[first + i - 1]
    BY <1>1, <2>1, SubSeqProperties
  <2>3. \A i \in 1..Len(part) : first + i - 1 = length - Len(part) + i /\ first + i - 1 \in 1..length
    BY <2>1
  <2>4. \A i \in 1..Len(part) : end[i] = whole[length - Len(part) + i]
    BY <1>1, <2>2, <2>3
  <2> HIDE DEF end, first
  <2>5. part = end <=> \A i \in 1..Len(part) : part[i] = end[i]
    BY <2>2, SeqEqual
  <2>6. Suffix(part, older) <=> part = end
    BY <1>1, <1>3 DEF Suffix, end, first
  <2> QED
    BY <1>3, <2>4, <2>5, <2>6 DEF Ends, older
<1> QED
  BY <1>2, <1>3

LEMMA KeptPlaces ==
    ASSUME NEW h \in Histories, NEW whole \in Seq(Texts), Clean(whole)
    PROVE  Kept(h, whole) <=> KeptAt(h, whole)
<1> DEFINE msgs == h.messages
           lines == h.summary
           before == Len(whole) - Len(msgs)
           older == SubSeq(whole, 1, before)
<1>1. msgs \in Seq(Texts) /\ lines \in Seq(Texts) /\ Len(whole) \in Nat /\ Len(msgs) \in Nat
  BY DEF Histories
<1>2. Suffix(msgs, whole) <=> Ends(msgs, whole, Len(whole))
  <2>1. SubSeq(whole, 1, Len(whole)) = whole
    OBVIOUS
  <2>2. Len(whole) \in 0..Len(whole)
    BY <1>1
  <2>3. Suffix(msgs, SubSeq(whole, 1, Len(whole))) <=> Ends(msgs, whole, Len(whole))
    BY <1>1, <2>2, SuffixEnds
  <2> HIDE DEF msgs
  <2> QED
    BY <2>1, <2>3
<1>3. Ends(msgs, whole, Len(whole)) => before \in 0..Len(whole)
  BY <1>1 DEF Ends
<1> HIDE DEF msgs, lines
<1>4. ASSUME before \in 0..Len(whole)
      PROVE  (IF lines # <<>> /\ Head(lines) = Dropped THEN Suffix(Tail(lines), older)
              ELSE lines = older)
             <=> \/ Len(lines) = before /\ Ends(lines, whole, before)
                 \/ lines # <<>> /\ lines[1] = Dropped /\ Ends(Tail(lines), whole, before)
  <2>1. /\ older \in Seq(Texts) /\ Len(older) = before
        /\ \A i \in 1..before : older[i] = whole[i]
    BY <1>4, SubSeqProperties
  <2>2. lines # <<>> => Tail(lines) \in Seq(Texts) /\ Head(lines) = lines[1]
    BY <1>1
  <2>3. lines # <<>> => (Suffix(Tail(lines), older) <=> Ends(Tail(lines), whole, before))
    BY <1>4, <2>2, SuffixEnds
  <2>4. lines = older <=> Len(lines) = before /\ Ends(lines, whole, before)
    <3>1. lines = older <=> Len(lines) = before /\ \A i \in 1..before : lines[i] = older[i]
      BY <1>1, <2>1, SeqEqual
    <3>2. Len(lines) = before => \A i \in 1..before : before - Len(lines) + i = i
      BY <1>1
    <3> HIDE DEF before, older
    <3>3. Len(lines) = before => (Ends(lines, whole, before) <=> \A i \in 1..before : lines[i] = whole[i])
      BY <1>4, <3>2 DEF Ends
    <3>4. (\A i \in 1..before : lines[i] = older[i]) <=> \A i \in 1..before : lines[i] = whole[i]
      BY <2>1
    <3> QED
      BY <3>1, <3>3, <3>4
  <2>5. Len(lines) = before /\ Ends(lines, whole, before) /\ lines # <<>> => lines[1] # Dropped
    <3> SUFFICES ASSUME Len(lines) = before, Ends(lines, whole, before), lines # <<>>
                 PROVE  lines[1] # Dropped
      OBVIOUS
    <3>1. 1 \in 1..Len(lines) /\ before - Len(lines) + 1 = 1
      BY <1>1
    <3>2. lines[1] = whole[1]
      BY <3>1 DEF Ends
    <3>3. 1 \in DOMAIN whole
      BY <1>4, <3>1
    <3> QED
      BY <3>2, <3>3 DEF Clean
  <2> HIDE DEF before, older
  <2> QED
    BY <2>2, <2>3, <2>4, <2>5
<1>5. Kept(h, whole) <=>
          /\ Suffix(msgs, whole)
          /\ Turns(msgs) >= KeepRecent \/ Turns(msgs) = Turns(whole)
          /\ IF lines # <<>> /\ Head(lines) = Dropped THEN Suffix(Tail(lines), older)
             ELSE lines = older
  BY DEF Kept, msgs, lines
<1>6. KeptAt(h, whole) <=>
          /\ Ends(msgs, whole, Len(whole))
          /\ Turns(msgs) >= KeepRecent \/ Turns(msgs) = Turns(whole)
          /\ \/ Len(lines) = before /\ Ends(lines, whole, before)
             \/ lines # <<>> /\ lines[1] = Dropped /\ Ends(Tail(lines), whole, before)
  BY DEF KeptAt, msgs, lines
<1> HIDE DEF before, older
<1> QED
  BY <1>2, <1>3, <1>4, <1>5, <1>6

\* The user turns among the first and among the last messages.
Asking(msgs, first, final) == {i \in first..final : msgs[i].role = "user"}

LEMMA AskingFinite ==
    ASSUME NEW msgs, NEW first \in Nat, NEW final \in Nat
    PROVE  /\ IsFiniteSet(Asking(msgs, first, final))
           /\ Cardinality(Asking(msgs, first, final)) \in Nat
<1>1. IsFiniteSet(first..final)
  BY FS_Interval
<1>2. Asking(msgs, first, final) \subseteq first..final
  BY DEF Asking
<1> QED
  BY <1>1, <1>2, FS_Subset, FS_CardinalityType

LEMMA TurnsAsking ==
    ASSUME NEW msgs \in Seq(Texts)
    PROVE  Turns(msgs) = Cardinality(Asking(msgs, 1, Len(msgs))) /\ Turns(msgs) \in Nat
<1>1. Turns(msgs) = Cardinality(Asking(msgs, 1, Len(msgs))) /\ Len(msgs) \in Nat
  <2>1. DOMAIN msgs = 1..Len(msgs) /\ Len(msgs) \in Nat
    OBVIOUS
  <2> QED
    BY <2>1 DEF Turns, Asking
<1> QED
  BY <1>1, AskingFinite

\* Counting does not depend on where a stretch of messages starts.
LEMMA AskingShift ==
    ASSUME NEW msgs \in Seq(Texts), NEW part \in Seq(Texts), NEW before \in Nat,
           before + Len(part) <= Len(msgs),
           \A i \in 1..Len(part) : part[i] = msgs[before + i]
    PROVE  Cardinality(Asking(msgs, before + 1, before + Len(part))) = Turns(part)
<1> DEFINE here == Asking(part, 1, Len(part))
           there == Asking(msgs, before + 1, before + Len(part))
           shift == [i \in here |-> before + i]
<1>1. Len(part) \in Nat /\ Len(msgs) \in Nat
  OBVIOUS
<1>2. IsFiniteSet(here) /\ IsFiniteSet(there)
  BY <1>1, AskingFinite
<1>3. \A i \in here : before + i \in there
  BY <1>1 DEF Asking
<1>4. \A j \in there : j - before \in here /\ before + (j - before) = j
  BY <1>1 DEF Asking
<1>5. \A i, j \in here : before + i = before + j => i = j
  BY <1>1 DEF Asking
<1> HIDE DEF here, there
<1>6. shift \in Bijection(here, there)
  <2>1. shift \in [here -> there]
    BY <1>3
  <2>2. \A i, j \in here : shift[i] = shift[j] => i = j
    BY <1>5
  <2>3. \A j \in there : \E i \in here : shift[i] = j
    BY <1>4
  <2> HIDE DEF shift
  <2> QED
    BY <2>1, <2>2, <2>3 DEF Bijection, Injection, Surjection, IsInjective
<1>7. Cardinality(here) = Cardinality(there)
  BY <1>2, <1>6, FS_Bijection DEF ExistsBijection
<1> QED
  BY <1>7, TurnsAsking DEF here, there

\* A stretch that contains another holds at least as many turns.
LEMMA AskingMore ==
    ASSUME NEW msgs, NEW first \in Nat, NEW later \in Nat, NEW final \in Nat, first <= later
    PROVE  Cardinality(Asking(msgs, later, final)) <= Cardinality(Asking(msgs, first, final))
<1>1. Asking(msgs, later, final) \subseteq Asking(msgs, first, final)
  BY DEF Asking
<1> QED
  BY <1>1, AskingFinite, FS_Subset

\* What is added to both counts for both.
LEMMA TurnsAdded ==
    ASSUME NEW msgs \in Seq(Texts), NEW more \in Seq(Texts)
    PROVE  Turns(msgs \o more) = Turns(msgs) + Turns(more)
<1> DEFINE all == msgs \o more
           old == Asking(msgs, 1, Len(msgs))
           new == Asking(all, Len(msgs) + 1, Len(msgs) + Len(more))
<1>1. /\ all \in Seq(Texts) /\ Len(all) = Len(msgs) + Len(more)
      /\ Len(msgs) \in Nat /\ Len(more) \in Nat
      /\ \A i \in 1..Len(msgs) : all[i] = msgs[i]
      /\ \A i \in 1..Len(more) : all[Len(msgs) + i] = more[i]
  BY ConcatProperties
<1> HIDE DEF all
<1>2. Cardinality(new) = Turns(more)
  <2>1. Len(msgs) + Len(more) <= Len(all)
    BY <1>1
  <2>2. \A k \in Nat : k + Len(more) <= Len(all) /\ (\A i \in 1..Len(more) : more[i] = all[k + i])
            => Cardinality(Asking(all, k + 1, k + Len(more))) = Turns(more)
    BY ONLY <1>1, AskingShift
  <2> QED
    BY <1>1, <2>1, <2>2
<1>3. Asking(all, 1, Len(all)) = old \union new
  BY <1>1 DEF Asking
<1>4. old \intersect new = {}
  BY <1>1 DEF Asking
<1>5. IsFiniteSet(old) /\ IsFiniteSet(new)
  BY <1>1, AskingFinite
<1> HIDE DEF old, new
<1>6. Cardinality(old \union new) = Cardinality(old) + Cardinality(new)
  <2>1. Cardinality(old \union new) =
            Cardinality(old) + Cardinality(new) - Cardinality(old \intersect new)
    BY <1>5, FS_Union
  <2>2. Cardinality(old) \in Nat /\ Cardinality(new) \in Nat
    BY <1>5, FS_CardinalityType
  <2>3. Cardinality(old \intersect new) = 0
    BY <1>4, FS_EmptySet, Zenon
  <2> QED
    BY <2>1, <2>2, <2>3
<1>7. Turns(all) = Cardinality(Asking(all, 1, Len(all)))
      /\ Turns(msgs) = Cardinality(old)
  BY <1>1, TurnsAsking DEF old
<1> QED
  BY <1>2, <1>3, <1>6, <1>7 DEF all

\* The recent turns survive a cut that compaction can make.
LEMMA RecentTurns ==
    ASSUME NEW msgs \in Seq(Texts), NEW cut \in 0..Len(msgs), cut <= RecentStart(msgs)
    PROVE  cut = 0 \/ Turns(SubSeq(msgs, cut + 1, Len(msgs))) >= KeepRecent
<1> DEFINE asked == {i \in 1..Len(msgs) : msgs[i].role = "user"
                        /\ Cardinality({j \in i..Len(msgs) : msgs[j].role = "user"}) = KeepRecent}
           i0 == CHOOSE i \in asked : TRUE
           part == SubSeq(msgs, cut + 1, Len(msgs))
<1>1. RecentStart(msgs) = IF asked = {} THEN 0 ELSE i0 - 1
  BY DEF RecentStart
<1>2. asked # {} => /\ i0 \in 1..Len(msgs)
                    /\ Cardinality(Asking(msgs, i0, Len(msgs))) = KeepRecent
  BY DEF Asking
<1> HIDE DEF asked, i0
<1>3. CASE asked = {}
  BY <1>1, <1>3
<1>4. CASE asked # {}
  <2>1. cut \in Nat /\ Len(msgs) \in Nat /\ i0 \in Nat /\ cut + 1 <= i0
    BY <1>1, <1>2, <1>4
  <2>0. /\ part \in Seq(Texts) /\ Len(part) = Len(msgs) - cut
        /\ \A i \in 1..Len(msgs) - cut : part[i] = msgs[cut + 1 + i - 1]
    <3>1. \A i \in cut + 1 .. Len(msgs) : msgs[i] \in Texts
      BY <2>1
    <3> QED
      BY <2>1, <3>1, SubSeqProperties
  <2> HIDE DEF part
  <2>2. \A i \in 1..Len(part) : part[i] = msgs[cut + i]
    <3>1. \A i \in 1..Len(msgs) - cut : cut + 1 + i - 1 = cut + i
      BY <2>1
    <3> QED
      BY <2>0, <3>1
  <2>4. cut + Len(part) = Len(msgs)
    BY <2>0, <2>1
  <2>3. Cardinality(Asking(msgs, cut + 1, cut + Len(part))) = Turns(part)
    <3>1. cut + Len(part) <= Len(msgs)
      BY <2>1, <2>4
    <3>2. \A k \in Nat : k + Len(part) <= Len(msgs) /\ (\A i \in 1..Len(part) : part[i] = msgs[k + i])
              => Cardinality(Asking(msgs, k + 1, k + Len(part))) = Turns(part)
      BY ONLY <2>0, AskingShift, msgs \in Seq(Texts)
    <3> QED
      BY <2>1, <2>2, <3>1, <3>2
  <2>5. Cardinality(Asking(msgs, i0, Len(msgs))) <= Cardinality(Asking(msgs, cut + 1, Len(msgs)))
    BY <2>1, AskingMore
  <2>6. KeepRecent <= Turns(part)
    BY <1>2, <1>4, <2>3, <2>4, <2>5
  <2>7. Turns(part) \in Nat /\ KeepRecent \in Nat
    BY <2>0, TurnsAsking, AgentAssumption
  <2> QED
    BY <2>6, <2>7 DEF part
<1> QED
  BY <1>3, <1>4

\* A stretch that continues another ends where the two together end.
LEMMA EndsJoin ==
    ASSUME NEW part \in Seq(Texts), NEW more \in Seq(Texts), NEW whole, NEW length \in Nat,
           Ends(part, whole, length), Ends(more, whole, length + Len(more))
    PROVE  Ends(part \o more, whole, length + Len(more))
<1> DEFINE all == part \o more
<1>1. /\ Len(all) = Len(part) + Len(more) /\ Len(part) \in Nat /\ Len(more) \in Nat
      /\ \A i \in 1..Len(part) : all[i] = part[i]
      /\ \A i \in 1..Len(more) : all[Len(part) + i] = more[i]
  BY ConcatProperties
<1> HIDE DEF all
<1>2. Len(all) <= length + Len(more)
  BY <1>1 DEF Ends
<1>3. ASSUME NEW i \in 1..Len(all)
      PROVE  all[i] = whole[length + Len(more) - Len(all) + i]
  <2>1. CASE i <= Len(part)
    <3>1. i \in 1..Len(part) /\ length + Len(more) - Len(all) + i = length - Len(part) + i
      BY <1>1, <2>1
    <3> QED
      BY <1>1, <3>1 DEF Ends
  <2>2. CASE ~(i <= Len(part))
    <3> DEFINE j == i - Len(part)
    <3>1. /\ j \in 1..Len(more) /\ i = Len(part) + j
          /\ length + Len(more) - Len(all) + i = length + Len(more) - Len(more) + j
      BY <1>1, <2>2
    <3> HIDE DEF j
    <3>2. all[i] = more[j]
      BY <1>1, <3>1
    <3>3. more[j] = whole[length + Len(more) - Len(more) + j]
      BY <3>1 DEF Ends
    <3> QED
      BY <3>1, <3>2, <3>3
  <2> QED
    BY <2>1, <2>2
<1> QED
  BY <1>2, <1>3 DEF Ends, all

\* What a summary says of what is no longer in the messages.
Summed(lines, whole, before) ==
    \/ Len(lines) = before /\ Ends(lines, whole, before)
    \/ lines # <<>> /\ lines[1] = Dropped /\ Ends(Tail(lines), whole, before)

LEMMA SummedMore ==
    ASSUME NEW lines \in Seq(Texts), NEW more \in Seq(Texts), NEW whole, NEW before \in Nat,
           Summed(lines, whole, before), Ends(more, whole, before + Len(more))
    PROVE  Summed(lines \o more, whole, before + Len(more))
<1>1. /\ Len(lines \o more) = Len(lines) + Len(more) /\ Len(more) \in Nat
  BY ConcatProperties
<1>2. CASE Len(lines) = before /\ Ends(lines, whole, before)
  BY <1>1, <1>2, EndsJoin DEF Summed
<1>3. CASE lines # <<>> /\ lines[1] = Dropped /\ Ends(Tail(lines), whole, before)
  <2>1. Tail(lines) \in Seq(Texts)
    BY <1>3
  <2>2. Tail(lines \o more) = Tail(lines) \o more /\ lines \o more # <<>>
        /\ (lines \o more)[1] = lines[1]
    BY <1>3, ConcatProperties
  <2>3. Ends(Tail(lines) \o more, whole, before + Len(more))
    BY <1>3, <2>1, EndsJoin
  <2> QED
    BY <1>3, <2>2, <2>3 DEF Summed
<1> QED
  BY <1>2, <1>3 DEF Summed

\* Bounding a summary drops its oldest lines and says so.
LEMMA SummedBounded ==
    ASSUME NEW lines \in Seq(Texts), NEW whole, NEW before \in Nat, Summed(lines, whole, before)
    PROVE  Summed(Bounded(lines), whole, before)
<1>1. CASE Len(lines) <= MaxSummary
  BY <1>1 DEF Bounded
<1>2. CASE ~(Len(lines) <= MaxSummary)
  <2> DEFINE first == Len(lines) - MaxSummary + 1
             rest == SubSeq(lines, first, Len(lines))
             bounded == <<Dropped>> \o rest
  <2>1. Len(lines) \in Nat /\ MaxSummary \in Nat /\ first \in 2..(Len(lines) + 1)
    BY <1>2, AgentAssumption
  <2>2. /\ rest \in Seq(Texts) /\ Len(rest) = MaxSummary
        /\ \A i \in 1..MaxSummary : rest[i] = lines[Len(lines) - MaxSummary + i]
    <3>1. /\ rest \in Seq(Texts) /\ Len(rest) = Len(lines) - first + 1
          /\ \A i \in 1..Len(rest) : rest[i] = lines[first + i - 1]
      BY <2>1, SubSeqProperties
    <3>2. Len(lines) - first + 1 = MaxSummary
      BY <2>1
    <3>3. \A i \in 1..MaxSummary : first + i - 1 = Len(lines) - MaxSummary + i
      BY <2>1
    <3> HIDE DEF rest, first
    <3> QED
      BY <3>1, <3>2, <3>3
  <2>3. Bounded(lines) = bounded
    BY <1>2 DEF Bounded
  <2> HIDE DEF rest, first
  <2>4. bounded # <<>> /\ bounded[1] = Dropped /\ Tail(bounded) = rest
    BY <2>2, DroppedText
  <2>5. Ends(rest, whole, before)
    <3>1. CASE Len(lines) = before /\ Ends(lines, whole, before)
      <4>1. MaxSummary <= before
        BY <1>2, <2>1, <3>1
      <4>2. ASSUME NEW i \in 1..MaxSummary
            PROVE  lines[Len(lines) - MaxSummary + i] = whole[before - MaxSummary + i]
        <5> DEFINE j == Len(lines) - MaxSummary + i
        <5>1. j \in 1..Len(lines) /\ before - Len(lines) + j = before - MaxSummary + i
          BY <1>2, <2>1, <3>1
        <5> HIDE DEF j
        <5>2. lines[j] = whole[before - Len(lines) + j]
          BY <3>1, <5>1 DEF Ends
        <5> QED
          BY <5>1, <5>2 DEF j
      <4> QED
        BY <2>2, <4>1, <4>2 DEF Ends
    <3>2. CASE lines # <<>> /\ lines[1] = Dropped /\ Ends(Tail(lines), whole, before)
      <4> DEFINE tail == Tail(lines)
      <4>1. /\ Len(tail) = Len(lines) - 1
            /\ \A i \in 1..Len(tail) : tail[i] = lines[i + 1]
        BY <3>2
      <4>2. Len(tail) <= before /\ \A i \in 1..Len(tail) : tail[i] = whole[before - Len(tail) + i]
        BY <3>2 DEF Ends
      <4> HIDE DEF tail
      <4>3. MaxSummary <= before
        BY <1>2, <2>1, <4>1, <4>2
      <4>4. ASSUME NEW i \in 1..MaxSummary
            PROVE  lines[Len(lines) - MaxSummary + i] = whole[before - MaxSummary + i]
        <5> DEFINE j == Len(lines) - MaxSummary + i - 1
        <5>1. /\ j \in 1..Len(tail) /\ j + 1 = Len(lines) - MaxSummary + i
              /\ before - Len(tail) + j = before - MaxSummary + i
          BY <1>2, <2>1, <4>1
        <5> HIDE DEF j
        <5>2. lines[j + 1] = whole[before - Len(tail) + j]
          BY <4>1, <4>2, <5>1
        <5> QED
          BY <5>1, <5>2
      <4> QED
        BY <2>2, <4>3, <4>4 DEF Ends
    <3> QED
      BY <3>1, <3>2 DEF Summed
  <2> HIDE DEF bounded
  <2> QED
    BY <2>3, <2>4, <2>5 DEF Summed
<1> QED
  BY <1>1, <1>2

\* Compaction keeps the recent turns and sums up what it drops.
LEMMA CompactKept ==
    ASSUME NEW h \in Histories, NEW whole \in Seq(Texts), KeptAt(h, whole)
    PROVE  KeptAt(Compact(h), whole)
<1> DEFINE msgs == h.messages
           before == Len(whole) - Len(msgs)
<1>1. msgs \in Seq(Texts) /\ h.summary \in Seq(Texts) /\ Len(msgs) \in Nat /\ Len(whole) \in Nat
  BY DEF Histories
<1>2. PICK cut \in 0..Len(msgs) :
          /\ cut <= RecentStart(msgs)
          /\ Compact(h) = [messages |-> SubSeq(msgs, cut + 1, Len(msgs)),
                           summary  |-> Bounded(h.summary \o SubSeq(msgs, 1, cut))]
  BY CompactCut
<1> DEFINE part == SubSeq(msgs, cut + 1, Len(msgs))
           more == SubSeq(msgs, 1, cut)
           lines == h.summary \o more
<1>3. /\ Len(msgs) <= Len(whole) /\ \A i \in 1..Len(msgs) : msgs[i] = whole[before + i]
      /\ Turns(msgs) >= KeepRecent \/ Turns(msgs) = Turns(whole)
      /\ Summed(h.summary, whole, before)
  BY DEF KeptAt, Ends, Summed
<1> HIDE DEF msgs
<1>4. /\ part \in Seq(Texts) /\ Len(part) = Len(msgs) - cut
      /\ \A i \in 1..Len(part) : part[i] = msgs[cut + i]
  BY <1>1, SubSeqProperties
<1>5. /\ more \in Seq(Texts) /\ Len(more) = cut
      /\ \A i \in 1..cut : more[i] = msgs[i]
  BY <1>1, SubSeqProperties
<1>6. lines \in Seq(Texts)
  BY <1>1, <1>5, ConcatProperties
<1> HIDE DEF part, more
<1>7. before \in Nat /\ cut \in Nat /\ Len(whole) - Len(part) = before + cut
  BY <1>1, <1>3, <1>4
<1> HIDE DEF before
<1>8. Ends(part, whole, Len(whole))
  <2>1. Len(part) <= Len(whole)
    BY <1>1, <1>3, <1>4
  <2>2. ASSUME NEW i \in 1..Len(part)
        PROVE  part[i] = whole[Len(whole) - Len(part) + i]
    <3>1. cut + i \in 1..Len(msgs) /\ before + (cut + i) = Len(whole) - Len(part) + i
      BY <1>1, <1>4, <1>7 DEF before
    <3> QED
      BY <1>3, <1>4, <3>1
  <2> QED
    BY <2>1, <2>2 DEF Ends
<1>9. Turns(part) >= KeepRecent \/ Turns(part) = Turns(whole)
  <2>1. CASE cut = 0
    <3>1. part = msgs
      BY <1>1, <2>1 DEF part
    <3> QED
      BY <1>3, <3>1
  <2>2. CASE cut # 0
    BY <1>1, <1>2, <2>2, RecentTurns DEF part
  <2> QED
    BY <2>1, <2>2
<1>10. Ends(more, whole, before + Len(more))
  <2>1. ASSUME NEW i \in 1..cut
        PROVE  more[i] = whole[before + cut - cut + i]
    <3>1. i \in 1..Len(msgs) /\ before + cut - cut + i = before + i
      BY <1>1, <1>7
    <3> QED
      BY <1>3, <1>5, <3>1
  <2> QED
    BY <1>5, <1>7, <2>1 DEF Ends
<1>11. Summed(lines, whole, before + cut)
  BY <1>1, <1>3, <1>5, <1>7, <1>10, SummedMore
<1> HIDE DEF lines
<1>12. Summed(Bounded(lines), whole, before + cut)
  BY <1>6, <1>7, <1>11, SummedBounded
<1>13. Compact(h).messages = part /\ Compact(h).summary = Bounded(lines)
  BY <1>2 DEF part, lines, more
<1> QED
  BY <1>7, <1>8, <1>9, <1>12, <1>13 DEF KeptAt, Summed

\* What a run adds to its record it adds to all that was said.
LEMMA AddedKept ==
    ASSUME NEW h \in Histories, NEW whole \in Seq(Texts), NEW more \in Seq(Texts),
           KeptAt(h, whole)
    PROVE  KeptAt([h EXCEPT !.messages = @ \o more], whole \o more)
<1> DEFINE msgs == h.messages
           before == Len(whole) - Len(msgs)
           new == [h EXCEPT !.messages = @ \o more]
           said2 == whole \o more
<1>1. msgs \in Seq(Texts) /\ h.summary \in Seq(Texts) /\ Len(msgs) \in Nat /\ Len(whole) \in Nat
  BY DEF Histories
<1>2. new.messages = msgs \o more /\ new.summary = h.summary
  BY DEF Histories
<1>3. Ends(msgs, whole, Len(whole)) /\ Summed(h.summary, whole, before)
      /\ (Turns(msgs) >= KeepRecent \/ Turns(msgs) = Turns(whole))
  BY DEF KeptAt, Summed
<1> HIDE DEF msgs, new
<1>4. /\ said2 \in Seq(Texts) /\ Len(said2) = Len(whole) + Len(more) /\ Len(more) \in Nat
      /\ \A i \in 1..Len(whole) : said2[i] = whole[i]
      /\ \A i \in 1..Len(more) : said2[Len(whole) + i] = more[i]
  BY ConcatProperties
<1>5. Len(msgs \o more) = Len(msgs) + Len(more)
  BY <1>1, ConcatProperties
<1> HIDE DEF said2
<1>6. before \in 0..Len(whole) /\ Len(said2) - Len(msgs \o more) = before
  BY <1>1, <1>3, <1>4, <1>5 DEF Ends
<1> HIDE DEF before
<1>7. ASSUME NEW part \in Seq(Texts), NEW length \in 0..Len(whole), Ends(part, whole, length)
      PROVE  Ends(part, said2, length)
  <2>1. \A i \in 1..Len(part) : length - Len(part) + i \in 1..Len(whole)
    BY <1>1, <1>7 DEF Ends
  <2> QED
    BY <1>4, <1>7, <2>1 DEF Ends
<1>8. Ends(msgs \o more, said2, Len(said2))
  <2>1. Ends(msgs, said2, Len(whole))
    BY <1>1, <1>3, <1>7
  <2>2. Ends(more, said2, Len(whole) + Len(more))
    <3>1. \A i \in 1..Len(more) : Len(whole) + Len(more) - Len(more) + i = Len(whole) + i
      BY <1>1, <1>4
    <3> QED
      BY <1>1, <1>4, <3>1 DEF Ends
  <2> QED
    BY <1>1, <1>4, <2>1, <2>2, EndsJoin
<1>9. Summed(h.summary, said2, before)
  <2>1. h.summary # <<>> => Tail(h.summary) \in Seq(Texts)
    BY <1>1
  <2> QED
    BY <1>1, <1>3, <1>6, <1>7, <2>1 DEF Summed
<1>10. Turns(msgs \o more) >= KeepRecent \/ Turns(msgs \o more) = Turns(said2)
  <2>1. /\ Turns(msgs \o more) = Turns(msgs) + Turns(more)
        /\ Turns(said2) = Turns(whole) + Turns(more)
        /\ Turns(msgs) \in Nat /\ Turns(more) \in Nat
    BY <1>1, TurnsAdded, TurnsAsking DEF said2
  <2> QED
    BY <1>3, <2>1, AgentAssumption
<1> QED
  BY <1>2, <1>6, <1>8, <1>9, <1>10 DEF KeptAt, Summed, new, said2

\* The history a run was given is kept of its session until the run saves; runs have
\* sessions of their own.
BeforeSaving == {"deliver", "mark", "prompt", "tools", "model", "save"}

TalkInv ==
    /\ said \in [Sessions -> Seq(Texts)]
    /\ \A s \in Sessions :
          /\ Clean(said[s])
          /\ record[s] = None => said[s] = <<>>
          /\ record[s] # None => KeptAt(record[s], said[s])
    /\ \A r \in Runs :
          /\ IF Running(r) THEN sess[r] \in Sessions ELSE sess[r] = None
          /\ pc[r] \in BeforeSaving => KeptAt(prior[r], said[sess[r]])
    /\ \A q, r \in Runs : q # r /\ sess[q] # None => sess[q] # sess[r]

\* A step that only moves runs on.
LEMMA TalkSteady ==
    ASSUME TalkInv, UNCHANGED <<record, said, sess, prior>>,
           \A r \in Runs : pc'[r] # pc[r] => /\ Running(r) /\ Running(r)'
                                             /\ pc'[r] \in BeforeSaving => pc[r] \in BeforeSaving
    PROVE  TalkInv'
BY DEF TalkInv, Running

LEMMA TalkMoves ==
    ASSUME Shape, TalkInv, UNCHANGED <<record, said, sess, prior>>, NEW r \in Runs,
           pc[r] \in BeforeSaving, NEW label \in BeforeSaving, pc' = [pc EXCEPT ![r] = label]
    PROVE  TalkInv'
<1>1. \A q \in Runs : pc'[q] # pc[q] => q = r /\ pc'[q] = label
  BY DEF Shape, TypeOK
<1>2. Running(r) /\ (pc'[r] = label => Running(r)')
  BY DEF Running, BeforeSaving, Ended
<1> QED
  BY <1>1, <1>2, TalkSteady

LEMMA NewSessionFresh ==
    ASSUME \E s \in Sessions : Fresh(s)
    PROVE  NewSession \in Sessions /\ Fresh(NewSession)
BY DEF NewSession

LEMMA NothingKept == KeptAt(NoHistory, <<>>)
BY DEF KeptAt, NoHistory, Ends, Turns

\* A run that starts takes a session no other run has.
LEMMA TalkEnter ==
    ASSUME Shape, TalkInv, NEW r \in Runs, NEW label \in {"deliver", "prompt"},
           NEW s \in Sessions, Alone(s), NEW h, KeptAt(h, said[s]),
           NEW g, NEW depth, NEW caller, Enter(r, label, s, h, g, depth, caller),
           UNCHANGED <<record, said>>
    PROVE  TalkInv'
<1>1. /\ pc'[r] = label /\ sess'[r] = s /\ prior'[r] = h
      /\ \A q \in Runs \ {r} : pc'[q] = pc[q] /\ sess'[q] = sess[q] /\ prior'[q] = prior[q]
  BY DEF Enter, Goto, Shape, TypeOK
<1>2. \A q \in Runs : sess[q] # s
  BY DEF Alone
<1>3. Running(r)'
  BY <1>1 DEF Running, Ended
<1>4. \A q \in Runs : /\ IF Running(q)' THEN sess'[q] \in Sessions ELSE sess'[q] = None
                      /\ pc'[q] \in BeforeSaving => KeptAt(prior'[q], said'[sess'[q]])
  <2> SUFFICES ASSUME NEW q \in Runs
               PROVE  /\ IF Running(q)' THEN sess'[q] \in Sessions ELSE sess'[q] = None
                      /\ pc'[q] \in BeforeSaving => KeptAt(prior'[q], said'[sess'[q]])
    OBVIOUS
  <2>1. CASE q = r
    BY <1>1, <1>3, <2>1
  <2>2. CASE q # r
    <3>1. pc'[q] = pc[q] /\ sess'[q] = sess[q] /\ prior'[q] = prior[q] /\ (Running(q)' <=> Running(q))
      BY <1>1, <2>2 DEF Running
    <3> QED
      BY <3>1 DEF TalkInv
  <2> QED
    BY <2>1, <2>2
<1>5. \A p, q \in Runs : p # q /\ sess'[p] # None => sess'[p] # sess'[q]
  BY <1>1, <1>2 DEF TalkInv
<1> QED
  BY <1>4, <1>5 DEF TalkInv

LEMMA TalkLeave ==
    ASSUME TalkInv, NEW gone, NEW how \in Ended, Leave(gone, how)
    PROVE  TalkInv'
<1>1. \A q \in Runs : \/ pc'[q] = how /\ sess'[q] = None
                      \/ pc'[q] = pc[q] /\ sess'[q] = sess[q] /\ prior'[q] = prior[q]
  BY DEF Leave, Left
<1>2. UNCHANGED <<record, said>>
  BY DEF Leave, store
<1>3. how \notin BeforeSaving /\ how \in Ended
  BY DEF BeforeSaving, Ended
<1> QED
  BY <1>1, <1>2, <1>3 DEF TalkInv, Running

LEMMA TurnClean ==
    ASSUME NEW r, NEW b \in BOOLEAN
    PROVE  Clean(Turn(r, b))
<1>1. [role |-> "user", of |-> r] # Dropped /\ [role |-> "assistant", of |-> r] # Dropped
  <2>1. [role |-> "user", of |-> r].role # Dropped.role /\ [role |-> "assistant", of |-> r].role # Dropped.role
    BY DEF Dropped
  <2> QED
    BY <2>1
<1> DEFINE u == [role |-> "user", of |-> r]
           a == [role |-> "assistant", of |-> r]
           spoken == {u, a}
<1>2. <<u>> \in Seq(spoken) /\ <<a>> \in Seq(spoken) /\ <<>> \in Seq(spoken)
  OBVIOUS
<1>3. Turn(r, b) = (IF b THEN <<u>> ELSE <<>>) \o <<a>>
  BY DEF Turn
<1>4. \A line \in spoken : line # Dropped
  BY <1>1
<1> HIDE DEF u, a, spoken
<1>5. Turn(r, b) \in Seq(spoken)
  BY <1>2, <1>3, ConcatProperties
<1>6. \A i \in DOMAIN Turn(r, b) : Turn(r, b)[i] \in spoken
  BY <1>5
<1> QED
  BY <1>4, <1>6 DEF Clean

\* A run that saves adds its turn to the record and to what was said.
LEMMA TalkSave ==
    ASSUME Shape, TalkInv, NEW r \in Runs, Save(r)
    PROVE  TalkInv'
<1>1. PICK b \in BOOLEAN :
          /\ record' = [record EXCEPT ![sess[r]] = [prior[r] EXCEPT !.messages = @ \o Turn(r, b)]]
          /\ said' = [said EXCEPT ![sess[r]] = @ \o Turn(r, b)]
  BY DEF Save
<1> DEFINE s0 == sess[r]
           new == [prior[r] EXCEPT !.messages = @ \o Turn(r, b)]
           talk == said[s0] \o Turn(r, b)
<1>2. pc[r] = "save" /\ s0 \in Sessions /\ KeptAt(prior[r], said[s0])
  BY DEF Save, TalkInv, BeforeSaving, Running, Ended
<1>3. Turn(r, b) \in Seq(Texts) /\ prior[r] \in Histories /\ said[s0] \in Seq(Texts)
  BY <1>2, TurnTexts DEF Shape, TypeOK, TalkInv
<1>4. KeptAt(new, talk)
  BY <1>2, <1>3, AddedKept
<1>5. new # None
  <2>1. prior[r].messages \o Turn(r, b) \in Seq(Texts)
    BY <1>3, ConcatProperties DEF Histories
  <2>2. new \in Histories
    BY <1>3, <2>1 DEF Histories
  <2> QED
    BY <2>2, AgentAssumption
<1>6. talk \in Seq(Texts) /\ Clean(talk)
  <2>1. Clean(said[s0]) /\ Clean(Turn(r, b))
    BY <1>2, TurnClean DEF TalkInv
  <2>2. /\ talk \in Seq(Texts) /\ Len(talk) = Len(said[s0]) + Len(Turn(r, b))
        /\ \A i \in 1..Len(said[s0]) : talk[i] = said[s0][i]
        /\ \A i \in 1..Len(Turn(r, b)) : talk[Len(said[s0]) + i] = Turn(r, b)[i]
    BY <1>3, ConcatProperties
  <2>3. ASSUME NEW i \in DOMAIN talk
        PROVE  talk[i] # Dropped
    <3>1. CASE i <= Len(said[s0])
      <4>1. i \in 1..Len(said[s0]) /\ i \in DOMAIN said[s0]
        BY <1>3, <2>2, <2>3, <3>1
      <4> QED
        BY <2>1, <2>2, <4>1 DEF Clean
    <3>2. CASE ~(i <= Len(said[s0]))
      <4> DEFINE j == i - Len(said[s0])
      <4>0. i \in 1..Len(said[s0]) + Len(Turn(r, b)) /\ Len(said[s0]) \in Nat
            /\ DOMAIN Turn(r, b) = 1..Len(Turn(r, b)) /\ Len(Turn(r, b)) \in Nat
        BY <1>3, <2>2, <2>3
      <4>1. j \in 1..Len(Turn(r, b)) /\ i = Len(said[s0]) + j /\ j \in DOMAIN Turn(r, b)
        BY <3>2, <4>0
      <4> HIDE DEF j
      <4> QED
        BY <2>1, <2>2, <4>1 DEF Clean
    <3> QED
      BY <3>1, <3>2
  <2> QED
    BY <2>2, <2>3 DEF Clean
<1> HIDE DEF new, talk
<1>7. /\ record'[s0] = new /\ said'[s0] = talk
      /\ \A s \in Sessions \ {s0} : record'[s] = record[s] /\ said'[s] = said[s]
      /\ said' \in [Sessions -> Seq(Texts)]
  BY <1>1, <1>2, <1>6 DEF new, talk, Shape, TypeOK, TalkInv
<1>8. /\ \A q \in Runs : sess'[q] = sess[q] /\ prior'[q] = prior[q]
      /\ \A q \in Runs \ {r} : pc'[q] = pc[q]
      /\ pc'[r] = "consume"
  BY DEF Save, Goto, setup, Shape, TypeOK
<1> HIDE DEF s0
<1>9. \A s \in Sessions : /\ Clean(said'[s])
                          /\ record'[s] = None => said'[s] = <<>>
                          /\ record'[s] # None => KeptAt(record'[s], said'[s])
  BY <1>4, <1>5, <1>6, <1>7 DEF TalkInv
<1>10. ASSUME NEW q \in Runs
       PROVE  /\ IF Running(q)' THEN sess'[q] \in Sessions ELSE sess'[q] = None
              /\ pc'[q] \in BeforeSaving => KeptAt(prior'[q], said'[sess'[q]])
  <2>1. CASE q = r
    <3>1. Running(r)' /\ pc'[r] \notin BeforeSaving
      BY <1>8 DEF Running, Ended, BeforeSaving
    <3> QED
      BY <1>2, <1>8, <2>1, <3>1 DEF s0
  <2>2. CASE q # r
    <3>1. Running(q)' <=> Running(q)
      BY <1>8, <2>2 DEF Running
    <3>2. pc[q] \in BeforeSaving => sess[q] \in Sessions \ {s0}
      <4>1. pc[q] \in BeforeSaving => Running(q)
        BY DEF BeforeSaving, Running, Ended
      <4>2. sess[q] \in Sessions => sess[q] # s0
        BY <2>2, AgentAssumption DEF TalkInv, s0
      <4> QED
        BY <4>1, <4>2 DEF TalkInv
    <3> QED
      BY <1>7, <1>8, <2>2, <3>1, <3>2 DEF TalkInv
  <2> QED
    BY <2>1, <2>2
<1>11. \A p, q \in Runs : p # q /\ sess'[p] # None => sess'[p] # sess'[q]
  BY <1>8 DEF TalkInv
<1> QED
  BY <1>7, <1>9, <1>10, <1>11 DEF TalkInv

LEMMA TalkPreserved ==
    ASSUME Shape, WaitInv, TalkInv, [Next]_vars
    PROVE  TalkInv'
<1> USE DEF store, mailbox, setup, loop
<1>1. ASSUME NEW r \in Runs, Start(r)
      PROVE  TalkInv'
  <2>1. PICK p \in Profiles : Begin(r, p) \/ \E s \in Sessions : Resume(r, s, p)
    BY <1>1 DEF Start
  <2>2. CASE Begin(r, p)
    <3>1. NewSession \in Sessions /\ Alone(NewSession) /\ record[NewSession] = None
      BY <2>2, NewSessionFresh DEF Begin, Fresh
    <3>2. KeptAt(NoHistory, said[NewSession])
      BY <3>1, NothingKept DEF TalkInv
    <3> QED
      BY <2>2, <3>1, <3>2, TalkEnter DEF Begin
  <2>3. ASSUME NEW s \in Sessions, Resume(r, s, p)
        PROVE  TalkInv'
    <3>1. record[s] \in Histories /\ KeptAt(record[s], said[s]) /\ said[s] \in Seq(Texts)
      BY <2>3 DEF Resume, Shape, TypeOK, TalkInv
    <3>2. KeptAt(Compact(record[s]), said[s])
      BY <3>1, CompactKept
    <3> QED
      BY <2>3, <3>2, TalkEnter DEF Resume
  <2> QED
    BY <2>1, <2>2, <2>3
<1>2. ASSUME NEW r \in Runs, NEW c \in Runs, NEW p \in Profiles, Delegate(r, c, p)
      PROVE  TalkInv'
  <2>1. NewSession \in Sessions /\ Alone(NewSession) /\ record[NewSession] = None
    BY <1>2, NewSessionFresh DEF Delegate, Fresh
  <2>2. KeptAt(NoHistory, said[NewSession])
    BY <2>1, NothingKept DEF TalkInv
  <2> QED
    BY <1>2, <2>1, <2>2, TalkEnter DEF Delegate
<1>3. ASSUME NEW r \in Runs, Collect(r) \/ Mark(r) \/ Prompt(r) \/ Reply(r)
      PROVE  TalkInv'
  <2>1. pc[r] \in BeforeSaving /\ UNCHANGED <<record, said, sess, prior>>
    BY <1>3 DEF Collect, Mark, Prompt, Reply, Asked, BeforeSaving
  <2>2. UNCHANGED pc \/ \E label \in BeforeSaving : pc' = [pc EXCEPT ![r] = label]
    BY <1>3 DEF Collect, Mark, Prompt, Reply, Admit, Goto, BeforeSaving
  <2> QED
    BY <2>1, <2>2, TalkMoves, TalkSteady
<1>4. ASSUME NEW r \in Runs, OutOfSteps(r) \/ Finish(r) \/ EndStep(r)
      PROVE  TalkInv'
  <2>1. pc[r] \in BeforeSaving /\ UNCHANGED <<record, said, sess, prior>>
    BY <1>4 DEF OutOfSteps, Finish, EndStep, Asked, BeforeSaving
  <2>2. \E label \in BeforeSaving : pc' = [pc EXCEPT ![r] = label]
    BY <1>4 DEF OutOfSteps, Finish, EndStep, Goto, BeforeSaving
  <2> QED
    BY <2>1, <2>2, TalkMoves
<1>5. ASSUME NEW r \in Runs,
             \/ Malformed(r) \/ Refuse(r) \/ Work(r) \/ Return(r) \/ Consume(r)
             \/ \E m \in Messages, s \in Sessions : SendMessage(r, m, s)
      PROVE  TalkInv'
  <2>1. UNCHANGED <<record, said, sess, prior, pc>>
    BY <1>5 DEF Malformed, Refuse, Work, Return, Consume, SendMessage
  <2> QED
    BY <2>1, TalkSteady
<1>6. ASSUME NEW r \in Runs, Complete(r) \/ Abort(r) \/ Crash(r)
      PROVE  TalkInv'
  BY <1>6, TalkLeave DEF Complete, Abort, Crash, Ended
<1>7. ASSUME NEW m \in Messages, UserAcknowledges(m) \/ \E s \in Sessions : UserSends(m, s)
      PROVE  TalkInv'
  BY <1>7, TalkSteady DEF UserAcknowledges, UserSends
<1>8. CASE UNCHANGED vars
  BY <1>8, TalkSteady DEF vars
<1> QED
  BY <1>1, <1>2, <1>3, <1>4, <1>5, <1>6, <1>7, <1>8, TalkSave DEF Next, Step

-----------------------------------------------------------------------------
(* What a provider is sent. *)

\* Native calls come first in a batch, and what was executed follows it; a report answers.
NativesFirst(calls) ==
    \E n \in 0..Len(calls) : \A i \in DOMAIN calls : calls[i].native <=> i <= n

Answers(messages) ==
    LET natives == messages[1].calls
    IN messages[2] = IF natives = <<>> THEN Message("user", <<>>) ELSE Message("tool", natives)

CallsInv ==
    \A r \in Runs :
        /\ NativesFirst(batch[r])
        /\ \A i \in DOMAIN ran[r] : ran[r][i].call = batch[r][i]
        /\ report[r] # <<>> => Answers(report[r])

\* When they come first, the native calls are the first ones.
LEMMA NativesAreFirst ==
    ASSUME NEW calls \in Seq(Calls), NEW n \in 0..Len(calls),
           \A i \in DOMAIN calls : calls[i].native <=> i <= n
    PROVE  NativeCalls(calls) = [i \in 1..n |-> calls[i]]
<1> DEFINE upTo(i) == {j \in 1..i : calls[j].native}
           nth(k) == CHOOSE i \in DOMAIN calls : calls[i].native /\ Cardinality(upTo(i)) = k
<1>1. Len(calls) \in Nat /\ DOMAIN calls = 1..Len(calls)
  OBVIOUS
<1>2. \A i \in 1..n : upTo(i) = 1..i
  BY <1>1
<1>3. \A i \in 1..n : Cardinality(upTo(i)) = i
  <2>1. \A i \in 1..n : Cardinality(1..i) = i
    BY FS_Interval
  <2> QED
    BY <1>2, <2>1
<1>4. Cardinality(upTo(Len(calls))) = n
  <2>1. upTo(Len(calls)) = 1..n
    BY <1>1
  <2>2. Cardinality(1..n) = n
    BY FS_Interval
  <2> QED
    BY <2>1, <2>2
<1>5. ASSUME NEW k \in 1..n
      PROVE  nth(k) = k
  <2>1. k \in DOMAIN calls /\ calls[k].native /\ Cardinality(upTo(k)) = k
    BY <1>1, <1>3
  <2>2. \A i \in DOMAIN calls : calls[i].native /\ Cardinality(upTo(i)) = k => i = k
    BY <1>1, <1>3
  <2> HIDE DEF upTo
  <2> QED
    BY <2>1, <2>2
<1>6. NativeCalls(calls) = [k \in 1..Cardinality(upTo(Len(calls))) |-> calls[nth(k)]]
  BY DEF NativeCalls
<1> HIDE DEF upTo, nth
<1> QED
  BY <1>4, <1>5, <1>6

LEMMA RequestedNativesFirst ==
    ASSUME NEW a \in Asks
    PROVE  NativesFirst(Requested(a))
<1> DEFINE n == [i \in DOMAIN a.natives |-> Native(a.natives[i])]
           d == [i \in DOMAIN a.directives |-> Directive(a.directives[i])]
           all == n \o d
<1>1. a.natives \in Seq(Kinds) /\ a.directives \in Seq(Kinds)
  BY AgentAssumption
<1>2. /\ n \in Seq(Calls) /\ Len(n) = Len(a.natives)
      /\ \A i \in 1..Len(n) : n[i].native
  <2>1. \A i \in 1..Len(a.natives) : Native(a.natives[i]) \in Calls /\ Native(a.natives[i]).native
    BY <1>1 DEF Native, Calls
  <2> QED
    BY <1>1, <2>1, IsASeq
<1>3. /\ d \in Seq(Calls) /\ \A i \in 1..Len(d) : ~d[i].native
  <2>1. \A i \in 1..Len(a.directives) :
            Directive(a.directives[i]) \in Calls /\ ~Directive(a.directives[i]).native
    BY <1>1 DEF Directive, Calls
  <2> QED
    BY <1>1, <2>1, IsASeq
<1>4. Requested(a) = all
  BY DEF Requested, InOrder
<1> HIDE DEF n, d
<1>5. /\ Len(all) = Len(n) + Len(d) /\ Len(n) \in Nat /\ Len(d) \in Nat /\ DOMAIN all = 1..Len(all)
      /\ \A i \in 1..Len(n) : all[i] = n[i]
      /\ \A i \in 1..Len(d) : all[Len(n) + i] = d[i]
  <2>1. all \in Seq(Calls)
    BY <1>2, <1>3, ConcatProperties
  <2>2. DOMAIN all = 1..Len(all)
    BY <2>1
  <2>3. /\ Len(all) = Len(n) + Len(d)
        /\ \A i \in 1..Len(n) : all[i] = n[i]
        /\ \A i \in 1..Len(d) : all[Len(n) + i] = d[i]
    <3>1. n \in Seq(Calls) /\ d \in Seq(Calls)
      BY <1>2, <1>3
    <3> QED
      BY <3>1, ConcatProperties
  <2>4. Len(n) \in Nat /\ Len(d) \in Nat
    BY <1>2, <1>3
  <2> QED
    BY <2>2, <2>3, <2>4
<1> HIDE DEF all
<1>6. ASSUME NEW i \in DOMAIN all
      PROVE  all[i].native <=> i <= Len(n)
  <2>1. CASE i <= Len(n)
    BY <1>2, <1>5, <1>6, <2>1
  <2>2. CASE ~(i <= Len(n))
    <3> DEFINE j == i - Len(n)
    <3>1. j \in 1..Len(d) /\ i = Len(n) + j
      BY <1>5, <1>6, <2>2
    <3> HIDE DEF j
    <3> QED
      BY <1>3, <1>5, <2>2, <3>1
  <2> QED
    BY <2>1, <2>2
<1>7. Len(n) \in 0..Len(all)
  BY <1>5
<1> QED
  BY <1>4, <1>6, <1>7 DEF NativesFirst

\* What a step reports answers its native calls, in their order.
LEMMA ReportAnswers ==
    ASSUME Shape, CallsInv, NEW r \in Runs, Len(ran[r]) = Len(batch[r])
    PROVE  Answers(Report(r))
<1>1. batch[r] \in Seq(Calls) /\ ran[r] \in Seq([call : Calls, ok : BOOLEAN])
  BY DEF Shape, TypeOK
<1>2. PICK n \in 0..Len(batch[r]) : \A i \in DOMAIN batch[r] : batch[r][i].native <=> i <= n
  BY DEF CallsInv, NativesFirst
<1> DEFINE natives == NativeCalls(batch[r])
           answers == [i \in 1..Len(natives) |-> ran[r][i].call]
<1>3. natives = [i \in 1..n |-> batch[r][i]]
  BY <1>1, <1>2, NativesAreFirst
<1> HIDE DEF natives
<1>4. Len(natives) = n /\ DOMAIN natives = 1..n
  BY <1>3
<1>5. \A i \in 1..n : i \in DOMAIN ran[r] /\ ran[r][i].call = batch[r][i]
  BY <1>1 DEF CallsInv
<1>6. answers = natives
  BY <1>3, <1>4, <1>5
<1>7. Report(r) = <<Message("assistant", natives),
                    IF natives = <<>> THEN Message("user", <<>>) ELSE Message("tool", answers)>>
  BY DEF Report, natives
<1> HIDE DEF answers
<1>8. Report(r)[1].calls = natives
      /\ Report(r)[2] = IF natives = <<>> THEN Message("user", <<>>) ELSE Message("tool", answers)
  BY <1>7 DEF Message
<1> QED
  BY <1>6, <1>8 DEF Answers

LEMMA NoneFirst == NativesFirst(<<>>)
BY DEF NativesFirst

LEMMA CallsPreserved ==
    ASSUME Shape, WaitInv, CallsInv, [Next]_vars
    PROVE  CallsInv'
<1> USE DEF store, mailbox, setup, loop
<1> DEFINE Told(q) == /\ NativesFirst(batch[q])
                      /\ \A i \in DOMAIN ran[q] : ran[q][i].call = batch[q][i]
                      /\ report[q] # <<>> => Answers(report[q])
<1>0. \A q \in Runs : Told(q)
  BY DEF CallsInv
<1>1. ASSUME UNCHANGED <<batch, ran, report>>
      PROVE  CallsInv'
  BY <1>0, <1>1 DEF CallsInv
<1>2. ASSUME NEW r \in Runs, NEW calls, NativesFirst(calls), Admit(r, calls),
             report'[r] \in {report[r], <<>>}, \A q \in Runs \ {r} : report'[q] = report[q]
      PROVE  CallsInv'
  <2>1. PICK b \in {calls, <<>>} : batch' = [batch EXCEPT ![r] = b]
    BY <1>2 DEF Admit
  <2>2. NativesFirst(b)
    BY <1>2, NoneFirst
  <2>3. ran' = [ran EXCEPT ![r] = <<>>]
    BY <1>2 DEF Admit
  <2>4. /\ batch'[r] = b /\ ran'[r] = <<>>
        /\ \A q \in Runs \ {r} : batch'[q] = batch[q] /\ ran'[q] = ran[q]
    BY <2>1, <2>3 DEF Shape, TypeOK
  <2>5. \A q \in Runs \ {r} : /\ NativesFirst(batch'[q])
                              /\ \A i \in DOMAIN ran'[q] : ran'[q][i].call = batch'[q][i]
                              /\ report'[q] # <<>> => Answers(report'[q])
    BY <1>0, <1>2, <2>4
  <2>6. /\ NativesFirst(batch'[r]) /\ \A i \in DOMAIN ran'[r] : ran'[r][i].call = batch'[r][i]
        /\ report'[r] # <<>> => Answers(report'[r])
    BY <1>0, <1>2, <2>2, <2>4
  <2> QED
    BY <2>5, <2>6 DEF CallsInv
<1>3. ASSUME NEW r \in Runs, Prompt(r)
      PROVE  CallsInv'
  <2>1. PICK calls : NativesFirst(calls) /\ Admit(r, calls)
    BY <1>3, NoneFirst, RequestedNativesFirst DEF Prompt
  <2>2. UNCHANGED report
    BY <1>3 DEF Prompt
  <2> QED
    BY <1>2, <2>1, <2>2
<1>4. ASSUME NEW r \in Runs, Reply(r)
      PROVE  CallsInv'
  <2>1. PICK calls : NativesFirst(calls) /\ Admit(r, calls)
    BY <1>4, RequestedNativesFirst DEF Reply
  <2>2. report' = [report EXCEPT ![r] = <<>>]
    BY <1>4 DEF Reply, Asked
  <2>3. report'[r] \in {report[r], <<>>} /\ \A q \in Runs \ {r} : report'[q] = report[q]
    BY <2>2 DEF Shape, TypeOK
  <2> QED
    BY <1>2, <2>1, <2>3
<1>5. ASSUME NEW r \in Runs, NEW told, told = <<>> \/ Answers(told),
             report' = [report EXCEPT ![r] = told], UNCHANGED <<batch, ran>>
      PROVE  CallsInv'
  BY <1>0, <1>5 DEF CallsInv, Shape, TypeOK
<1>6. ASSUME NEW r \in Runs, Finish(r)
      PROVE  CallsInv'
  BY <1>5, <1>6 DEF Finish, Asked
<1>7. ASSUME NEW r \in Runs, Malformed(r)
      PROVE  CallsInv'
  <2> DEFINE told == <<Message("assistant", <<>>), Message("user", <<>>)>>
  <2>1. Answers(told)
    BY DEF Answers, Message
  <2>2. report' = [report EXCEPT ![r] = told] /\ UNCHANGED <<batch, ran>>
    BY <1>7 DEF Malformed
  <2> HIDE DEF told
  <2> QED
    BY <1>5, <2>1, <2>2
<1>8. ASSUME NEW r \in Runs, EndStep(r)
      PROVE  CallsInv'
  <2>1. Answers(Report(r))
    BY <1>8, ReportAnswers DEF EndStep
  <2>2. report' = [report EXCEPT ![r] = IF steps[r] = 0 THEN <<>> ELSE Report(r)]
        /\ UNCHANGED <<batch, ran>>
    BY <1>8 DEF EndStep
  <2> QED
    BY <1>5, <2>1, <2>2
<1>9. ASSUME NEW r \in Runs, NEW isOk \in BOOLEAN, Executed(r, isOk),
             Len(ran[r]) < Len(batch[r]), UNCHANGED <<batch, report>>
      PROVE  CallsInv'
  <2>1. ran' = [ran EXCEPT ![r] = Append(ran[r], [call |-> Current(r), ok |-> isOk])]
    BY <1>9 DEF Executed
  <2>2. ran[r] \in Seq([call : Calls, ok : BOOLEAN])
    BY DEF Shape, TypeOK
  <2>3. ASSUME NEW i \in DOMAIN ran'[r]
        PROVE  ran'[r][i].call = batch[r][i]
    <3>1. ran'[r] = Append(ran[r], [call |-> Current(r), ok |-> isOk])
      BY <2>1 DEF Shape, TypeOK
    <3>2. CASE i = Len(ran[r]) + 1
      BY <2>2, <2>3, <3>1, <3>2 DEF Current
    <3>3. CASE i # Len(ran[r]) + 1
      <4>1. i \in DOMAIN ran[r] /\ ran'[r][i] = ran[r][i]
        BY <2>2, <2>3, <3>1, <3>3
      <4> QED
        BY <1>0, <4>1
    <3> QED
      BY <3>2, <3>3
  <2>4. \A q \in Runs \ {r} : ran'[q] = ran[q]
    BY <2>1 DEF Shape, TypeOK
  <2> QED
    BY <1>0, <1>9, <2>3, <2>4 DEF CallsInv
<1>10. ASSUME NEW r \in Runs,
              \/ Refuse(r) \/ Work(r) \/ Return(r)
              \/ \E m \in Messages, s \in Sessions : SendMessage(r, m, s)
       PROVE  CallsInv'
  <2>1. PICK isOk \in BOOLEAN : Executed(r, isOk)
    BY <1>10 DEF Refuse, Work, Return, SendMessage
  <2>2. Len(ran[r]) < Len(batch[r]) /\ UNCHANGED <<batch, report>>
    BY <1>10 DEF Refuse, Work, Return, SendMessage, Allowed, Executing, WaitInv
  <2> QED
    BY <1>9, <2>1, <2>2
<1>11. ASSUME NEW gone, NEW how, Leave(gone, how)
       PROVE  CallsInv'
  <2>1. \A q \in Runs : \/ batch'[q] = <<>> /\ ran'[q] = <<>> /\ report'[q] = <<>>
                        \/ batch'[q] = batch[q] /\ ran'[q] = ran[q] /\ report'[q] = report[q]
    BY <1>11 DEF Leave, Left
  <2> QED
    BY <1>0, <2>1, NoneFirst DEF CallsInv
<1>12. ASSUME NEW r \in Runs, Complete(r) \/ Abort(r) \/ Crash(r)
       PROVE  CallsInv'
  BY <1>11, <1>12 DEF Complete, Abort, Crash
<1>13. ASSUME NEW r \in Runs,
              \/ Start(r) \/ Collect(r) \/ Mark(r) \/ OutOfSteps(r) \/ Save(r) \/ Consume(r)
              \/ \E c \in Runs, p \in Profiles : Delegate(r, c, p)
       PROVE  CallsInv'
  BY <1>1, <1>13 DEF Start, Begin, Resume, Collect, Mark, OutOfSteps, Save, Consume, Delegate
<1>14. ASSUME NEW m \in Messages, UserAcknowledges(m) \/ \E s \in Sessions : UserSends(m, s)
       PROVE  CallsInv'
  BY <1>1, <1>14 DEF UserAcknowledges, UserSends
<1>15. CASE UNCHANGED vars
  BY <1>1, <1>15 DEF vars
<1> QED
  BY <1>3, <1>4, <1>6, <1>7, <1>8, <1>10, <1>12, <1>13, <1>14, <1>15 DEF Next, Step

-----------------------------------------------------------------------------
(* The theorems. *)

LEMMA InitShape == Init => Shape
<1> SUFFICES ASSUME Init PROVE Shape
  OBVIOUS
<1>1. Turn(Past, TRUE) \in Seq(Texts) /\ NoHistory \in Histories
  BY TurnTexts, NoHistoryTexts
<1>2. [NoHistory EXCEPT !.messages = Turn(Past, TRUE)] \in Histories
  BY <1>1 DEF Histories
<1>3. record \in [Sessions -> Histories \union {None}]
  BY <1>2 DEF Init
<1>5. <<>> \in Seq(Calls) /\ <<>> \in Seq([call : Calls, ok : BOOLEAN]) /\ Len(<<>>) <= Len(<<>>)
  OBVIOUS
<1>6. 0 \in 0..MaxSteps
  BY AgentAssumption
<1>7. prior \in [Runs -> Histories] /\ grant = [r \in Runs |-> grant[r]]
      /\ \A r \in Runs : grant[r].tools \subseteq Kinds /\ grant[r].depth \in Nat
  BY <1>1 DEF Init, NoGrant
<1>8. /\ batch \in [Runs -> Seq(Calls)] /\ ran \in [Runs -> Seq([call : Calls, ok : BOOLEAN])]
      /\ \A r \in Runs : Len(ran[r]) <= Len(batch[r])
  BY <1>5 DEF Init
<1> QED
  BY <1>3, <1>6, <1>7, <1>8 DEF Init, Shape, TypeOK

\* The inductive invariant: besides the types, a caller waits only inside a call, what was
\* counted is executed between two batches, and a run that acknowledges has saved.
THEOREM AgentInvariant == Spec => []IInv
<1>1. Init => IInv
  <2> SUFFICES ASSUME Init PROVE IInv
    OBVIOUS
  <2>1. WaitInv /\ BudgetInv /\ MailInv
    BY AgentAssumption DEF Init, WaitInv, BudgetInv, MailInv, ConsumedWasNamed, BetweenBatches
  <2> QED
    BY <2>1, InitShape DEF IInv
<1>2. IInv /\ [Next]_vars => IInv'
  <2> SUFFICES ASSUME IInv, [Next]_vars PROVE IInv'
    OBVIOUS
  <2>1. Shape' /\ MailInv'
    BY ShapePreserved, MailPreserved DEF IInv
  <2>2. \A q \in Runs : Bookkept(q)'
    BY BookkeptParts, BookkeepingPreserved DEF IInv
  <2>3. WaitInv' /\ BudgetInv'
    BY <2>2 DEF WaitInv, BudgetInv, Bookkept
  <2> QED
    BY <2>1, <2>3 DEF IInv
<1> QED
  BY <1>1, <1>2, PTL DEF Spec

\* The variables stay in their sets for any number of runs, sessions and messages: a run
\* makes at most max_steps model calls and answers at most the calls of its batch.
THEOREM TypeCorrect == Spec => []TypeOK
<1>1. IInv => TypeOK
  BY DEF IInv, Shape
<1> QED
  BY <1>1, AgentInvariant, PTL

\* A run executes at most max_tool_calls calls, whatever its prompt and its replies ask
\* for, however deep it delegates and whatever fails.
THEOREM ToolBudgetHolds == Spec => []ToolBudgetHeld
<1>1. IInv => ToolBudgetHeld
  BY DEF IInv, BudgetInv, ToolBudgetHeld
<1> QED
  BY <1>1, AgentInvariant, PTL

\* A message is acknowledged only after a saved record named it, over any number of
\* runs, crashes and failures.
THEOREM MessagesAreConsumedAfterSaving == Spec => []ConsumedWasNamed
<1>1. IInv => ConsumedWasNamed
  BY DEF IInv, MailInv
<1> QED
  BY <1>1, AgentInvariant, PTL

\* The inductive invariant of delegation: every run is bound to the caller that waits for it.
THEOREM BondsHold == Spec => [](Shape /\ WaitInv /\ \A q \in Runs : Bond(q))
<1> DEFINE Bonds == \A q \in Runs : Bond(q)
<1>1. Init => Bonds
  BY AgentAssumption DEF Init, Bond, Running
<1>2. Shape /\ WaitInv /\ Bonds /\ [Next]_vars => Bonds'
  BY BondsPreserved
<1>3. IInv => Shape /\ WaitInv
  BY DEF IInv
<1> HIDE DEF Bonds
<1>4. Spec => [](Shape /\ WaitInv /\ Bonds)
  BY <1>1, <1>2, <1>3, AgentInvariant, PTL DEF Spec
<1> QED
  BY <1>4 DEF Bonds

\* Whatever a run did, each run it works for, however many there are between the two, could
\* have done itself, and none of their depth limits is exceeded.
THEOREM DelegationNarrowsHolds == Spec => []DelegationNarrows
<1>1. Shape /\ WaitInv /\ (\A q \in Runs : Bond(q)) => DelegationNarrows
  BY BondsNarrow
<1> QED
  BY <1>1, BondsHold, PTL

\* The inductive invariant of histories and reports: what a run was given is kept of its
\* session until it saves, sessions are not shared, native calls come first in a batch.
THEOREM TalkInvariant == Spec => [](TalkInv /\ CallsInv)
<1>1. Init => TalkInv
  <2> SUFFICES ASSUME Init PROVE TalkInv
    OBVIOUS
  <2> DEFINE turn == Turn(Past, TRUE)
             first == [NoHistory EXCEPT !.messages = turn]
  <2>1. /\ turn \in Seq(Texts) /\ Clean(turn) /\ NoHistory \in Histories /\ <<>> \in Seq(Texts)
        /\ Clean(<<>>)
    <3>1. turn \in Seq(Texts) /\ Clean(turn)
      BY TurnTexts, TurnClean
    <3>2. <<>> \in Seq(Texts) /\ Clean(<<>>)
      BY DEF Clean
    <3> QED
      BY <3>1, <3>2, NoHistoryTexts
  <2>2. first.messages = turn /\ first.summary = <<>> /\ first \in Histories
    BY <2>1 DEF NoHistory, Histories
  <2> HIDE DEF turn, first
  <2>3. KeptAt(first, turn)
    BY <2>1, <2>2 DEF KeptAt, Ends
  <2>4. \A s \in Sessions : record[s] = IF s \in Saved THEN first ELSE None
    BY DEF Init, first, turn
  <2>5. first # None
    BY <2>2, AgentAssumption
  <2>6. \A s \in Sessions : said[s] = IF s \in Saved THEN turn ELSE <<>>
    BY <2>2, <2>4, <2>5 DEF Init
  <2>7. said \in [Sessions -> Seq(Texts)]
    BY <2>1, <2>6 DEF Init
  <2>8. \A s \in Sessions : /\ Clean(said[s])
                            /\ record[s] = None => said[s] = <<>>
                            /\ record[s] # None => KeptAt(record[s], said[s])
    BY <2>1, <2>3, <2>4, <2>5, <2>6
  <2>9. \A r \in Runs : pc[r] = "idle" /\ sess[r] = None
    BY DEF Init
  <2> QED
    BY <2>7, <2>8, <2>9 DEF TalkInv, Running, BeforeSaving
<1>2. Init => CallsInv
  BY NoneFirst DEF Init, CallsInv
<1>3. IInv /\ TalkInv /\ CallsInv /\ [Next]_vars => TalkInv' /\ CallsInv'
  BY TalkPreserved, CallsPreserved DEF IInv
<1> QED
  BY <1>1, <1>2, <1>3, AgentInvariant, PTL DEF Spec

\* However often sessions are resumed, compacted and saved, and whatever fails between,
\* records end with what was said, keep the recent turns and sum up the rest; and every
\* step reports to the provider the results of the calls it asked for.
THEOREM HistoryWholeHolds == Spec => []HistoryWhole
<1>1. Shape /\ TalkInv /\ CallsInv => HistoryWhole
  <2> SUFFICES ASSUME Shape, TalkInv, CallsInv PROVE HistoryWhole
    OBVIOUS
  <2>1. ASSUME NEW s \in Sessions, record[s] # None
        PROVE  Kept(record[s], said[s])
    <3>1. /\ record[s] \in Histories /\ said[s] \in Seq(Texts) /\ Clean(said[s])
          /\ KeptAt(record[s], said[s])
      BY <2>1 DEF Shape, TypeOK, TalkInv
    <3> QED
      BY <3>1, KeptPlaces
  <2>2. HistoryKept
    BY <2>1 DEF HistoryKept, Kept
  <2>3. CallsAnswered
    BY DEF CallsAnswered, CallsInv, Answers
  <2> QED
    BY <2>2, <2>3 DEF HistoryWhole
<1>2. IInv => Shape
  BY DEF IInv
<1> QED
  BY <1>1, <1>2, AgentInvariant, TalkInvariant, PTL
=============================================================================
