---------------------------- MODULE AgentSessions ---------------------------
(***************************************************************************)
(* loro/runtime.py with its sessions, mailbox, budgets, context and tool   *)
(* registry: a run resumes a saved session or begins one, is given the     *)
(* messages other sessions sent it, asks the model for a bounded number of *)
(* steps, executes the calls it asks for, saves the session and then       *)
(* acknowledges the messages.  A call may delegate to a run of another     *)
(* profile in the same process.                                            *)
(*                                                                         *)
(* Runs of different sessions interleave.  One session is resumed by one   *)
(* run at a time (Alone): docs/session-messaging.md leaves the locking of  *)
(* concurrent writers out.  Approvals, policy and hooks decide whether a   *)
(* call is refused; here they may refuse any call.                         *)
(***************************************************************************)
EXTENDS Naturals, Sequences, FiniteSets, SequencesExt

CONSTANTS
    MaxRuns,       \* bound: runs, those of subagents included
    Sessions,      \* session identifiers
    Saved,         \* those with a record at first
    Messages,      \* messages of the mailbox
    Profiles,      \* what a profile grants: [tools, depth]
    Asks,          \* bound: what a reply may ask for, [natives, directives]
    Past,          \* the run that saved the sessions which exist at first
    None,          \* no run, no session, no record
    MaxSteps,      \* runtime.max_steps
    MaxToolCalls,  \* runtime.max_tool_calls
    MaxAtOnce,     \* bound: processes that run at the same time
    KeepRecent,    \* context.keep_recent_turns
    MaxHistory,    \* context.max_history_tokens
    MaxSummary     \* context.max_summary_tokens

Runs  == 1..MaxRuns  \* in the order they start
Kinds == {"work", "send", "delegate"}

\* The lines of a conversation, and what a record keeps of them.
Texts     == [role : {"user", "assistant", "dropped"}, of : Runs \union {Past, None}]
Histories == [messages : Seq(Texts), summary : Seq(Texts)]

ASSUME AgentAssumption ==
    /\ MaxRuns \in Nat /\ MaxAtOnce \in Nat
    /\ MaxSteps \in Nat \ {0} /\ MaxToolCalls \in Nat /\ KeepRecent \in Nat \ {0}
    /\ MaxHistory \in Nat /\ MaxSummary \in Nat
    /\ \A p \in Profiles : p.tools \subseteq Kinds /\ p.depth \in Nat
    /\ \A a \in Asks : a.natives \in Seq(Kinds) /\ a.directives \in Seq(Kinds)
    /\ Saved \subseteq Sessions
    /\ None \notin Runs /\ None \notin Sessions /\ None \notin Histories

VARIABLES
    record,      \* the saved sessions: [messages, summary]
    mail,        \* status of each message
    addressee,   \* and the session it was sent to
    pc,          \* where a run stands
    sess,        \* its session
    prior,       \* the history it was given, after compaction
    grant,       \* tools and depth limit of its profile
    level,       \* subagent depth
    parent,      \* the run that delegated to it
    steps,       \* model calls made
    counted,     \* UsageBudget.tool_calls
    batch,       \* the calls of the current step
    ran,         \* those of them executed, each with whether it took effect
    child,       \* the run a delegating call waits for
    report,      \* the messages its last step added, until they are sent to the model
    inbound,     \* the messages of the mailbox it was given
    said,        \* history: all turns saved to a session
    settled,     \* history: messages a saved record names, or the user acknowledged
    executed     \* history: number of calls a run executed

store   == <<record, said, settled>>
mailbox == <<mail, addressee>>
setup   == <<sess, prior, grant, level, parent>>
loop    == <<steps, counted, batch, ran, child, report>>
vars    == <<store, mailbox, pc, setup, loop, inbound, executed>>

Turn(r, withText) ==
    (IF withText THEN <<[role |-> "user", of |-> r]>> ELSE <<>>)
        \o <<[role |-> "assistant", of |-> r]>>

NoHistory == [messages |-> <<>>, summary |-> <<>>]
NoGrant   == [tools |-> {}, depth |-> 0]

Init ==
    /\ record = [s \in Sessions |->
                    IF s \in Saved THEN [NoHistory EXCEPT !.messages = Turn(Past, TRUE)] ELSE None]
    /\ said = [s \in Sessions |-> IF record[s] = None THEN <<>> ELSE record[s].messages]
    /\ mail = [m \in Messages |-> "unsent"]
    /\ addressee = [m \in Messages |-> None]
    /\ pc = [r \in Runs |-> "idle"]
    /\ sess = [r \in Runs |-> None]
    /\ prior = [r \in Runs |-> NoHistory]
    /\ grant = [r \in Runs |-> NoGrant]
    /\ level = [r \in Runs |-> 0]
    /\ parent = [r \in Runs |-> None]
    /\ steps = [r \in Runs |-> 0]
    /\ counted = [r \in Runs |-> 0]
    /\ batch = [r \in Runs |-> <<>>]
    /\ ran = [r \in Runs |-> <<>>]
    /\ child = [r \in Runs |-> None]
    /\ report = [r \in Runs |-> <<>>]
    /\ inbound = [r \in Runs |-> {}]
    /\ settled = {}
    /\ executed = [r \in Runs |-> 0]

Ended      == {"done", "failed"}
Running(r) == pc[r] \notin Ended \union {"idle"}
Goto(r, label) == pc' = [pc EXCEPT ![r] = label]

\* The locals of a run go with it.
Left(f, gone, initial) == [r \in Runs |-> IF r \in gone THEN initial ELSE f[r]]

Leave(gone, how) ==
    /\ pc' = Left(pc, gone, how)
    /\ sess' = Left(sess, gone, None)
    /\ prior' = Left(prior, gone, NoHistory)
    /\ grant' = Left(grant, gone, NoGrant)
    /\ level' = Left(level, gone, 0)
    /\ parent' = Left(parent, gone, None)
    /\ steps' = Left(steps, gone, 0)
    /\ counted' = Left(counted, gone, 0)
    /\ batch' = Left(batch, gone, <<>>)
    /\ ran' = Left(ran, gone, <<>>)
    /\ child' = Left(child, gone, None)
    /\ report' = Left(report, gone, <<>>)
    /\ inbound' = Left(inbound, gone, {})
    /\ executed' = Left(executed, gone, 0)
    /\ UNCHANGED <<store, mailbox>>

-----------------------------------------------------------------------------
(* context.py.  A message costs two tokens and a line of the summary one.  *)

Dropped == [role |-> "dropped", of |-> None]

\* Faulty variant: one turn too few is kept.
RecentStartLate(msgs) ==
    LET asked == {i \in 1..Len(msgs) : msgs[i].role = "user"
                      /\ Cardinality({j \in i..Len(msgs) : msgs[j].role = "user"}) < KeepRecent}
    IN IF asked = {} THEN Len(msgs) ELSE (CHOOSE i \in asked : \A j \in asked : i <= j) - 1

\* How many messages come before the last KeepRecent turns.
RecentStart(msgs) ==
    LET asked == {i \in 1..Len(msgs) : msgs[i].role = "user"
                      /\ Cardinality({j \in i..Len(msgs) : msgs[j].role = "user"}) = KeepRecent}
    IN IF asked = {} THEN 0 ELSE (CHOOSE i \in asked : TRUE) - 1

\* The places where the loop of compact_history can stop: whole turns are dropped.
Cuts(msgs) ==
    {0} \union {k \in 1..RecentStart(msgs) : k = RecentStart(msgs) \/ msgs[k + 1].role = "user"}

Tokens(msgs, summary, cut) == 2 * (Len(msgs) - cut) + Len(summary) + cut

Bounded(lines) ==
    IF Len(lines) <= MaxSummary THEN lines
    ELSE <<Dropped>> \o SubSeq(lines, Len(lines) - MaxSummary + 1, Len(lines))

Compact(history) ==
    LET msgs == history.messages
        fits == {k \in Cuts(msgs) : Tokens(msgs, history.summary, k) <= MaxHistory}
        last == CHOOSE k \in Cuts(msgs) : \A j \in Cuts(msgs) : j <= k
        cut  == IF fits = {} THEN last ELSE CHOOSE k \in fits : \A j \in fits : k <= j
    IN [messages |-> SubSeq(msgs, cut + 1, Len(msgs)),
        summary  |-> Bounded(history.summary \o SubSeq(msgs, 1, cut))]

-----------------------------------------------------------------------------
(* AgentRuntime._run up to the first model call. *)

Unborn(r) == pc[r] = "idle" /\ \A q \in Runs : q < r => pc[q] # "idle"
Alone(s)  == \A q \in Runs : sess[q] # s
Fresh(s)  == record[s] = None /\ Alone(s)
NewSession == CHOOSE s \in Sessions : Fresh(s)

Enter(r, label, s, history, rights, depth, caller) ==
    /\ Goto(r, label)
    /\ sess' = [sess EXCEPT ![r] = s]
    /\ prior' = [prior EXCEPT ![r] = history]
    /\ grant' = [grant EXCEPT ![r] = rights]
    /\ level' = [level EXCEPT ![r] = depth]
    /\ parent' = [parent EXCEPT ![r] = caller]

Resume(r, s, p) ==
    /\ Unborn(r) /\ record[s] # None /\ Alone(s)
    /\ Enter(r, "deliver", s, Compact(record[s]), p, 0, None)
    /\ UNCHANGED <<store, mailbox, loop, inbound, executed>>

Begin(r, p) ==
    /\ Unborn(r) /\ \E s \in Sessions : Fresh(s)
    /\ Enter(r, "prompt", NewSession, NoHistory, p, 0, None)
    /\ UNCHANGED <<store, mailbox, loop, inbound, executed>>

Outstanding(s) == {m \in Messages : addressee[m] = s /\ mail[m] \in {"queued", "delivered"}}

\* SessionMailbox.deliver lists the files once and then writes them one by one.
Collect(r) ==
    /\ pc[r] = "deliver"
    /\ inbound' = [inbound EXCEPT ![r] = Outstanding(sess[r])]
    /\ Goto(r, "mark")
    /\ UNCHANGED <<store, mailbox, setup, loop, executed>>

Mark(r) ==
    LET queued == {m \in inbound[r] : mail[m] = "queued"}
    IN /\ pc[r] = "mark"
       /\ IF queued = {} THEN Goto(r, "prompt") /\ UNCHANGED mail
          ELSE /\ \E m \in queued : mail' = [mail EXCEPT ![m] = "delivered"]
               /\ UNCHANGED pc
       /\ UNCHANGED <<store, addressee, setup, loop, inbound, executed>>

\* Faulty variant: the calls are counted after the limit was checked.
WithinBudgetBefore(r, n) == counted[r] <= MaxToolCalls

\* UsageBudget.add_tool_calls
WithinBudget(r, n) == counted[r] + n <= MaxToolCalls

\* The calls of one step are counted together, and all refused at the limit.
Admit(r, calls) ==
    /\ counted' = [counted EXCEPT ![r] = @ + Len(calls)]
    /\ IF WithinBudget(r, Len(calls))
       THEN batch' = [batch EXCEPT ![r] = calls] /\ Goto(r, "tools")
       ELSE batch' = [batch EXCEPT ![r] = <<>>] /\ Goto(r, "save")
    /\ ran' = [ran EXCEPT ![r] = <<>>]

Native(k)    == [kind |-> k, native |-> TRUE]
Directive(k) == [kind |-> k, native |-> FALSE]

\* Faulty variant: directives come before native calls.
DirectivesFirst(natives, directives) == directives \o natives

InOrder(natives, directives) == natives \o directives

Requested(a) ==
    InOrder([i \in DOMAIN a.natives |-> Native(a.natives[i])],
            [i \in DOMAIN a.directives |-> Directive(a.directives[i])])

\* Directives of the prompt are executed before the first model call.
Prompt(r) ==
    /\ pc[r] = "prompt"
    /\ \/ Admit(r, <<>>)
       \/ \E a \in Asks : a.natives = <<>> /\ Admit(r, Requested(a))
    /\ UNCHANGED <<store, mailbox, setup, steps, child, report, inbound, executed>>

-----------------------------------------------------------------------------
(* The loop over steps. *)

Message(who, what) == [role |-> who, calls |-> what]

\* Faulty variant: one step more than the limit.
MoreStepsThanMax(r) == steps[r] <= MaxSteps

MoreSteps(r) == steps[r] < MaxSteps

Asked(r) == /\ pc[r] = "model" /\ MoreSteps(r)
            /\ steps' = [steps EXCEPT ![r] = @ + 1]
            /\ report' = [report EXCEPT ![r] = <<>>]

OutOfSteps(r) ==
    /\ pc[r] = "model" /\ ~MoreSteps(r)
    /\ Goto(r, "save")
    /\ UNCHANGED <<store, mailbox, setup, loop, inbound, executed>>

\* No calls, a provider error, or a budget of bytes, tokens or cost.
Finish(r) ==
    /\ Asked(r)
    /\ Goto(r, "save")
    /\ UNCHANGED <<store, mailbox, setup, counted, batch, ran, child, inbound, executed>>

\* A directive that does not parse: nothing is executed, native calls neither.
Malformed(r) ==
    /\ pc[r] = "model" /\ MoreSteps(r)
    /\ steps' = [steps EXCEPT ![r] = @ + 1]
    /\ report' = [report EXCEPT ![r] = <<Message("assistant", <<>>), Message("user", <<>>)>>]
    /\ UNCHANGED <<store, mailbox, pc, setup, counted, batch, ran, child, inbound, executed>>

Reply(r) ==
    /\ Asked(r)
    /\ \E a \in Asks : Admit(r, Requested(a))
    /\ UNCHANGED <<store, mailbox, setup, child, inbound, executed>>

\* The native calls of a batch, in the order of the batch.
NativeCalls(calls) ==
    LET upTo(i) == {j \in 1..i : calls[j].native}
        nth(n)  == CHOOSE i \in DOMAIN calls : calls[i].native /\ Cardinality(upTo(i)) = n
    IN [n \in 1..Cardinality(upTo(Len(calls))) |-> calls[nth(n)]]

\* The messages that report a step: the calls asked for, and what was executed for each.
Report(r) ==
    LET natives == NativeCalls(batch[r])
        answers == [i \in 1..Len(natives) |-> ran[r][i].call]
    IN <<Message("assistant", natives),
         IF natives = <<>> THEN Message("user", <<>>) ELSE Message("tool", answers)>>

EndStep(r) ==
    /\ pc[r] = "tools" /\ Len(ran[r]) = Len(batch[r])
    /\ Goto(r, "model")
    /\ report' = [report EXCEPT ![r] = IF steps[r] = 0 THEN <<>> ELSE Report(r)]
    /\ UNCHANGED <<store, mailbox, setup, steps, counted, batch, ran, child, inbound, executed>>

-----------------------------------------------------------------------------
(* ToolRegistry.execute *)

Current(r)   == batch[r][Len(ran[r]) + 1]
Executing(r) == pc[r] = "tools" /\ child[r] = None /\ Len(ran[r]) < Len(batch[r])
Allowed(r, k) == Executing(r) /\ Current(r).kind = k /\ k \in grant[r].tools

Executed(r, isOk) ==
    /\ ran' = [ran EXCEPT ![r] = Append(@, [call |-> Current(r), ok |-> isOk])]
    /\ executed' = [executed EXCEPT ![r] = @ + 1]

\* The profile, policy, approvals, a hook or the arguments refuse any call.
Refuse(r) ==
    /\ Executing(r) /\ Executed(r, FALSE)
    /\ UNCHANGED <<store, mailbox, pc, setup, steps, counted, batch, child, report, inbound>>

\* A call with effects outside the model: files, processes, remote services.
Work(r) ==
    /\ Allowed(r, "work") /\ Executed(r, TRUE)
    /\ UNCHANGED <<store, mailbox, pc, setup, steps, counted, batch, child, report, inbound>>

Deposit(m, s) ==
    /\ mail[m] = "unsent" /\ record[s] # None
    /\ mail' = [mail EXCEPT ![m] = "queued"]
    /\ addressee' = [addressee EXCEPT ![m] = s]

SendMessage(r, m, s) ==
    /\ Allowed(r, "send") /\ Deposit(m, s) /\ Executed(r, TRUE)
    /\ UNCHANGED <<store, pc, setup, steps, counted, batch, child, report, inbound>>

\* Faulty variant: the subagent gets what its own profile grants.
NarrowedNot(r, p) == p

\* run_subagent: what the profile grants, narrowed to what the caller has.
Narrowed(r, p) ==
    [tools |-> p.tools \intersect grant[r].tools,
     depth |-> IF p.depth < grant[r].depth THEN p.depth ELSE grant[r].depth]

Delegate(r, c, p) ==
    /\ Allowed(r, "delegate") /\ level[r] < grant[r].depth
    /\ Unborn(c) /\ \E s \in Sessions : Fresh(s)
    /\ Enter(c, "prompt", NewSession, NoHistory, Narrowed(r, p), level[r] + 1, r)
    /\ child' = [child EXCEPT ![r] = c]
    /\ UNCHANGED <<store, mailbox, steps, counted, batch, ran, report, inbound, executed>>

\* Faulty variant: only a result answers the call.
AnsweredByResult(r) == pc[child[r]] = "done"

\* A result or an exception of the subagent answers the call.
Answered(r) == pc[child[r]] \in Ended

Return(r) ==
    /\ pc[r] = "tools" /\ child[r] # None /\ Answered(r)
    /\ child' = [child EXCEPT ![r] = None]
    /\ Executed(r, pc[child[r]] = "done")
    /\ UNCHANGED <<store, mailbox, pc, setup, steps, counted, batch, report, inbound>>

-----------------------------------------------------------------------------
(* The end of a run. *)

\* The user turn is missing if the prompt was nothing but directives.
Save(r) ==
    /\ pc[r] = "save"
    /\ \E withText \in BOOLEAN :
          /\ record' = [record EXCEPT ![sess[r]] =
                           [prior[r] EXCEPT !.messages = @ \o Turn(r, withText)]]
          /\ said' = [said EXCEPT ![sess[r]] = @ \o Turn(r, withText)]
    /\ settled' = settled \union inbound[r]
    /\ Goto(r, "consume")
    /\ UNCHANGED <<mailbox, setup, loop, inbound, executed>>

\* Faulty variant: whatever the mailbox holds by now is acknowledged.
ConsumableNow(r) == Outstanding(sess[r])

Consumable(r) == {m \in inbound[r] : mail[m] # "acknowledged"}

Consume(r) ==
    /\ pc[r] = "consume"
    /\ \E m \in Consumable(r) : mail' = [mail EXCEPT ![m] = "acknowledged"]
    /\ UNCHANGED <<store, addressee, pc, setup, loop, inbound, executed>>

Complete(r) == pc[r] = "consume" /\ Consumable(r) = {} /\ Leave({r}, "done")

\* An exception: a blocked prompt, a directive of the prompt that does not parse, a record
\* over its limit, an audit event that fails.  What a subagent raises ends the subagent.
Abort(r) ==
    /\ Running(r) /\ child[r] = None
    /\ Leave({r}, "failed")

\* The run itself, the run it works for, and so on: what every set of runs holds that holds
\* this one and the caller of each of its own.
Lineage(r) ==
    {a \in Runs : \A S \in SUBSET Runs :
        r \in S /\ (\A q \in S : parent[q] \in S \union {None}) => a \in S}

\* The process dies, with the runs it delegated to.
Crash(r) ==
    /\ Running(r) /\ parent[r] = None
    /\ Leave({q \in Runs : Running(q) /\ r \in Lineage(q)}, "failed")

\* loro sessions send
UserSends(m, s) ==
    /\ Deposit(m, s)
    /\ UNCHANGED <<store, pc, setup, loop, inbound, executed>>

\* loro sessions ack
UserAcknowledges(m) ==
    /\ mail[m] = "delivered"
    /\ mail' = [mail EXCEPT ![m] = "acknowledged"]
    /\ settled' = settled \union {m}
    /\ UNCHANGED <<record, said, addressee, pc, setup, loop, inbound, executed>>

-----------------------------------------------------------------------------
Start(r) ==
    /\ Cardinality({q \in Runs : Running(q) /\ parent[q] = None}) < MaxAtOnce
    /\ \E p \in Profiles : Begin(r, p) \/ \E s \in Sessions : Resume(r, s, p)

Step(r) ==
    \/ Collect(r) \/ Mark(r) \/ Prompt(r)
    \/ OutOfSteps(r) \/ Finish(r) \/ Malformed(r) \/ Reply(r) \/ EndStep(r)
    \/ Refuse(r) \/ Work(r) \/ Return(r)
    \/ \E m \in Messages, s \in Sessions : SendMessage(r, m, s)
    \/ \E c \in Runs, p \in Profiles : Delegate(r, c, p)
    \/ Save(r) \/ Consume(r) \/ Complete(r)

Next ==
    \/ \E r \in Runs : Start(r) \/ Step(r) \/ Abort(r) \/ Crash(r)
    \/ \E m \in Messages : UserAcknowledges(m) \/ \E s \in Sessions : UserSends(m, s)

Spec     == Init /\ [][Next]_vars
FairSpec == Spec /\ WF_vars(\E r \in Runs : Step(r))

-----------------------------------------------------------------------------
(* Properties *)

Calls == [kind : Kinds, native : BOOLEAN]

\* The variables stay in their sets: a run makes at most max_steps model calls, and the
\* loop's bookkeeping (batch, calls executed, statuses) is what runtime.py can hold.
TypeOK ==
    /\ record \in [Sessions -> Histories \union {None}]
    /\ prior \in [Runs -> Histories]
    /\ mail \in [Messages -> {"unsent", "queued", "delivered", "acknowledged"}]
    /\ addressee \in [Messages -> Sessions \union {None}]
    /\ pc \in [Runs -> {"idle", "deliver", "mark", "prompt", "tools", "model", "save",
                        "consume"} \union Ended]
    /\ sess \in [Runs -> Sessions \union {None}]
    /\ \A r \in Runs : grant[r].tools \subseteq Kinds /\ grant[r].depth \in Nat
    /\ level \in [Runs -> Nat]
    /\ parent \in [Runs -> Runs \union {None}] /\ child \in [Runs -> Runs \union {None}]
    /\ steps \in [Runs -> 0..MaxSteps]
    /\ counted \in [Runs -> Nat] /\ executed \in [Runs -> Nat]
    /\ batch \in [Runs -> Seq(Calls)]
    /\ ran \in [Runs -> Seq([call : Calls, ok : BOOLEAN])]
    /\ \A r \in Runs : Len(ran[r]) <= Len(batch[r])
    /\ inbound \in [Runs -> SUBSET Messages]
    /\ settled \subseteq Messages

\* A run executes at most max_tool_calls calls, those of its prompt and refused ones
\* included, however replies mix native calls and directives (budgets.py:65-68).
ToolBudgetHeld == \A r \in Runs : executed[r] <= MaxToolCalls

\* A message is acknowledged only by the user or after a saved record named it: no crash,
\* failed run or message that came during the run makes one disappear
\* (docs/session-messaging.md:3-5).
ConsumedWasNamed == \A m \in Messages : mail[m] = "acknowledged" => m \in settled

Suffix(part, whole) ==
    /\ Len(part) <= Len(whole)
    /\ part = SubSeq(whole, Len(whole) - Len(part) + 1, Len(whole))

Turns(msgs) == Cardinality({i \in DOMAIN msgs : msgs[i].role = "user"})

\* However often a session is resumed and compacted, its record ends with what was said
\* last, keeps the recent turns word for word, and what is no longer there is in the
\* summary in the same order, unless the summary says that older lines were dropped.
HistoryKept ==
    \A s \in Sessions : record[s] # None =>
        LET msgs  == record[s].messages
            lines == record[s].summary
            older == SubSeq(said[s], 1, Len(said[s]) - Len(msgs))
        IN /\ Suffix(msgs, said[s])
           /\ Turns(msgs) >= KeepRecent \/ Turns(msgs) = Turns(said[s])
           /\ IF lines # <<>> /\ Head(lines) = Dropped THEN Suffix(Tail(lines), older)
              ELSE lines = older

\* What a provider requires of the messages it is sent: native calls are answered by the
\* next message, each by the result of that very call, and nothing else is.
CallsAnswered ==
    \A r \in Runs : report[r] # <<>> =>
        LET natives == report[r][1].calls
        IN report[r][2] = IF natives = <<>> THEN Message("user", <<>>)
                          ELSE Message("tool", natives)

\* What is kept of a conversation and what a provider is sent of it are well formed.
HistoryWhole == HistoryKept /\ CallsAnswered

\* Delegation only narrows: a run does nothing that a run it works for could not do
\* itself, and none of those allows a depth that is exceeded (runtime.py:646-672).
DelegationNarrows ==
    \A r \in Runs : \A a \in Lineage(r) :
        /\ \A i \in DOMAIN ran[r] : ran[r][i].ok => ran[r][i].call.kind \in grant[a].tools
        /\ a # r => level[r] <= grant[a].depth

\* Every run ends: steps are bounded, and a caller never waits for a subagent that ended.
RunsStop == []<>(\A r \in Runs : ~Running(r))
=============================================================================
