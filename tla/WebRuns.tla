------------------------------ MODULE WebRuns ------------------------------
(***************************************************************************)
(* The chat runs of the web interface: loro/webui/services.py (RunManager  *)
(* and its threads), conversations.py (the database) and aais_bridge.py    *)
(* (the approvals both the browser and other processes decide).            *)
(*                                                                         *)
(* Every HTTP handler is a coroutine that never awaits, so it is one step; *)
(* the run threads, the speakers of a parallel turn and the processes that *)
(* share the approval store interleave with it.  A transaction of the      *)
(* database or of the approval store is atomic and survives a crash.       *)
(*                                                                         *)
(* A run is its number, a message says only who wrote it and for which     *)
(* run, and AgentRuntime.run is what a speaker may do between two events.  *)
(***************************************************************************)
EXTENDS Integers, Sequences, FiniteSets, SequencesExt

CONSTANTS
    Conversations,
    Roster,            \* the participants of a group, in the order picked
    Coordinator,       \* one of them
    ModesOf,           \* conversation -> the modes it may be created with
    Ceiling,           \* max_concurrent
    MaxRetained,       \* MAX_RETAINED_RUNS
    MaxRuns,           \* bound on the messages sent
    MaxExtras          \* bound on what a turn need not meet: approvals, tool
                       \* messages, cancellations, changes of a conversation,
                       \* exceptions and restarts, together

ASSUME WebRunsAssumption ==
    /\ Roster \in Seq(Range(Roster)) /\ IsInjective(Roster) /\ Coordinator \in Range(Roster)
    /\ ModesOf \in [Conversations ->
           SUBSET {"solo", "sequential", "parallel", "coordinator"}]
    /\ Ceiling \in Nat \ {0} /\ MaxRetained \in Nat \ {0} /\ MaxRuns \in Nat
    /\ MaxExtras \in Nat

Runs     == 1..MaxRuns
Speakers == Range(Roster) \union {"self"}
Asks     == Runs \X Speakers

VARIABLES
    status,        \* conversation -> active, archived or deleted
    mode,          \* conversation -> how its turns are taken
    sessionOf,     \* conversation -> its session_id: its own id, or the run whose
                   \* first result named a session
    stored,        \* the sessions that exist: the runs that saved one
    messages,      \* conversation -> its transcript
    rows,          \* run -> status of its row
    chatOf,        \* run -> its conversation
    previous,      \* run -> whether its conversation held messages before it; how
                   \*   much of them the prompt is given is left out
    active,        \* active_conversations
    runPc,         \* run -> where its thread is
    handled,       \* run -> its handle: none, live or finished
    cancelled,     \* the runs whose flag is set
    spoken,        \* run -> speaker -> how far the speaker is
    ask,           \* <<run, speaker>> -> the request in the approval store
    acted,         \* <<run, speaker>> -> what the run took the decision to be
    sent,          \* messages sent so far
    extras         \* what MaxExtras bounds, so far

chatStore    == <<status, mode, sessionOf, stored, messages, rows>>
chatThreads  == <<chatOf, previous, active, runPc, handled, cancelled, spoken>>
chatAsks     == <<ask, acted>>
chatBounds   == <<sent, extras>>
webRunsVars  == <<chatStore, chatThreads, chatAsks, chatBounds>>

Message(r, role, by) == [run |-> r, role |-> role, by |-> by]

\* A conversation is created as a group, whose mode is one of three, or alone.
Created == {modes \in [Conversations -> UNION Range(ModesOf)] :
                \A c \in Conversations : modes[c] \in ModesOf[c]}

WebRunsInit ==
    /\ status = [c \in Conversations |-> "active"]
    /\ mode \in Created
    /\ sessionOf = [c \in Conversations |-> 0]
    /\ stored = {}
    /\ messages = [c \in Conversations |-> <<>>]
    /\ rows = [r \in Runs |-> "none"]
    /\ chatOf = [r \in Runs |-> CHOOSE c \in Conversations : TRUE]
    /\ previous = [r \in Runs |-> FALSE]
    /\ active = {}
    /\ runPc = [r \in Runs |-> "none"]
    /\ handled = [r \in Runs |-> "none"]
    /\ cancelled = {}
    /\ spoken = [r \in Runs |-> [s \in Speakers |-> "silent"]]
    /\ ask = [q \in Asks |-> "none"]
    /\ acted = [q \in Asks |-> "none"]
    /\ sent = 0 /\ extras = 0

---------------------------------------------------------------------------
(* Who speaks.                                                             *)

\* The order in which one turn hears its speakers.
Order(m) ==
    CASE m = "solo"        -> <<"self">>
      [] m = "coordinator" ->
             LET place == CHOOSE i \in DOMAIN Roster : Roster[i] = Coordinator
             IN  Append(RemoveAt(Roster, place), Coordinator)
      [] OTHER             -> Roster

RunOrder(r) == Order(mode[chatOf[r]])

Keep(c, m) == messages' = [messages EXCEPT ![c] = Append(@, m)]

Says(r, s, how) == spoken' = [spoken EXCEPT ![r][s] = how]

RunGoto(r, label) == runPc' = [runPc EXCEPT ![r] = label]

\* The locals of a thread go with it.
ForgetLocals(rs) ==
    /\ spoken' = [r \in Runs |-> IF r \in rs THEN [s \in Speakers |-> "silent"]
                                  ELSE spoken[r]]
    /\ previous' = [r \in Runs |-> r \notin rs /\ previous[r]]

\* Nobody has spoken out of turn: parallel speakers all start at once.
Turn(r, s) ==
    LET order == RunOrder(r) IN
    \/ mode[chatOf[r]] = "parallel"
    \/ \A i, j \in DOMAIN order :
           i < j /\ order[j] = s => spoken[r][order[i]] = "kept"

---------------------------------------------------------------------------
(* The handlers.                                                           *)

\* _evict: past the cap the oldest finished handles are forgotten.
EvictRuns(h) ==
    LET kept == {r \in Runs : h[r] # "none"}
        over == Cardinality(kept) - MaxRetained IN
    [r \in Runs |->
        IF h[r] = "finished"
           /\ Cardinality({q \in kept : q < r /\ h[q] = "finished"}) < over
        THEN "none" ELSE h[r]]

\* Faulty variant: the conversation's active run is not looked for.
StartBesideAnother(c) ==
    /\ sent < MaxRuns
    /\ status[c] = "active"
    /\ LET r == sent + 1 IN
       /\ sent' = r
       /\ active' = active \union {c}
       /\ chatOf' = [chatOf EXCEPT ![r] = c]
       /\ previous' = [previous EXCEPT ![r] = messages[c] # <<>>]
       /\ Keep(c, Message(r, "user", "user"))
       /\ handled' = EvictRuns([handled EXCEPT ![r] = "live"])
       /\ rows' = [rows EXCEPT ![r] = "running"]
       /\ RunGoto(r, "queued")
    /\ UNCHANGED <<status, mode, sessionOf, stored, cancelled, spoken, chatAsks,
                   extras>>

\* RunManager.start.
StartChatRun(c) ==
    /\ sent < MaxRuns
    /\ status[c] = "active"
    /\ c \notin active
    /\ LET r == sent + 1 IN
       /\ sent' = r
       /\ active' = active \union {c}
       /\ chatOf' = [chatOf EXCEPT ![r] = c]
       /\ previous' = [previous EXCEPT ![r] = messages[c] # <<>>]
       /\ Keep(c, Message(r, "user", "user"))
       /\ handled' = EvictRuns([handled EXCEPT ![r] = "live"])
       /\ rows' = [rows EXCEPT ![r] = "running"]
       /\ RunGoto(r, "queued")
    /\ UNCHANGED <<status, mode, sessionOf, stored, cancelled, spoken, chatAsks,
                   extras>>

\* A transaction of start raises: the conversation is already marked busy, the
\* user's message may be kept, and no thread will ever clear the mark.
StartBreaks(c) ==
    /\ sent < MaxRuns /\ extras < MaxExtras
    /\ status[c] = "active"
    /\ c \notin active
    /\ extras' = extras + 1
    /\ sent' = sent + 1
    /\ active' = active \union {c}
    /\ chatOf' = [chatOf EXCEPT ![sent + 1] = c]
    /\ \/ UNCHANGED <<messages, handled>>
       \/ /\ Keep(c, Message(sent + 1, "user", "user"))
          /\ handled' = EvictRuns([handled EXCEPT ![sent + 1] = "live"])
    /\ UNCHANGED <<status, mode, sessionOf, stored, rows, previous, runPc, cancelled,
                   spoken, chatAsks>>

CancelChatRun(r) ==
    /\ handled[r] = "live"      \* the flag of a finished run is read by nobody
    /\ r \notin cancelled /\ extras < MaxExtras
    /\ extras' = extras + 1
    /\ cancelled' = cancelled \union {r}
    /\ UNCHANGED <<chatStore, chatOf, previous, active, runPc, handled, spoken,
                   chatAsks, sent>>

\* update_conversation: archived or restored, whatever is running.
ArchiveChat(c) ==
    /\ status[c] # "deleted" /\ extras < MaxExtras
    /\ extras' = extras + 1
    /\ status' = [status EXCEPT ![c] = IF @ = "active" THEN "archived" ELSE "active"]
    /\ UNCHANGED <<mode, sessionOf, stored, messages, rows, chatThreads, chatAsks,
                   sent>>

\* delete_conversation: its messages and rows go with it.
DeleteChat(c) ==
    /\ status[c] # "deleted" /\ extras < MaxExtras
    /\ c \notin active
    /\ extras' = extras + 1
    /\ status' = [status EXCEPT ![c] = "deleted"]
    /\ messages' = [messages EXCEPT ![c] = <<>>]
    /\ rows' = [r \in Runs |-> IF chatOf[r] = c /\ rows[r] # "none"
                               THEN "deleted" ELSE rows[r]]
    /\ UNCHANGED <<mode, sessionOf, stored, chatThreads, chatAsks, sent>>

---------------------------------------------------------------------------
(* A run's thread.                                                         *)

\* The runs inside the semaphore.
Admitted == {r \in Runs : runPc[r] = "running"}

AdmitRun(r) ==
    /\ runPc[r] = "queued"
    /\ Cardinality(Admitted) < Ceiling
    /\ RunGoto(r, "running")
    /\ UNCHANGED <<chatStore, chatOf, previous, active, handled, cancelled, spoken,
                   chatAsks, chatBounds>>

\* The session a turn resumes: a solo turn that is not the first of its
\* conversation names one, and a session that was never stored is an error.
Resumes(r) == mode[chatOf[r]] = "solo" /\ previous[r]

\* The first solo turn makes one.
Opens(r) == mode[chatOf[r]] = "solo" /\ ~previous[r]

SessionMissing(r) == Resumes(r) /\ sessionOf[chatOf[r]] \notin stored

\* execute_speaker up to the first event of the runtime.
BeginSpeaker(r, s) ==
    /\ runPc[r] = "running"
    /\ s \in Range(RunOrder(r))
    /\ spoken[r][s] = "silent"
    /\ Turn(r, s)
    /\ Says(r, s, IF r \in cancelled THEN "cancelled"
                   ELSE IF SessionMissing(r) THEN "raised" ELSE "speaking")
    /\ UNCHANGED <<chatStore, chatOf, previous, active, runPc, handled, cancelled,
                   chatAsks, chatBounds>>

\* The profile changed since it was pinned, or the runtime raises.
SpeakerRaises(r, s) ==
    /\ spoken[r][s] \in {"speaking", "answered", "worked"}
    /\ extras < MaxExtras
    /\ extras' = extras + 1
    /\ Says(r, s, "raised")
    /\ UNCHANGED <<chatStore, chatOf, previous, active, runPc, handled, cancelled,
                   chatAsks, sent>>

\* on_event of a tool: the transcript shows it.
ToolSpeaks(r, s) ==
    /\ spoken[r][s] \in {"speaking", "answered"}
    /\ \/ r \in cancelled /\ Says(r, s, "cancelled") /\ UNCHANGED messages
          /\ UNCHANGED extras
       \/ r \notin cancelled /\ Says(r, s, "worked")
          /\ Keep(chatOf[r], Message(r, "tool", s))
          /\ extras < MaxExtras /\ extras' = extras + 1
    /\ UNCHANGED <<status, mode, sessionOf, stored, rows, chatOf, previous, active,
                   runPc, handled, cancelled, chatAsks, sent>>

\* The runtime returns, or raises what check_cancelled raised.
SpeakerStops(r, s) ==
    /\ spoken[r][s] \in {"speaking", "answered", "worked"}
    /\ \/ Says(r, s, "done") /\ stored' = stored \union
              (IF Opens(r) THEN {r} ELSE {})
       \/ r \in cancelled /\ Says(r, s, "cancelled") /\ UNCHANGED stored
    /\ UNCHANGED <<status, mode, sessionOf, messages, rows, chatOf, previous, active,
                   runPc, handled, cancelled, chatAsks, chatBounds>>

\* Faulty variant: a reply of a parallel turn is kept as soon as it is there.
ReadyAtOnce(r, s) == spoken[r][s] \in {"done", "named"}

Ready(r, s) ==
    LET order == RunOrder(r) IN
    /\ spoken[r][s] \in {"done", "named"}
    /\ \A i, j \in DOMAIN order :
           i < j /\ order[j] = s => spoken[r][order[i]] = "kept"
    /\ mode[chatOf[r]] = "parallel" =>
           \A t \in Range(order) : spoken[r][t] \in {"done", "kept"}

\* The session is named before the reply is kept, in a transaction of its own.
ToBeNamed(r, s) == Opens(r) /\ spoken[r][s] = "done"

\* set_session_id.
NameSession(r, s) ==
    /\ runPc[r] = "running"
    /\ Ready(r, s) /\ ToBeNamed(r, s)
    /\ Says(r, s, "named")
    /\ sessionOf' = [sessionOf EXCEPT ![chatOf[r]] = r]
    /\ UNCHANGED <<status, mode, stored, messages, rows, chatOf, previous, active, runPc,
                   handled, cancelled, chatAsks, chatBounds>>

\* persist_result.
KeepReply(r, s) ==
    /\ runPc[r] = "running"
    /\ Ready(r, s) /\ ~ToBeNamed(r, s)
    /\ Says(r, s, "kept")
    /\ Keep(chatOf[r], Message(r, "assistant", s))
    /\ UNCHANGED <<status, mode, sessionOf, stored, rows, chatOf, previous, active, runPc,
                   handled, cancelled, chatAsks, chatBounds>>

\* Either raises: the reply is too long, or the database fails, before the
\* transaction or in the reading that follows it.  The replies kept so far stay.
KeepBreaks(r, s) ==
    /\ runPc[r] = "running" /\ extras < MaxExtras
    /\ Ready(r, s)
    /\ extras' = extras + 1
    /\ Says(r, s, "unkept")
    /\ \/ UNCHANGED messages
       \/ ~ToBeNamed(r, s) /\ Keep(chatOf[r], Message(r, "assistant", s))
    /\ UNCHANGED <<status, mode, sessionOf, stored, rows, chatOf, previous, active, runPc,
                   handled, cancelled, chatAsks, sent>>

\* finish_run while the semaphore is held.
CompleteRun(r) ==
    /\ runPc[r] = "running"
    /\ \A s \in Range(RunOrder(r)) : spoken[r][s] = "kept"
    /\ rows' = [rows EXCEPT ![r] = "completed"]
    /\ RunGoto(r, "closing")
    /\ UNCHANGED <<status, mode, sessionOf, stored, messages, chatOf, previous, active,
                   handled, cancelled, spoken, chatAsks, chatBounds>>

\* It raises, and the run fails with all its replies kept.
CompleteBreaks(r) ==
    /\ runPc[r] = "running" /\ extras < MaxExtras
    /\ \A s \in Range(RunOrder(r)) : spoken[r][s] = "kept"
    /\ extras' = extras + 1
    /\ UNCHANGED rows \/ rows' = [rows EXCEPT ![r] = "completed"]
    /\ RunGoto(r, "failed")
    /\ UNCHANGED <<status, mode, sessionOf, stored, messages, chatOf, previous, active,
                   handled, cancelled, spoken, chatAsks, sent>>

\* An exception leaves the semaphore; those who speak in parallel are waited
\* for, and the first to stop decides which exception it is.
RunRaises(r) ==
    /\ runPc[r] = "running"
    /\ \A s \in Range(RunOrder(r)) :
           spoken[r][s] \in {"silent", "done", "kept", "unkept", "raised", "cancelled"}
    /\ mode[chatOf[r]] = "parallel" => \A s \in Range(Roster) : spoken[r][s] # "silent"
    /\ \E s \in Range(RunOrder(r)) :
           /\ spoken[r][s] \in {"unkept", "raised", "cancelled"}
           /\ RunGoto(r, IF spoken[r][s] = "cancelled" THEN "cancelled" ELSE "failed")
    /\ UNCHANGED <<chatStore, chatOf, previous, active, handled, cancelled, spoken,
                   chatAsks, chatBounds>>

\* The branches of _execute that record how the run ended.
RecordEnd(r) ==
    /\ runPc[r] \in {"failed", "cancelled"}
    /\ rows' = [rows EXCEPT ![r] = runPc[r]]
    /\ IF runPc[r] = "failed" THEN Keep(chatOf[r], Message(r, "event", "loro"))
                              ELSE UNCHANGED messages
    /\ RunGoto(r, "closing")
    /\ UNCHANGED <<status, mode, sessionOf, stored, chatOf, previous, active, handled,
                   cancelled, spoken, chatAsks, chatBounds>>

\* A transaction that records the end raises: only the finally clause is left.
EndUnrecorded(r) ==
    /\ runPc[r] \in {"failed", "cancelled"}
    /\ extras < MaxExtras
    /\ extras' = extras + 1
    /\ \/ UNCHANGED messages
       \/ runPc[r] = "failed" /\ Keep(chatOf[r], Message(r, "event", "loro"))
    /\ RunGoto(r, "closing")
    /\ UNCHANGED <<status, mode, sessionOf, stored, rows, chatOf, previous, active, handled,
                   cancelled, spoken, chatAsks, sent>>

\* The finally clause: the conversation is free before the handle is finished.
FreeChat(r) ==
    /\ runPc[r] = "closing"
    /\ active' = active \ {chatOf[r]}
    /\ RunGoto(r, "closed")
    /\ UNCHANGED <<chatStore, chatOf, previous, handled, cancelled, spoken, chatAsks,
                   chatBounds>>

FinishHandle(r) ==
    /\ runPc[r] = "closed"
    /\ handled' = [handled EXCEPT ![r] = IF @ = "live" THEN "finished" ELSE @]
    /\ RunGoto(r, "ended")
    /\ ForgetLocals({r})
    /\ UNCHANGED <<chatStore, chatOf, active, cancelled, chatAsks, chatBounds>>

---------------------------------------------------------------------------
(* Approvals: a speaker asks, the store decides, the speaker reads.        *)

\* AAISBridge.request up to the wait.
AskInterface(r, s) ==
    /\ spoken[r][s] = "speaking"
    /\ ask[<<r, s>>] = "none" /\ extras < MaxExtras
    /\ extras' = extras + 1
    /\ ask' = [ask EXCEPT ![<<r, s>>] = "pending"]
    /\ Says(r, s, "asking")
    /\ UNCHANGED <<chatStore, chatOf, previous, active, runPc, handled, cancelled,
                   acted, sent>>

\* AAISBridge.decide, from the browser, the command line or another process: a
\* request whose owner stopped is refused.
DecideAsk(r, s) ==
    /\ ask[<<r, s>>] = "pending"
    /\ runPc[r] # "lost"
    /\ \E outcome \in {"approved", "denied"} : ask' = [ask EXCEPT ![<<r, s>>] = outcome]
    /\ UNCHANGED <<chatStore, chatThreads, acted, chatBounds>>

\* Faulty variant: only the user's cancellation ends the wait.
StopIfCancelled(r, s) ==
    /\ spoken[r][s] = "asking"
    /\ ask[<<r, s>>] = "pending"
    /\ r \in cancelled
    /\ Says(r, s, "cancelling")
    /\ UNCHANGED <<chatStore, chatOf, previous, active, runPc, handled, cancelled,
                   chatAsks, chatBounds>>

\* wait_for_resolution returned nothing, and the run was cancelled or the time
\* is over: between this and the withdrawal a decision may land.
StopWaiting(r, s) ==
    /\ spoken[r][s] = "asking"
    /\ ask[<<r, s>>] = "pending"
    /\ Says(r, s, IF r \in cancelled THEN "cancelling" ELSE "overdue")
    /\ UNCHANGED <<chatStore, chatOf, previous, active, runPc, handled, cancelled,
                   chatAsks, chatBounds>>

\* Faulty variant: the withdrawal decides whatever the store holds.
WithdrawOver(r, s) ==
    IF spoken[r][s] = "cancelling" THEN "cancelled" ELSE "timedout"

\* _withdraw: the decision that landed first stands.
WithdrawAs(r, s) ==
    IF ask[<<r, s>>] # "pending" THEN ask[<<r, s>>]
    ELSE IF spoken[r][s] = "cancelling" THEN "cancelled" ELSE "timedout"

\* What the provider returns for a resolution.
TakenAs(r, resolution) ==
    IF resolution # "approved" THEN "refused"
    ELSE IF r \in cancelled THEN "withheld" ELSE "allowed"

WithdrawAsk(r, s) ==
    /\ spoken[r][s] \in {"cancelling", "overdue"}
    /\ ask' = [ask EXCEPT ![<<r, s>>] = IF @ = "pending" THEN WithdrawAs(r, s) ELSE @]
    /\ acted' = [acted EXCEPT ![<<r, s>>] = TakenAs(r, WithdrawAs(r, s))]
    /\ Says(r, s, "answered")
    /\ UNCHANGED <<chatStore, chatOf, previous, active, runPc, handled, cancelled,
                   chatBounds>>

AnswerAsk(r, s) ==
    /\ spoken[r][s] = "asking"
    /\ ask[<<r, s>>] # "pending"
    /\ acted' = [acted EXCEPT ![<<r, s>>] = TakenAs(r, ask[<<r, s>>])]
    /\ Says(r, s, "answered")
    /\ UNCHANGED <<chatStore, chatOf, previous, active, runPc, handled, cancelled,
                   ask, chatBounds>>

\* cancel_orphaned, by an operator after a restart.
WithdrawOrphans ==
    /\ \E q \in Asks : ask[q] = "pending" /\ runPc[q[1]] = "lost"
    /\ ask' = [q \in Asks |-> IF ask[q] = "pending" /\ runPc[q[1]] = "lost"
                              THEN "cancelled" ELSE ask[q]]
    /\ UNCHANGED <<chatStore, chatThreads, acted, chatBounds>>

---------------------------------------------------------------------------
\* The server process stops and starts: what was in memory is gone, the rows
\* and the requests stay.
RestartServer ==
    /\ extras < MaxExtras
    /\ extras' = extras + 1
    /\ active' = {}
    /\ handled' = [r \in Runs |-> "none"]
    /\ cancelled' = {}
    /\ runPc' = [r \in Runs |-> IF runPc[r] \in {"none", "ended"} THEN runPc[r] ELSE "lost"]
    /\ ForgetLocals(Runs)
    /\ UNCHANGED <<chatStore, chatOf, chatAsks, sent>>

ChatThread(r) ==
    \/ AdmitRun(r) \/ CompleteRun(r) \/ RunRaises(r) \/ RecordEnd(r)
    \/ FreeChat(r) \/ FinishHandle(r)
    \/ \E s \in Speakers :
          \/ BeginSpeaker(r, s) \/ ToolSpeaks(r, s) \/ SpeakerStops(r, s)
          \/ NameSession(r, s) \/ KeepReply(r, s) \/ StopWaiting(r, s)
          \/ WithdrawAsk(r, s) \/ AnswerAsk(r, s)

WebRunsNext ==
    \/ \E c \in Conversations :
          StartChatRun(c) \/ StartBreaks(c) \/ ArchiveChat(c) \/ DeleteChat(c)
    \/ \E r \in Runs :
          \/ CancelChatRun(r) \/ CompleteBreaks(r) \/ EndUnrecorded(r) \/ ChatThread(r)
          \/ \E s \in Speakers :
                 \/ AskInterface(r, s) \/ DecideAsk(r, s) \/ SpeakerRaises(r, s)
                 \/ KeepBreaks(r, s)
    \/ WithdrawOrphans
    \/ RestartServer

\* A thread that can go on is not kept waiting for ever, and the time of a
\* request ends.
WebRunsFairness == WF_webRunsVars(\E r \in Runs : ChatThread(r))

WebRunsSpec == WebRunsInit /\ [][WebRunsNext]_webRunsVars /\ WebRunsFairness

---------------------------------------------------------------------------
WebRunsTypeOK ==
    /\ status \in [Conversations -> {"active", "archived", "deleted"}]
    /\ sessionOf \in [Conversations -> 0..MaxRuns] /\ stored \subseteq Runs
    /\ rows \in [Runs -> {"none", "running", "completed", "cancelled", "failed",
                          "deleted"}]
    /\ active \subseteq Conversations /\ cancelled \subseteq Runs
    /\ runPc \in [Runs -> {"none", "queued", "running", "failed", "cancelled",
                           "closing", "closed", "ended", "lost"}]
    /\ handled \in [Runs -> {"none", "live", "finished"}]
    /\ ask \in [Asks -> {"none", "pending", "approved", "denied", "cancelled",
                         "timedout"}]
    /\ acted \in [Asks -> {"none", "allowed", "refused", "withheld"}]

(* In a transcript the messages of one turn are never mixed with those of  *)
(* another, however many browsers send, cancel and reload.                 *)
(* RunManager.start holds the conversation until the finally clause of     *)
(* _execute gives it back.                                                 *)
TurnsSeparate ==
    \A c \in Conversations :
        \A i, j, k \in DOMAIN messages[c] :
            i < j /\ j < k /\ messages[c][i].run = messages[c][k].run
                => messages[c][j].run = messages[c][i].run

\* Where the replies of a run are in its conversation, and who gave one.
Replies(r) ==
    {i \in DOMAIN messages[chatOf[r]] :
        messages[chatOf[r]][i].run = r /\ messages[chatOf[r]][i].role = "assistant"}

Heard(r) == {messages[chatOf[r]][i].by : i \in Replies(r)}

\* The replies are those of the first few speakers of the order, each once and in it.
FirstHeard(r) ==
    LET order == RunOrder(r) IN
    /\ Heard(r) \subseteq Range(order)
    /\ \A k, l \in DOMAIN order : k < l /\ order[l] \in Heard(r) => order[k] \in Heard(r)
    /\ \A i, j \in Replies(r), k, l \in DOMAIN order :
           /\ i < j
           /\ order[k] = messages[chatOf[r]][i].by /\ order[l] = messages[chatOf[r]][j].by
           => k < l

(* A run recorded as completed left one reply of every speaker, in the     *)
(* order of its mode, and any other run left the first few of them,        *)
(* wherever it broke.  Of a parallel turn no reply is kept before all      *)
(* speakers have answered, and none of one that was cancelled.             *)
RepliesInOrder ==
    \A r \in Runs : rows[r] # "none" /\ rows[r] # "deleted" =>
        /\ FirstHeard(r)
        /\ rows[r] = "completed" => Range(RunOrder(r)) \subseteq Heard(r)
        /\ mode[chatOf[r]] = "parallel" =>
              /\ rows[r] = "cancelled" => Heard(r) = {}
              /\ runPc[r] = "running" /\ Heard(r) # {} =>
                    \A s \in Range(Roster) : spoken[r][s] \in {"done", "kept", "unkept"}

(* What a conversation shows: turns that are not mixed, with their replies *)
(* in order.                                                               *)
TranscriptsWhole == WebRunsTypeOK /\ TurnsSeparate /\ RepliesInOrder

(* The run acts on the decision the approval store holds: what it takes as *)
(* allowed was approved, and what it takes as refused was not, although    *)
(* the decision may come while the run gives up waiting for it.            *)
DecisionHonoured ==
    \A q \in Asks :
        /\ acted[q] \in {"allowed", "withheld"} => ask[q] = "approved"
        /\ acted[q] = "refused" => ask[q] \in {"denied", "cancelled", "timedout"}

(* A turn that carries on a conversation finds its session: the comment in *)
(* RunManager._execute has the session id recorded on the first turn.      *)
SessionRetained == \A r \in Runs : runPc[r] = "running" => ~SessionMissing(r)

(* A started run ends: its handle is finished and its conversation takes   *)
(* messages again, or the server stopped under it.                         *)
ChatRunsEnd == \A r \in Runs : runPc[r] = "queued" ~> runPc[r] \in {"ended", "lost"}
=============================================================================
