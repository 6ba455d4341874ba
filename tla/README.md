# Loro in TLA+

This directory is a verification project for Loro (`src/src/loro`): TLA+ modules that model the parts of
the program where threads, processes, crashes and retries meet durable state, TLC configurations that
check them on small instances, and proofs that TLAPS checks. Line numbers are those of the source files
named beside them; `PROJECT.json` maps every definition to its lines.

## 1. The system

Loro is a Python agent harness: a command line, a local web interface and a message gateway drive an
agent runtime, whose tool calls pass policy and approvals, whose workflows are Agentic Graphs, and whose
every decision goes to an audit pipeline. It has no central process. Its components share files, SQLite
databases, a Postgres or Iceberg memory and, inside a process, threads.

| Component | State it keeps | Operations | Talks to | What is hard |
|---|---|---|---|---|
| approvals (`approvals.py`) | approval records, in memory or in a locked JSON file | request, grant, deny, consume, consume_matching_session | called by `ToolRuntime._authorize`, graph gates; emits audit events | two consumers of one record, expiry between check and update, audit failing after the update, dying processes |
| agentic graphs: execution (`agraph/execute.py`, `schedule.py`, `store.py`) | run record on disk; states, loop counters, budgets in memory | run, resume, schedule, run a node, merge, compensate, save | runtime (nodes), gate provider, approvals, audit, run store | waves of threads, nested pools, pause in the middle of a wave, crash and resume, compensation, budgets per process |
| agentic graphs: documents (`agraph/generate.py`, `validate.py`, `policy.py`, `plan.py`) | the graph file, the approved digest | generate, validate, plan, run, resume | command line, model, web interface | the file that was approved is not the file that is run; a gate that does not precede what it guards |
| audit pipeline (`audit/__init__.py`, `sinks.py`, `collector.py`) | JSONL chain, buffer file and stats file, collector database | write, deliver, append, drain, flush, accept, verify | every component writes; HTTP between sink and collector | lossy network, retries after acceptance, writers during a flush, a full buffer, dying lock holders |
| gateway (`gateway/`) | replay window on disk, pending semaphore, worker pool | handle, remember, forget, process, deliver | chat platforms, runtime, audit | redelivery, full queue, crash between remembering and running |
| agent loop (`runtime.py`, `budgets.py`, `context.py`) | a run's budget, history, batch of calls | resume, ask the model, execute calls, delegate, save | models, tools, sessions, mailbox, audit | a death between saving and acknowledging, budgets of mixed batches, nested delegation, compaction over many resumes |
| sessions and messages (`sessions.py`, `session_messages.py`) | JSON session records, one file per message | save, send, deliver, acknowledge | agent loop, command line | messages that arrive during a run, unlocked writers of one file |
| MCP (`mcp/`) | task handles, the connection of a command | list, call, listen, start, poll, answer, cancel, serve | remote servers, approvals | a late poll over a terminal status, an input answered twice, a listing cut short |
| memory (`memory/`, `recovery.py`) | local records, drafts, proposals; shared rows and events; the schema and its migrations; backups | remember, propose, decide, commit, hold, delete, sweep, migrate, back up, restore | Postgres, Iceberg, audit | commits retried after an unknown outcome, holds that race deletes, migrations against dumps |
| web interface (`webui/`) | conversations (SQLite), runs, gates and sign-ins in memory, schedules in a file | send, stream, decide, cancel, schedule, sign in | graphs, approvals, runtime, identity provider | a decision racing a timeout, subscribers that come late, handlers between two steps of a thread, restarts |
| agent profiles (`agent_profiles/`) | profile files, proposals | load, narrow, propose, apply, write back, edit | web interface, command line, agent loop | write-back over a changed file, inheritance that widens |
| models (`models.py`, `model_tools.py`) | the reply read so far | stream, complete, retry | providers | a stream that breaks in the middle, interleaved tool calls |
| policy and data protection (`policy.py`, `data_protection.py`) | none | evaluate, redact | every surface | overlapping findings, ceilings beside findings |
| tools (`tool_runtime.py`, `tools/`) | the workspace | read, patch, run, fetch | agent loop, approvals | hunks that moved, a patch that fails half way, other writers |
| sandbox and identity (`sandbox.py`, `oidc.py`) | pipes and buffers of a call; cached signing keys | run, drain, time out, clean up; fetch, verify | operating system, identity provider | processes that outlive their parent, slow answers that come in the wrong order |
| skills (`skills.py`) | packages, their states, proposals | install, enable, remove, propose, review | command line, agents | two commands with copies of one state file, a check after a copy |
| evidence (`evidence.py`) | bundles | export, verify | audit log, sessions | a log that grows, a record that a later run replaced |
| configuration and command line (`config.py`, `cli/`) | layered files | load, set up, add, remove, roll back | everything | read, change and write in separate steps, references between sections |
| interoperability, audit views, artifacts | none of their own | translate, read, render | other clients | sequential |

What makes each correct, in a sentence: an approval authorises only the request it was granted for, once or
until it expires; a graph starts a node only on saved outcomes, never repeats what the record holds as done, and
undoes what it did when it fails; a graph that runs meets its policy's gates; an audit event whose write
returned is recorded, buffered or counted as evicted, and recorded once; a gateway message is run at most once
while its key is remembered; a message between sessions is acknowledged only when a saved record names it; a run
keeps its budget, its history and the rights of those it works for; a task that ended stays ended; a held memory
is not deleted on Postgres, and every stored change has its event; a conversation is made of whole turns, and a
run acts on the decision that was stored; a profile narrows; a learned fact is applied once; a patch that
applies makes the lines it says; a reply is shown whole; a token signed with a withdrawn key stops being
accepted; an installed skill is taken away by nobody else's failure, unless a removal came between; an exported
bundle verifies; a reference in the configuration resolves.

`PROJECT.json` lists every component with its status and every hazard with its line. A hazard without a
property has a note that says why.

## 2. Modules

| Module | Models | Lines of the source |
|---|---|---|
| `ApprovalAuthority` | what an approval store promises: one atomic authority | `approvals.py`, abstracted |
| `Approvals` | both stores, `ApprovalManager`, `ToolRuntime._authorize` | `approvals.py`, `tool_runtime.py:1241-1296` |
| `GraphRun` | `GraphExecutor`: scheduling, waves, composites, gates, budgets, compensation, the store, crash and resume | `agraph/execute.py`, `schedule.py`, `plan.py`, `record.py`, `store.py` |
| `GraphDocuments` | a graph file from its draft to its run | `agraph/generate.py`, `validate.py`, `policy.py`, `plan.py`, `cli/graph.py` |
| `AuditLedger` | what the audit pipeline promises | `audit/`, abstracted |
| `AuditPipeline` | logger, HTTP sink, buffer file, flush, collector | `audit/__init__.py`, `sinks.py`, `collector.py` |
| `GatewayDispatch` | dispatcher, replay window, permits, worker pool, shutdown, crash, restart | `gateway/service.py` |
| `AgentSessions` | the agent loop with sessions, mailbox, budget, compaction, tool calls and subagents | `runtime.py`, `tool_runtime.py`, `context.py`, `budgets.py`, `sessions.py`, `session_messages.py` |
| `WebRuns` | conversations, chat runs, their approvals | `webui/services.py`, `conversations.py`, `aais_bridge.py` |
| `WebGraphs` | graph runs from the browser | `webui/graphs.py`, `server.py` |
| `WebSchedules` | schedules and the thread that starts them | `webui/workspace.py`, `server.py` |
| `WebAccess` | sign-ins, sessions, access rules | `webui/auth.py`, `rbac.py`, `server.py` |
| `SharedMemory` | commits, lifecycle requests, retries, sweeps and reconciliation on Postgres and Iceberg | `memory/operations.py`, `postgres.py`, `iceberg.py`, `cli/memory.py` |
| `MemoryUpkeep` | migrations, backups, restores | `memory/migrations.py`, `postgres.py`, `recovery.py`, `cli/operations.py` |
| `MemoryReview` | local memories and the queue of proposals | `memory/proposals.py`, `local.py`, `drafts.py`, `webui/memory.py` |
| `McpConnections` | listings, requests, subscriptions, Loro's own server | `mcp/client.py`, `registry.py`, `security.py`, `server.py` |
| `McpTasks` | long-running tasks and their durable handles | `mcp/tasks.py`, `client.py` |
| `Configuration` | the layers and every command that writes the local file | `config.py`, `cli/setup*.py`, `cli/mcp.py`, ... |
| `ProfileDocuments` | one profile and everyone who writes it | `agent_profiles/`, `cli/agents.py`, `webui/services.py` |
| `ProfileAuthority` | what a profile may do | `agent_profiles/registry.py`, `effective.py` |
| `ModelClients` | a call of a model | `models.py`, `model_tools.py` |
| `ContentProtection` | what may be done with a text | `data_protection.py` |
| `WorkspacePatches` | `patch.apply` | `tools/patching.py`, `tool_runtime.py` |
| `SandboxRuns` | a sandboxed call | `sandbox.py` |
| `SigningKeys` | the cache of signing keys | `oidc.py` |
| `RunEvidence` | the chained log, exports and their verification | `evidence.py`, `audit/sinks.py` |
| `Skills` | packages, states, proposals | `skills.py`, `cli/skills.py` |
| `Subsequences` | the elements of a sequence at some places, which an export and a reply are made of | `evidence.py` |
| `ApprovalsProofs`, `GraphRunProofs`, `DeliveryProofs`, `AgentSessionsProofs`, `WebProofs`, `MemoryProofs`, `ServicesProofs`, `ContentProofs` | the theorems | |
| `MCApprovals`, `MCGraphRun`, `MCAgentSessions`, `MCDelivery`, `MCWeb`, `MCServices` | the instances TLC checks | |

`McpTasks` extends `McpConnections` (a task call needs a connection whose server serves tasks). The other
modules meet in the code through calls that carry a verdict or a document, not through shared state, and an
abstraction of the neighbour stands at each such call: a gate provider in `GraphRun` for `WebGraphs` and
`Approvals`, what a speaker may do between two events in `WebRuns` for `AgentSessions`.

`MCDelivery`, `MCWeb` and `MCServices` hold several modules that share no variable. The variable `part` names
one of them; a behaviour is a behaviour of that one while the variables of the others stay at one of their
beginnings. TLC so explores the sum of the instances and not their product, and a property of one module is
checked on all its states; nothing is lost, because no step of one module reads a variable of another.

Definitions marked "Faulty variant" are not part of the model: each is a plausible mistake of the definition
beside it, and `PROJECT.json` names the property it violates.

### Approvals

A worker is a thread of some process with an `ApprovalManager`. `pc` says where it stands between
`_authorize` and the last event of `consume`; `held`, `copy` and `usedAt` are `approval_id`, the record
`store.get` returned and `used_at`. A step runs from one point where another thread can run to the next:
store methods hold a lock, and lines 474 to 482 call nothing. `SharedRecords` tells the two stores apart.
`JsonApprovalStore.get` returns a copy and `update` compares status and use count;
`InMemoryApprovalStore.get` returns the stored object, so `consume` changes it before `update`, which then
has nothing to compare. `Crash` exists for the JSON store only, since the other one dies with its process.
`FailClosed` lets the event handler raise, which is what `AuditLogger` does when its `failure_mode` is
`fail`.

### GraphRun

A scope is the graph or a fragment, named by its composite node; `phase[s]` is where `_execute_scope`
stands for it. `Schedule` is one turn of its loop up to the pool: `ready_nodes` with the skips it marks
(kept in `skips`, because the code marks them in `states` and not in the record), `when`, the concurrency
groups and the parallel limit. Each node of the wave then has a `thread`. A task or decision is `Begin` and
`End`, with `Refrain` for what returns before the model is called; a gate is one step; a composite opens
its fragment, which runs with the same actions one level down, and leaves it by `LeaveSubgraph`,
`LeaveIteration` or `LeaveItem`. When every thread of a wave returned, `Merge` takes the outcomes one at a
time and saves after each: it continues, pauses, or stops at the budget. `disk` is the record in
`GraphRunStore`, `rec` the same in memory. `Finish`, `StartCompensation`, `PassOver`, `Compensate` and
`FinishFailed` are the end of `_execute_document`; `Crash` forgets everything but `disk`; `Resume` starts
again from it. Retries and fallbacks inside `_run_task` are part of a node's work; a loop whose
`on_max_iterations` is not `fail` ends like one of mode `repeat`. A value of `when` is chosen once in
`Init` for the whole run, because it is an expression over saved outputs.

### AuditPipeline

A worker is a thread or process in one call of `write` or `flush`. `net` holds the batches sent: the
collector may process each at any time and again, which covers lost, delayed and repeated requests; the
answer reaches a client that waits for it or nobody. `Lock` to `Stats` are the critical sections of
`AuditBuffer`: the buffer file and its stats file are written in two steps, and a crash can fall between
them. `appended`, `gone` and `returned` are history: what was put in the buffer, what was evicted, and
whose write returned.

### GatewayDispatch

A request is one delivery and the thread that handles it; `msg` and `host` are the message it brings and
the process it reaches, both chosen in `Init`, so every pattern of retries occurs. `pc` follows `_handle`
from `pending.acquire` to the answer: `accepted` and `acknowledged` are the 200 of a message and of a
duplicate, `refused` a 429 or 500, `stranded` a 500 that left its permit behind, `lost` no answer. `task` is
the future. `Remember` and `Forget` are one step each because `_seen_lock` is held to the end of the save;
a save that raises has replaced the file or not, since `atomic_write_bytes` syncs the directory after the
replacement. `Hook` is `add_done_callback`, which may come after the task is over. `Close` makes `submit`
raise, `Exit` waits for the queue and the workers and then kills the request threads, `Crash` needs no
waiting, `Start` loads the file. What `_handle` does before the permit touches no state and is left out.
`aged` is history: the keys a full window pushed out.

### AgentSessions

A run is one call of `AgentRuntime._run`, that of a subagent included; `pc` follows it: `deliver` and
`mark` are the two halves of `SessionMailbox.deliver`, which lists the messages once and then writes them
one by one, `prompt` the directives of the prompt, `model` the head of the loop over steps, `tools` the
batch of calls in hand, `save` and `consume` the end. `Admit` counts a batch and refuses it whole at the
limit. A call is answered by `Refuse` (whatever stops it: profile, policy, approval, hook, argument), by
`Work` (effects outside the model), by `SendMessage`, or by `Delegate` and `Return`, between which the
caller waits for a run of its own process with rights `Narrowed` to the caller's. `ran` keeps whether a call
took effect; its output may still be withheld. `report` holds the messages a step adds for the model. What
raises ends a run (`Abort`); `Crash` takes a process, with the subagents in it. The records on disk, the
messages and their statuses stay. `UserSends` and `UserAcknowledges` are the commands of the user, and
`UserSends` also stands for whatever other processes send. `Compact` is `compact_history`, where a message
costs two tokens and a line of the summary one. `said`, `settled` and `executed` are history: all turns of a
session, the messages a saved record names or the user acknowledged, and the calls a run executed.

A session is resumed by one run at a time (`Alone`). `docs/session-messaging.md:51-53` leaves "locking for
high-concurrency writers" out, and two runs of one session do overwrite each other: the last save wins, and
both writers of a message use one temporary file.

### WebRuns

Every HTTP handler that changes a conversation or a run is a coroutine that never awaits, so it is one step; the
run threads, the speakers of a parallel turn, and the processes that share the approval store interleave with
it. `status`, `mode`, `sessionOf`, `messages` and `rows` are the tables of `conversations.py`, `stored` the
sessions that exist, `runPc` where `_execute` stands, `spoken` how far each speaker of the turn is, `ask` the
request in the approval store and `acted` what the run took the decision to be. `StartChatRun` is
`RunManager.start`: it refuses a busy conversation, takes the history, keeps the message, and forgets old
handles (`EvictRuns`); `StartBreaks` is a transaction of it that raises. Of the history (500 messages at most,
of which a prompt gets forty and 50,000 bytes) the model keeps whether there was any (`previous`), which decides
whether a turn makes a session or resumes one. `BeginSpeaker` to `SpeakerStops` is one call of the runtime, of
which the model keeps what the interface sees: tool messages, a request for approval, an end. `KeepReply` keeps
the reply of a sequential speaker at once and those of a parallel turn when all are there, after `NameSession`
where the turn has made one; `CompleteRun`, `RecordEnd`, `FreeChat` and `FinishHandle` are the end of `_execute`
in its order. Each of these writes may raise, before its transaction or in the read after it (`KeepBreaks`,
`CompleteBreaks`, `EndUnrecorded`), and the run then fails with the replies kept so far: a parallel turn with
some of them, or with all. What is promised of such a run is that its replies are the first of its order and, of
a parallel turn, that all its speakers had answered before the first was kept; a completed run has them all, a
cancelled parallel one none. `StopWaiting`, `WithdrawAsk` and `AnswerAsk` are the three points of
`AAISBridge.request` between which `DecideAsk`, of any process, may fall. `RestartServer` forgets everything but
the database, the sessions and the approvals.

### WebGraphs, WebSchedules, WebAccess

`WebGraphs`: `graphPc` follows the thread of a graph run from `slots.acquire` to `finally`, `card` each node
that runs beside others, `gate` the request its handle shows. A card publishes its request and waits under the
handle's lock, so the next card asks when the first is answered or times out; `DecideGate` may come between
the end of the wait and the read of the answer (`GateTimesOut`, `GateReturns`). `ReadFeed` follows the events
from a cursor that `ReloadBrowser` sets back.

`WebSchedules`: a tick takes the store's lock, reads the file, tries what is due (`TrySchedule`), and writes
once at the end, so a step that raises or a server that stops in the middle has started runs that the file
does not know about (`stops` bounds how often).

`WebAccess`: `Authorise` is the middleware and `Handle` the handler after the body was read; between them other
requests run. `ReceiveCallback` takes the pending sign-in before the exchange with the provider and
`FinishLogin` makes the session after it. Rules change by `Handle` of an administrator, merged into the file as
`write_config_sections` does.

### SharedMemory, MemoryUpkeep, MemoryReview

An operation of `SharedMemory` is a draft to commit or a lifecycle request, with an identifier that a retry
repeats and the time it was asked (`OperationTime`). `Transact` is the Postgres transaction with its guard
(`HoldGuard`) and its answer to a repeated request (`AlreadyDone`). On Iceberg the same request loads two
tables (`LoadTables`), appends an event (`LogEvent`) and appends a version (`AppendVersion`); each append
succeeds only on the snapshot that was loaded, and what a memory is now is its version of the latest time
(`Newest`). `ListExpired` and `Sweep` are the two halves of a sweep, `Reconciled` what `reconcile` looks for.
A request whose answer is lost is retried with the same identifier (`RetryLifecycle`) or given up.

`MemoryUpkeep` keeps of the database its tables, the row policy, the column of operation identifiers, the rows,
and what the migration table records. `Migrate` is one transaction under an advisory lock; `ApplySchema` is
the older command. A backup is `DumpDatabase`, `ReplaceBackup`, `ReadVersion`, `DigestBackup`,
`WriteManifest`, a restore `VerifyBackup`, `OpenBackup`, `RestoreTables`, `RestoreRows`, `RestorePolicy`, and two
operators interleave in them. A restore is `pg_restore` without a transaction and without `--exit-on-error`: it
leaves what is there and goes on past what fails, and `--clean --if-exists` drops what the archive holds and
nothing else (`Cleared`). A dump older than the migrations, restored so, leaves a migration table that says
"isolated" and 2 over tables that have neither row policy nor operation identifiers. A restore therefore puts the
schema in doubt from its first statement (`unsure`), and the doubt ends when a restore that nothing ran beside has
left exactly the schema of a dump that was itself taken without doubt; what the migrations promise
(`SchemaAsRecorded`, `IsolationInForce`) is promised outside that doubt.

`MemoryReview` has the web server and a command as reviewers. The queue of proposals is rewritten under a file
lock (`ReadQueue`, `RewriteQueue`), and `LookUp`, `WriteMemory` and the rewrite are separate, so two reviewers
may decide one proposal and a reviewer may die with the content written and the queue unchanged.
`memories.jsonl` is appended to and replaced without a lock (`Remember`, `ReadMemories`, `ReplaceMemories`), and
a replacement of an older copy does drop a memory that was appended meanwhile: no property forbids it.

### McpConnections, McpTasks

What stands between a command and a server is a set of obstacles, one for each check on the way (registry,
transport policy, negotiated version, extension). A listing reads page after page against two limits; a
subscription ends at its limit or its timeout; a server built by Loro exports what the configuration asks for
and policy allows. In `McpTasks` each client is a process: a call reaches the server at once, its reply may
take its time, be lost or be too large, and is then merged into the handle's file (`Save`) under a lock.
`UpdateTask`, `SendInput` and `MarkAnswered` are the three parts of answering an input.

### Configuration

A command loads the merged layers (`Begin`), decides on its copy, reads the local file again (`ReadFile`) and
writes its sections into it (`WriteFile`); nothing locks these steps, and the command line and the web interface
interleave in them. The model keeps one key of each kind of reference and each section's optional key.
`RollBack` is `loro configure`, which puts
its copy of the file back when the required audit event is refused.

### ProfileDocuments, ProfileAuthority

`ProfileDocuments` has one document and everyone who writes it: an agent whose directive becomes a proposal or,
under `auto`, a delta; reviewers; `forget` and `apply`; the editor of the web interface. `apply_delta` compares
the revision and digest it was made for under a lock (`Applies`); reviews, saves and new profiles read and
write in separate steps without one. `log` records which proposals a document's revisions hold.

`ProfileAuthority` builds, for any files and configuration, what `build_effective_profile` grants: the layers
of a lineage up to a depth (`Lineages`, one level of inheritance after the other), each of which narrows what the
layers before it left (`Narrowed`).

### GraphDocuments

A graph file is written by hand (`EditGraph`), generated offline or by a model, reviewed, shown as a plan,
approved and run; the run loads the file again. `Denied` is the managed policy, with `GatePrecedes` the search
of LP005 for a gate before a guarded node, and `WorstCase` the count a plan announces, of
executions numbered node by node (`MostTimes`). The run schedules nodes as `ready_nodes` does, retries them, lets
alternates stand in for those that fail (`RunTask`), runs bodies inline and behind references (`RunBody`: the plan
counts nothing of what is `hidden`, a body behind a reference or an alternate inside a body), pauses for a gate,
stops at a budget and compensates a failed run against the order of its edges (`WeighNode`), to ask whether the
policy and the plan keep their word. They do under conditions that the code does not check. `executions` counts
one for each `_run_node`, as the ceiling `max_node_executions` does, and `tries` each attempt, as the plan does.
Alternates and compensations run out of their turn and beside the count, and hidden bodies are not counted at all,
so `WithinWorstCase` is claimed where there are none (`Counted`), from a start or a resume to the next pause or
end. A node that needs a gate may run past one that failed, over a failure edge or a join of any predecessor, or
with none passed, as an alternate or a compensation of another node, and a gate that compensates may end otherwise
than it did in its turn. `GatesHold` is therefore claimed of graphs whose edges are sequences, whose joins wait for
all, and in which neither a gate nor a gated node stands in or compensates for another (`Sequential`); alternates
and compensations of other nodes, and nodes with conditions, run in them freely.

### ModelClients, ContentProtection, WorkspacePatches

`ModelClients` is one call: `Connect`, `ReadEvent` and `StreamBreaks` follow the stream, which is retried only
before its first event; `SendWhole` is the request that does not stream. A reply is the sequence of its events, a
tool call arrives in parts that carry an index, and each protocol assembles them as its class does.

`ContentProtection` is an algorithm: the findings of a text are intervals, `Intervals` joins those that overlap
or touch, going through them in some order that their places allow (`Orders`), `RedactJoined` cuts them out from
the right, and `Action` decides between passing, redacting and blocking by the surface, the
labels, the ceiling and overrides. The run checks every text of four positions with every one or two findings.

`WorkspacePatches` reads a diff as `parse_unified_diff` does: a section without its two headers is passed over
(`PassOverSection`) as long as another one has them, and the marker of a missing last newline is dropped. A file
is its lines, the breaks between them, LF or CRLF, and whether the last line has one; it is read with universal
newlines and written back with LF and the last newline the old file had (`Stored`), so applying a diff to a CRLF
file rewrites its every line, and a diff that only changes the last newline changes nothing and reports success.
`PatchExact` therefore says of a diff with context and headers that it makes the lines it says, and of one that
keeps to LF and to the last newline (`KeepsStyle`) that it makes the very files. Form feeds and other separators
of `splitlines`, and files that mix breaks, are not told apart. The module locates every hunk of every section
(`Locations`: the nearest match to the line the header names, moved by the hunks before it), then writes the
files one by one; another program may write between any two steps (`WriteElsewhere`). What a diff says is
defined apart from that search: `Rewritten` copies the old file and puts each hunk where its header says,
`Remade` puts the files of all sections together. TLC evaluates on every run that the diffs it applies fit their
trees and are read so (`DiffsAssumption`).

### SandboxRuns, SigningKeys

`SandboxRuns` is one call with its two draining threads. `captured` counts what both keep under one limit, read
and stored in two steps (`ReadChunk`, `StoreChunk`); `WaitReturns`, `WaitTimesOut`, `CleanUp` and `JoinThreads`
are the call's thread. What dies with what depends on the backend: a plain process may leave a child that holds
the pipes, a PID namespace takes all with it, a container outlives the engine's client.

`SigningKeys` is the cache that request threads share. `UseCached` and `StoreKeys` hold the lock, `BeginFetch`
and the answer do not; the set carries the time its request began (`StampOf`). That a request lasts at most
`Timeout` is an assumption: `httpx` bounds each of its waits by it, not their sum.

### RunEvidence, Skills

`RunEvidence`: an audit log of chained lines that other runs extend while `BeginExport` cuts the segment of one
run out of it and `WriteBundle` reads the session record. `ChainAccepted` and `LogAccepted` are what
`verify_bundle` and `audit verify` accept.

`Skills`: every command opens a registry with a copy of the state file and writes the whole of it back later
(`WithState`, `WithoutState`). An installation checks the candidate, copies it and checks the copy
(`CheckCandidate`, `CopyPackage`, `VerifyCopy`); the copy refuses a directory that exists, which is what keeps
two installations apart. An import installs the skills it has staged one by one (`NextImport`) and, when one fails,
removes all it has put (`UndoImport`). Neither a failed check nor that handler looks at what it removes: A copies,
somebody removes the skill, B installs it, A's check fails and takes B's package away. The history variables say
where that can happen: `installed` holds the installations that went through and stand, `robbed` the commands
whose copy, or whose import's package, was taken away under them. `InstalledStays` says that a package that was
installed, also after an earlier removal, is there until a removal, the handler of its own import, or a command
that was robbed takes it away.

## 3. Runs

| Run | Question | Properties |
|---|---|---|
| `ApprovalsJson` | do processes sharing the JSON store act like one authority? | `OnceConsumedOnce`, `NeverRevived`, `ImplementsAuthority` |
| `GraphRelease` | pauses and resumes: a gate and a loop in one wave, a task of its concurrency group after it, an `on_failure` map, a conditional edge, a wall clock | `RecordTruthful`, `RunStops` |
| `GraphUpdate` | crash, exceptions, budget, execution limit, compensation, a subgraph with a decision, a gate and a loop | `RecoveryTruthful`, `CompletedWorkKept` |
| `AgentSessions` | do budgets, messages, histories and rights survive mixed replies, delegation, failures and crashes? | `ToolBudgetHeld`, `ConsumedWasNamed`, `HistoryWhole`, `DelegationNarrows`, `RunsStop` |
| `Delivery` | what becomes of gateway messages and permits, of audit events and of a sandboxed call, whatever the network, saves, crashes and processes do? | `DispatchSound`, `AuditKept`, `SandboxSound`, `PermitsReturn`, `ImplementsLedger`, `CallsReturn`, `IsolatedCallsReturn` |
| `WebInterface` | do handlers, threads and restarts of the web interface keep transcripts, decisions, gates, schedules and sign-ins whole, and does everything that started end? | `TranscriptsWhole`, `DecisionHonoured`, `GatesServed`, `ScheduleSpacing`, `SignInOnce`, `ChatRunsEnd`, `SlotsReturned` |
| `Services` | do the services an agent run calls on keep their promises under interleavings, retries, lost answers, crashes and stale copies? | one or two per module of `MCServices` |
| `GraphNestedGate` | violated: `NestedGateWaits` | finding 1 |
| `WebFirstTurn` | violated: `SessionRetained` | finding 2 |
| `IcebergHold` | violated: `HoldBlocks` | finding 3 |
| `ProfileRoots` | violated: `RootsContained` | finding 4 |
| `RedactionCeiling` | violated: `CeilingHeld` | finding 5 |

The properties of `Services`: `SharedMemoryKept` and `PostgresHoldBlocks` (memory and its upkeep),
`ReviewLosesNothing`, `McpAnswersHold`, `ReferencesResolve`, `DeltasAppliedOnce`, `AuthorityNarrows`,
`ReplyWhole`, `PlanHolds`, `FindingsContained`, `PatchExact`, `WithdrawnKeysExpire`, `BundlesSound` and
`InstallsHold`.

Several properties are conjunctions of named parts that are stated, with their reasons, beside each other in
their module: `RecordTruthful`, `RecoveryTruthful` and `CompletedWorkKept` in `GraphRun`, `HistoryWhole` in
`AgentSessions`, `AuditKept`, `DispatchSound`, `SandboxSound`, `TranscriptsWhole`, `GatesServed`,
`SharedMemoryKept` (`ProvenanceFirst`, `SchemaAsRecorded`, `IsolationInForce` and `RowsKept`), and most of
`Services`.

Bounds. Approvals: two workers, two identifiers, two requests, three calls and one tick of the clock; two
workers suffice for every race on a record, the third call is the one that replays, and lifetimes of one
tick let both expire. Graphs: eight and nine nodes with a nesting of two, limits one below what the graph
can use, two or three processes, one crash. Agent loop: three runs, of which the user starts one at a time,
because runs of other sessions meet a run only in its mailbox; with three, a session is resumed twice or a
delegation is two levels deep; one message, two steps and two calls, so that a reply of two calls exceeds a
budget the prompt has used; a history of four tokens and a summary of two lines, so that two resumes compact
and cut. Gateway: three deliveries of two messages and a window of one key, so that a key ages out, comes back
and meets a failed save; two permits and one worker; stops and restarts are not bounded, because a request is
handled once. Audit: a buffer of two events with three written, so that it is full, batches of two, one
retry, two flushes, one crash, and one event the collector rejects. Sandbox: a command that writes three pieces
to two pipes against a limit of two, under each backend, with one process left behind.

Web interface: a group of two, in parallel or with a coordinator, and a conversation of its own, two messages,
one thread at a time and one retained handle, so that runs queue and are evicted, and two of the events a run
need not meet, so that each meets each; two graph runs, one with two cards, for one slot; two schedules of
interval two over four minutes with one stop; two people under four sets of rules, two sign-ins and one
pending, so that the second drops the first.

Services: shared memory has one memory, two requests besides the commit and four attempts, so that a hold, a
correction and a delete meet each retried; upkeep two operators and three commands; the review two proposals,
one shared, two reviewers and three requests; listings of up to three pages against two limits, tasks with two
clients, two inputs and five calls; two writers and two commands of configuration over three sets of layers and
three local files; one fact, one proposal and three revisions of a profile; lineages of three profiles with a
diamond and a cycle; a reply of text, one with two interleaved tool calls, and two retries; ten graph
documents, three policies, a ceiling of three executions and one edit; a text of four positions with two
findings; diffs of texts of three and four lines with repeated lines, an offset of two and one foreign write;
two threads, two rotations and six ticks for a cache of two, a cooldown of one and a timeout of one; two runs of
one session and six log lines; two skills that are the same in their source and one edit, two commands at once
and three in all, so that an import of both fails at the second while another command removes or installs the
first. The larger a bound, the more often the same meeting repeats: each was chosen as the least under which
every action of the module, and every faulty variant, shows.

`CHECK_DEADLOCK` is off where the bounds, or the program, let the system stop. In `Delivery` it is on: a state
of the gateway, of the audit pipeline or of a sandboxed call in which nothing can happen would be reported,
apart from the end of the last call. Symmetry is used in the approval run, whose properties are safety
properties of sets of interchangeable model values.

Fairness. `GraphRun` assumes weak fairness of the executor's steps as a whole: a started process keeps
running, and nothing is assumed of crashes, resumes, or of which thread goes first. `AuditPipeline` assumes it
of each worker's own steps: a client's timeout fires and a lock that is free is taken; nothing is assumed of
the collector, which may never answer, and a worker that crashes is excused. `GatewayDispatch` assumes it of
the request threads and of the workers, whose run has bounded loops and client timeouts; nothing makes a
process close, crash or start. `AgentSessions` assumes it of the steps of all runs together: a process that
runs goes on, as model clients and tools have timeouts; nothing is assumed of the user, of failures or of
crashes. `WebRuns` and `WebGraphs` assume it of the threads that can go on, a wait's timeout included (half an
hour for an approval and for a gate, five minutes for a slot), and nothing of browsers, other processes or the
server's restarts. `WebSchedules` assumes it of the thread that wakes every ten seconds. `SandboxRuns` assumes
it of the call's thread and its two draining threads; no command owes an exit, which is why only the isolating
backends have `IsolatedCallsReturn`. The other modules claim no liveness.

What the runs found. (1) A gate inside a fragment that finds nobody to approve counts as success.
(2) A conversation whose first turn fails, is cancelled or dies with the server names a session that does not
exist, and every later message fails. (3) On Iceberg a hold that was requested before a correction and applied
after it is hidden by the correction's later time, and a delete goes through; on Postgres it cannot happen.
(4) A profile whose workspace roots all lie outside the configuration's ends with no roots, which confine
nothing. (5) A text above a surface's ceiling that also holds a finding loses only the finding.

What else TLC refutes. These are stated in their modules, beside the code's promise they quote; each is refuted
when it is added to the run of its module, and none belongs to a run of its own:

- `PausedWorkKept` (`GraphRun`): a gate that pauses a run drops the outcomes of its wave that come after it,
  and completed nodes run again (`agraph/recovery.py:36-37`);
- `UncertainEffectsReviewed` (`GraphRun`): `resume` asks for a review of nodes saved as `running`, which
  nothing ever saves, so a crash in the middle of a node is resumed without review
  (`docs/releases/0.21.0.md:8`);
- `SessionReusable` (`Approvals`): a session approval in the JSON store refuses one of two calls that use it
  at the same time (`ARCHITECTURE.md:201-202`);
- `EditorKeepsAdmin` (`WebAccess`): the rules are checked as sent and written merged
  (`docs/multi-user.md:42-44`);
- `TimeoutIsCeiling` (`SandboxRuns`): a plain process that leaves a child with its pipes keeps the call
  (`docs/sandbox.md:162`);
- `PatchWhole` (`WorkspacePatches`): a write that fails leaves the files before it written (`patching.py:3`);
- `PatchReproduces` (`WorkspacePatches`) without `KeepsStyle`: a CRLF file is written back with LF, and a change of
  the last newline is dropped (`patching.py:235-237`, `163-165`); and without the condition that every section is
  headed: one without headers is passed over, and success reported (`patching.py:133`);
- `PatchExact` (`WorkspacePatches`) without the condition `Orderly`: a diff that renames `f` to `g` and `g` to `f`
  leaves no `g`, for each rename unlinks its old name after writing the new one (`patching.py:292-294`);
- `ApprovedGraphRuns` (`GraphDocuments`): the file may change between the plan and the run
  (`docs/agentic-graphs.md:86-89`); `PlanHolds` is about the graph that runs and does not see the change;
- `WithinWorstCase` and `GatesHold` (`GraphDocuments`) without `Counted` and without the clause of `Sequential`
  about recoveries: an alternate, a compensation or a body behind a reference exceeds the worst case
  (`execute.py:565-577`, `1247-1263`, `1007-1019`), and a gated compensation runs with no gate passed;
- `ConfigurationLoads` (`Configuration`): two commands may leave sections that do not validate together;
- `ReviewedOnce` and `StateKept` (`Skills`): a rejection after an installation, and a state written back from
  an older copy (`cli/skills.py:270`);
- `InstalledStays` (`Skills`) without the exception for a command that was robbed: its failure takes away what
  another command has installed since (`skills.py:161-168`, `skill_compat.py:196-198`);
- `SchemaAsRecorded` and `IsolationInForce` (`MemoryUpkeep`) without the exception for a schema in doubt: after a
  clean restore of a dump older than the migrations a migration that has nothing left to do succeeds, and the row
  policy is off (`recovery.py:160-161`; `MaxUpkeep` is 3 and 4 for them);
- `BackupDescribed` (`MemoryUpkeep`): the manifest's version is read after the dump (`recovery.py:60`);
- `WorkIsRemembered` with two gateway processes on one state file (`_save_seen` neither locks nor reads it).

What the code does on purpose or by omission, and no property forbids: a group's turn whose writes fail in the
middle shows replies of a run recorded as failed; a command of configuration may lose an update made beside it
and bring back a value that was removed, as long as references resolve; a gateway message whose process dies, or
whose audit event raises, between `_remember` and its run is never run, and its redelivery is acknowledged as a
duplicate; the audit event that raises also keeps a permit until the next restart. The docstring of
`compact_history` says that the retained history always starts at a user turn, but a prompt of directives only
is stored without its user turn; `HistoryKept` holds all the same, and `render_history` drops the reply before
the model sees it.

## 4. Proofs

`ApprovalsProofs` proves, for all workers, identifiers, requests, lifetimes, bounds and both stores, under
`ConstantsAssumption`:

- `TypeCorrect`: `Spec => []TypeOK`;
- `OneTimeApprovalsAreConsumedOnce`: `Spec => []OnceConsumedOnce`;
- `StatusesAreFinal`: `Spec => NeverRevived`;
- `RefinesAuthority`: `Spec => ImplementsAuthority`.

`OnceConsumedOnce` is not inductive: nothing in it stops a worker whose update is pending from finding the
record open. The invariant `IInv` adds what the code relies on. `HeldInv`: a worker past its lookup holds
a stored identifier. `CopyInv`: a copy has the scope of its stored record, and a copy on its way to
`update` was active if it is a one-time record, so a matching status means nobody used it meanwhile.
`SessionInv`: a session record is never `used`. `SpentInv` and `SingleInv`: an accepted use of a one-time
record closes it, and is the only one. For the in-memory store a worker between its assignment and
`update` counts as having used the record (`AcceptedUses`), which is also the refinement mapping to
`ApprovalAuthority`. Each of the five parts has a lemma that `Next` preserves it; the two action
properties and the refinement then follow from `IInv` and the effect of a step on one record.

`DeliveryProofs` proves of the gateway, for all requests, messages, windows and pools, under `GatewayAssumption`:

- `RunOnceHolds` and `WorkIsRememberedHolds`, for one process (`OneProcess`; with two, TLC refutes it);
- `PermitsAccountedHolds`, for any number of processes and finitely many requests;
- `DispatchSoundHolds`, which joins them, for one process and finitely many requests.

`RunOnce` speaks of tasks, which come after the key: the invariant is about the owners of a key, the
requests between `_remember` and the end of their work (`Owner`). `DiskInv` and `MemoryInv`: an owner's key
is in the file and in the memory of a running process, or aged out; `SingleInv`: no two requests own one
key. `_remember` keeps it because it finds every owner's key in memory, `_forget` because it removes the
one key that has no other owner, a restart because the file has them all. The permits need that a queued
or running task belongs to a thread at or past `add_done_callback` (`CallInv`); a step then changes the
set of holders by at most its own request, and the permits by the same amount (`PermitStep`).

`AgentSessionsProofs` proves, for all runs, sessions, messages, profiles and limits, under
`AgentAssumption`:

- `TypeCorrect`: `Spec => []TypeOK`, with the lemma `CompactTexts` that compaction, whose cut is chosen as
  the least one that fits, yields a history;
- `ToolBudgetHolds`: `Spec => []ToolBudgetHeld`;
- `MessagesAreConsumedAfterSaving`: `Spec => []ConsumedWasNamed`;
- `DelegationNarrowsHolds`: `Spec => []DelegationNarrows`;
- `HistoryWholeHolds`: `Spec => []HistoryWhole`.

The budget is not inductive, because the code counts a batch before it executes it. `BudgetInv` says that
between two batches all that was counted is executed, and that inside one the calls executed and those still
to come add up to the count; `WaitInv` says that a waiting caller has a call to answer, so that `Return` stays
inside its batch. `MailInv` adds that a run that acknowledges has already saved the record that names its
messages. The three are kept run by run: an action changes the bookkeeping of the run that takes it, of a
subagent it starts, or of the runs that end with it (`AdmitKept`, `ExecutedKept`, `EnterKept`, `LeaveKept`).

Delegation: `Bond` ties a run to its caller alone: the caller waits for it, holds the rights it narrowed, and
may itself make the call it waits in. That a run is narrower than every run it works for follows by going up the
chain of callers (`BondsNarrow`): the highest caller that is not wider would be the caller of one that is.

Histories: `TalkInv` says of the record of a session, and of the history a run that has not saved holds, that it
is kept of all that was ever said (`KeptAt`), place by place instead of with `Suffix`, which is how compaction's
two cuts (`Compact`, of turns and of lines of the summary) can be followed through any number of resumes. It needs
that running runs have sessions of their own. `CallsInv` adds that native calls come first in a batch and that
what was executed follows the batch, so that the results a step reports are those of its native calls.

`GraphRunProofs` proves, for all graphs (any nodes, nesting, edges, joins, groups, compensations), limits and
numbers of processes, under `GraphAssumption`:

- `RecoveryTruthfulHolds`: `Spec => []RecoveryTruthful`, with crashes and exceptions anywhere;
- `CompletedWorkKeptHolds`: `Spec => CompletedWorkKept`;
- `SuccessIsCompleteHolds`: `Spec => []SuccessIsComplete`;
- `RecordTruthfulHolds`: `Uninterrupted => (Spec => []RecordTruthful)`.

None of the properties is inductive, for each speaks of the saved record only and the steps go by the record in
memory, by `skips`, which is in no record, and by threads. `GraphInv` ties these together. `DiskInv`: the record
in memory gives every node of the graph the outcome the saved one gives it, and between the waves the saved one
has every outcome, so that what `ready_nodes` counts is on disk. `SkipInv`: a mark never has to be taken back;
`Markings` is defined by what one pass in topological order leaves, and since edges go forward a node
marked before stays marked (`MarkStays`). `WaveInv`: a node that has a thread is pending and unmarked, which is
why its outcome replaces none. `DoneInv`: a scheduler that is done has nothing pending it could run, by taking
the first such node in the order (`NothingPending`). `UndoInv`: the compensations of every node already
visited were tried. `ThreadInv`, `LabelInv` and `StoppedInv` say where threads, scopes and counters stand:
the depth is the number of subgraphs under way, and nothing is left of a process that ended.

The loop budget of `RecordTruthful` holds where nothing but pauses, failures and resumes interrupts a run, for a
count that no save took to the disk is lost with its process. `Uninterrupted` says so of the constants:
no crash, no node raises, and the usage limit, whose check raises inside a fragment, is not below the number
of nodes; the constants of `GraphRelease` satisfy it. `BodyRuns` counts for each loop the runs of a node of its
body against the iterations on disk, in memory, or in memory and the one under way.

Of the audit pipeline and of sandboxed calls, `DeliveryProofs` proves, under `PipelineAssumption` and
`SandboxAssumption`:

- `AuditKeptHolds`: `AuditSpec => []AuditKept`;
- `PipelineImplementsLedger`: `AuditSpec => ImplementsLedger`;
- `SandboxSoundHolds`: `SandboxSpec => []SandboxSound`.

`AuditKept` speaks of the buffer and the collector, and what is on its way between them is in the hands of a
worker. `LockInv`: whoever reads and rewrites the buffer holds its lock. `RestOf`: what a flush has still to
deliver is the end of the buffer, and all before it is recorded, so its rewrite removes recorded events only;
`SuffixInv`: the buffer is the end of all that was ever put in it, so an eviction takes the oldest. `EventInv` and
`BatchInv`: an event has one writer and no request holds it twice, so nothing is recorded twice whatever is sent
again. `CountInv`: between the two writes of `_write_stats_unlocked` the count is the worker's. The refinement
maps every step but those of the collector, of `Put` and of `Rewrite` to a stutter.

Of a sandboxed call, `ChunksInv` says that until the limit is crossed every chunk is in a pipe, in a thread's
hand or stored, `DrainedInv` that a thread which returned left its pipe empty and closed, and `ContainerInv` what
the cleanup still has to find.

`WebProofs` proves, under the assumptions of the four modules:

- `TranscriptsWholeHolds` and `DecisionHonouredHolds` of `WebRunsSpec`;
- `GatesServedHolds` of `WebGraphsSpec`;
- `ScheduleSpacingHolds` of `WebSchedulesSpec`;
- `SignInOnceHolds` of `WebAccessSpec`.

A transcript is whole because one run at a time writes to a conversation: `OneWriter` says that the conversation
of a run which may still write is in `active` and no other's; `TurnsInv` that the transcript then ends with that
run's turn. `RunReplies` relates what each speaker did to the replies the transcript has, which in a parallel
turn are kept only when all speakers are done, and of which a write that raises may or may not leave the last.
`AskInv` is about the request in the approval store: a run that waits has one, and what a run acted on is
decided. For graphs, `AskedInv` says that a card that waits is the one the handle shows, and `FeedInv` that
nothing follows the event that closes a stream. A schedule's early tries are counted against the failures:
`TicksInv` says that a schedule whose file is behind has a failure not yet used up. A callback takes its sign-in
out of `pending` (`TakenInv`) before it leaves the event loop.

`MemoryProofs` proves, for all memories, requests and attempts, under `SharedMemoryAssumption`,
`PostgresHolds`: `SharedMemorySpec => PostgresHoldBlocks`. The invariant `PostgresInv` speaks of Postgres only:
`OneRowEach`, a memory has at most one row, which a transaction changes in place, so that its last change is
its state; `RowsWereLogged`, a row has the event that made it; `HoldsAreStored`, a memory whose hold was applied and
not released has its flag; `ListedAreStored`, what a sweep listed has a row. The guard of the transaction reads
the flag in the step that would delete, which is what the two appends on Iceberg cannot do.

It also proves, for all proposals and reviewers, under `MemoryReviewAssumption`,
`ReviewLosesNothingHolds`: `MemoryReviewSpec => []ReviewLosesNothing`. The property is not inductive, because a
rewrite replaces the whole queue by a copy. `AtWork` says that whoever is about to replace the queue holds its
lock, that its copy is the queue, and that a verdict on its way to the queue as accepted was written;
`OnceEach` that the queue holds each proposal once.

Of shared memory and its upkeep together, for all memories, requests, processes and rows and over both back ends,
`SharedMemoryKeptHolds`: `MemorySpec => SharedMemoryKept`. That every state has its event is not inductive, for
between the two appends on Iceberg a request may fail, others append, and it is tried again. `LogInv` therefore
ties each event to what its operation asks for, which a retry does not change, and `RowInv` each row to the
operation that made it, to that operation's event and to the events of all that the row says; the version a
change starts from exists (`NewestExists`, the least of a set of numbers). `UpkeepInv` says that the
schema is as recorded unless it is in doubt, that every dump taken without doubt, under the output name or in the
hands of a process, holds such a database, that whoever is between the steps of a restore leaves the schema in
doubt, and that every restore was told it may destroy rows.

`ServicesProofs` proves, for any threads and any cache time, cooldown and timeout, under `KeysAssumption`,
`WithdrawnKeysExpireHolds`: `KeysSpec => WithdrawnKeysExpire`. `CacheInv` and `AnswerInv` say of the cached set and
of each answer in flight that a key in it which is withdrawn now was withdrawn after the request for that set
began; as the set carries that time, its age bounds how long the key has been gone (`AcceptedWithin`).

It also proves, for all skills, contents and commands, under `SkillsAssumption`, `InstallationsHold`:
`SkillsSpec => []InstallsHold`. `PlaceInv` says that of the commands that were not robbed of a skill one at most
holds it, because its check or its import's handler may still take it away, that the package is there then, and
that beside an installation which stands none does but the import that put it. `RobbedInv` says that only of a
skill that was removed is a command robbed, `ImportInv` what an import has put and has left, and `AcceptInv` that a
review recorded as accepted installed what it names, once unless it was removed; `ReviewInv` ties a review to the
proposal it read.

Of MCP it proves, for all processes, tasks, inputs, pages and limits, under `McpTasksAssumption`,
`McpAnswersHoldAlways`: `McpTasksSpec => McpAnswersHold`. A process acts on the task it knows from an earlier
answer and saves later, so `ClientInv` says of every process that what it is about to save, or to mark as
answered, happened to the task; `ToldGrows` and `TasksKept` that this stays true whatever the others do, since a
task takes back no input, no cancellation and no final status (`Grows`). `SetToSeqLists` gives what the inputs of
one request are, in any order.

Of configuration, for all layers, values and writers, under `ConfigurationAssumption`, `ReferencesResolveAlways`:
`ConfigurationSpec => []ReferencesResolve`. Writers write stale copies of the file and roll them back, so
`WriterInv` says of every copy a command holds what the property says of the file, and of what it is about to write
that it names a profile wherever a layer names a credential (`ViewResolves`). A command writes both keys
or neither (`Whole`), which is why an edit laid over another copy still resolves (`WrittenResolves`).

Of profiles, for all agents, users, specifications and facts, `DeltasAppliedOnceHolds`:
`ProfileDocumentsSpec => []DeltasAppliedOnce`. `LogSound` says that each delta in the log of a document was made for
a revision before the document's, so a delta in it has no right base any more (`WriteSound`); `TaskSound` says
the same of the documents that editors hold and may write back, and that a proposal a review is about to
record as applied was written.

`ContentProofs` is about the parts whose promise is a computation: what a fold, a filter or a search returns for
every input. The library's induction takes an operator as a parameter, which the provers cannot instantiate, so the
definitions are recursive functions over the numbers up to a length, and `RecursiveFunction` proves once, from the
least number (`LeastExists`), that the function which goes on from the value before it exists; a property of every
value then follows by the least number that would not have it (`Induction`). It proves:

- `NoAuthorityGained`: `ProfileAuthoritySpec => []AuthorityNarrows`, for all profiles, files, inheritance and
  configurations, under `ProfileAuthorityAssumption` (decisions, learning and budgets are from their orders).
  `AuthorityInv` says that an agent's grant is what its lineage composes to (`EffectiveOf`); `LayerNarrows` that
  one layer narrows each part of what it is given, and `LayersNarrow` that what all of them leave is no more than
  each allows and than the configuration grants. Workspace roots are not in it: see finding 4.
- `BundlesAlwaysSound`: `EvidenceSpec => []BundlesSound`, for all runs and logs. `EvidenceInv` says that what an
  export has read, and what a bundle holds, is a chain by itself whose lines the log still has, whatever was
  appended since. `SegmentIsChain` shows that cutting the lines of other runs to their hashes keeps the
  chain (`SameHashes`), and `PartMatches` that the run's own lines are those the verifier finds again.
- `PlanAlwaysHolds`: `GraphDocumentsSpec => []PlanHolds`, for all graphs, policies and edits, under
  `GraphDocumentsAssumption` (a sound graph has finitely many nodes, and its edges, alternates and compensations
  name them). `GraphDocumentsInv` says that the run of a graph without recoveries and hidden bodies has made no more
  tries than its ended nodes may have, which are part of those the plan counted (`ExecutionsWithin`), and that in a
  `Sequential` graph a node that began in its turn has every predecessor succeeded, so that the gate the policy
  found before it was passed (`GateFoundWithin`), and stays passed while others are compensated.
- `RepliesAlwaysWhole`: `ModelClientsSpec => []ReplyWhole`, for all replies and any number of retries, under
  `ModelClientsAssumption` (a reply is a sequence of events whose indices are integers). `ClientInv` says that a
  caller has been shown nothing before a stream is read, and that from then on the text and the calls under
  assembly are those of the events read so far (`ReadSoFar`, `Assembled`): `EventAssembled` puts one event more
  where it belongs, `PlacesInOrder` orders the calls by their indices, and `FilteredBegins` says that what was
  shown is the beginning of what the reply says.
- `PatchesAlwaysExact`: `PatchSpec => []PatchExact`, for all diffs, offsets and files, under `PatchAssumption` and
  `DiffsAssumption` (a plain diff fits the tree it was made from and is made to the tree it says). `CutAtHunk`
  says where the lines of a hunk are once the hunks before it have moved them, `FoundWhereStated` that the
  search then takes no other place, so that planning a section finds what the diff says and nothing else
  (`ResultsExact`); `ReproducedInv` that the tree is that of the sections written so far, as they are stored
  (`StoredTexts`), which `RemadeNext` carries on; where a diff keeps to LF and to the last newline these are the
  files it was made to. While another program writes, only the first half of the property remains.

- `FindingsAlwaysContained`: `ProtectionSpec => []FindingsContained`, for a text of any length with any number of
  findings, under `ProtectionAssumption` (the scanners have finitely many patterns, a surface allows, redacts or
  blocks). `OrdersExist` puts the findings in order, `IntervalsCover` says that joining them one by one leaves
  intervals that lie apart and cover what they cover (`SpanJoined`), and `CutsDeliver` that cutting these out from
  the right delivers the rest in order: the places left of the last cut are still those of the whole text
  (`CutDelivers`). `ProtectionInv` then has only to say that what was returned is the decision of what was asked.

Only model-checked are the liveness properties, for fairness and `ENABLED` are beyond the prover: `ChatRunsEnd`,
`CallsReturn`, `IsolatedCallsReturn`, `PermitsReturn`, `RunStops`, `RunsStop` and `SlotsReturned`.

## 5. What is not modelled

The table of components in `PROJECT.json` says it part by part. Whole parts left out, with the reason:

- audit views, artifacts, telemetry, benchmarks and readiness reports read and render, and keep no state;
- interoperability: the Postgres form of the approval store and its stdio adapter stand behind the interface
  that `WebRuns` models; Polaris and the WebMCP adapters translate between protocols;
- the adapters of the gateway (signatures, parsing, identities), provider catalogues, request bodies and headers,
  the credential vault and the plugins, which are loaded once: checks and conversions before any shared state;
- the file, git, shell and network tools, whose effects are those of the programs they call;
- the precedence of permission rules and the patterns of the scanners, which are tables over strings;
- the drafting of graphs in the browser, the other pages and the other views of the command line.

Within the modelled parts: file limits and permissions, redaction and the contents of records, prompts and
outputs; retries and fallbacks inside one node; dry runs; a history that the caller supplies, sessions saved
before 0.22 and memory recall in the agent loop, whose byte, token and cost budgets may end a run at any
step; two runs of one session at a time, which `docs/session-messaging.md:51-53` leaves out; forwarding of audit
events; the search, ranking and snapshots of shared memory, and tenants other than the operator's; templates,
imports and exports of profiles; the exchange with the identity provider; claims of tokens. Loops and nodes of
fragments have distinct names in the model, while the code keys loop counters by node identifier. Of the
server's rights the model has the middleware's verdict, not the list of routes.

## 6. Plan

1. Compositions: `WebRuns` over `AgentSessions`, so that a conversation's turns are the agent loop's, and
   `WebGraphs` as the gate provider of `GraphRun`.
2. Parts: the drafting of graphs in the browser, the Postgres approval store against `ApprovalAuthority`,
   equal loop names in two fragments, a second executor over one record.
