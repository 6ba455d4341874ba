------------------------------ MODULE McpTasks ------------------------------
(***************************************************************************)
(* A long-running task of an MCP server and the durable handle Loro keeps  *)
(* of it: loro/mcp/tasks.py and the task operations of mcp/client.py, as   *)
(* the commands of cli/mcp.py and the tools of an agent call them.         *)
(*                                                                         *)
(* The server is external.  Several processes start, poll, answer and      *)
(* cancel the task; each call is a request the server serves at once and a *)
(* reply that may take its time, be lost or be too large.  The handle is   *)
(* merged and rewritten under a file lock, and read without one.           *)
(***************************************************************************)
EXTENDS McpConnections, Sequences, SequencesExt

CONSTANTS
    Clients,         \* processes
    TaskKeys,            \* the inputs the server may ask for
    MaxCalls         \* bound on the requests made

ASSUME McpTasksAssumption == MaxCalls \in Nat /\ IsFiniteSet(TaskKeys)

VARIABLES
    task,            \* the server's task
    handle,          \* the local record of it, or NoHandle
    client,          \* process -> what it is doing and the handle it holds
    calls            \* requests made so far

mcpTasksVars == <<task, handle, client, calls>>

TaskFinal == {"completed", "failed", "cancelled"}

NoTask == [status |-> "none", asked |-> {}, outstanding |-> {}, received |-> <<>>,
           cancel |-> FALSE]
NoHandle == [status |-> "none", outstanding |-> {}, answered |-> {}, cancel |-> FALSE]

McpTasksInit ==
    /\ task = NoTask
    /\ handle = NoHandle
    /\ client = [c \in Clients |-> [pc |-> "idle", holds |-> NoHandle, keys |-> {}]]
    /\ calls = 0

---------------------------------------------------------------------------
(* The server.                                                             *)

ServerAsks(keys) ==
    /\ task.status = "working" /\ keys # {} /\ keys \intersect task.asked = {}
    /\ task' = [task EXCEPT !.status = "input_required", !.outstanding = keys,
                            !.asked = @ \union keys]
    /\ UNCHANGED <<handle, client, calls>>

ServerEnds(status) ==
    /\ task.status \in {"working", "input_required"}
    /\ status = "cancelled" => task.cancel
    /\ task' = [task EXCEPT !.status = status, !.outstanding = {}]
    /\ UNCHANGED <<handle, client, calls>>

\* What tasks/update does to the task.
Told(keys) ==
    [task EXCEPT !.received = @ \o SetToSeq(keys),
                 !.outstanding = @ \ keys,
                 !.status = IF @ = "input_required" /\ task.outstanding \subseteq keys
                            THEN "working" ELSE @]

---------------------------------------------------------------------------
(* The store.                                                              *)

\* record_remote: a handle as the server's reply has it.
FromReply == [NoHandle EXCEPT !.status = task.status, !.outstanding = task.outstanding]

\* Faulty variant: the record becomes what this process holds.
MergedNot(h) == h

\* What save writes: what other processes recorded meanwhile is kept.
Merged(h) == [h EXCEPT !.answered = @ \union handle.answered,
                       !.cancel = @ \/ handle.cancel]

\* An observed end is never changed.
ChangesEnd(h) == handle.status \in TaskFinal /\ h.status # handle.status

Answerable(keys) ==
    /\ keys # {} /\ keys \intersect handle.answered = {}
    /\ keys \subseteq handle.outstanding

---------------------------------------------------------------------------
(* The operations.                                                         *)

Calls ==
    /\ TasksServed
    /\ calls < MaxCalls /\ calls' = calls + 1

At(c, label) == client[c].pc = label

Turns(c, label, h, keys) ==
    client' = [client EXCEPT ![c] = [pc |-> label, holds |-> h, keys |-> keys]]

Rest(c) == Turns(c, "idle", NoHandle, {})

\* start_task, or a call of a tool that answers with a task.
StartTask(c) ==
    /\ At(c, "idle") /\ task.status = "none"
    /\ Calls
    /\ task' = [task EXCEPT !.status = "working"]
    /\ Turns(c, "save", [NoHandle EXCEPT !.status = "working"], {})
    /\ UNCHANGED handle

\* get_task: the reply is what the task is now, and is recorded later.
GetTask(c) ==
    /\ At(c, "idle") /\ handle # NoHandle
    /\ Calls
    /\ Turns(c, "save", FromReply, {})
    /\ UNCHANGED <<task, handle>>

\* Faulty variant: recorded as answered before it is sent.
UpdateMarkingFirst(c, keys) ==
    /\ At(c, "idle") /\ handle.status = "input_required" /\ Answerable(keys)
    /\ Calls
    /\ Turns(c, "mark", NoHandle, keys)
    /\ UNCHANGED <<task, handle>>

\* update_task: the record is checked before the connection is made.
UpdateTask(c, keys) ==
    /\ At(c, "idle") /\ handle.status = "input_required" /\ Answerable(keys)
    /\ Calls
    /\ Turns(c, "send", NoHandle, keys)
    /\ UNCHANGED <<task, handle>>

SendInput(c) ==
    /\ At(c, "send")
    /\ task' = Told(client[c].keys)
    /\ Turns(c, "mark", NoHandle, client[c].keys)
    /\ UNCHANGED <<handle, calls>>

\* mark_answered: the record is read and checked again, without the lock.
MarkAnswered(c) ==
    /\ At(c, "mark")
    /\ IF Answerable(client[c].keys)
       THEN Turns(c, "save", [handle EXCEPT !.answered = @ \union client[c].keys], {})
       ELSE Rest(c)
    /\ UNCHANGED <<task, handle, calls>>

\* cancel_task: cooperative, the server may or may not give up the task.
CancelTask(c) ==
    /\ At(c, "idle") /\ handle # NoHandle
    /\ Calls
    /\ task' = [task EXCEPT !.cancel = TRUE]
    /\ Turns(c, "intent", NoHandle, {})
    /\ UNCHANGED handle

\* mark_cancellation_requested, in the same two steps.
MarkCancelled(c) ==
    /\ At(c, "intent")
    /\ Turns(c, "save", [handle EXCEPT !.cancel = TRUE], {})
    /\ UNCHANGED <<task, handle, calls>>

Save(c) ==
    /\ At(c, "save")
    /\ handle' = IF ChangesEnd(client[c].holds) THEN handle ELSE Merged(client[c].holds)
    /\ Rest(c)
    /\ UNCHANGED <<task, calls>>

\* The reply is lost, or larger than allowed, or the process dies.
Fails(c) ==
    /\ client[c].pc # "idle"
    /\ Rest(c)
    /\ UNCHANGED <<task, handle, calls>>

---------------------------------------------------------------------------
McpTasksNext ==
    \/ \E keys \in SUBSET TaskKeys : ServerAsks(keys)
    \/ \E status \in TaskFinal : ServerEnds(status)
    \/ \E c \in Clients :
          \/ StartTask(c) \/ GetTask(c) \/ SendInput(c) \/ MarkAnswered(c)
          \/ CancelTask(c) \/ MarkCancelled(c) \/ Save(c) \/ Fails(c)
          \/ \E keys \in SUBSET TaskKeys : UpdateTask(c, keys)

McpTasksSpec ==
    McpConnectionsInit /\ McpTasksInit
    /\ [][\/ McpTasksNext /\ UNCHANGED mcpConnectionsVars
          \/ McpConnectionsNext /\ UNCHANGED mcpTasksVars]_<<mcpTasksVars, mcpConnectionsVars>>

---------------------------------------------------------------------------
RecordGrows ==
    /\ handle.answered \subseteq handle'.answered
    /\ handle.cancel => handle'.cancel
    /\ handle.status \in TaskFinal => handle'.status = handle.status

(* What the record says happened: the inputs it calls answered reached the *)
(* server, so did the cancellation, and its end is the task's.             *)
RecordHappened ==
    /\ handle.answered \subseteq ToSet(task.received)
    /\ handle.cancel => task.cancel
    /\ handle.status \in TaskFinal => handle.status = task.status

(* What a caller is told of a server is what the server said: the whole    *)
(* listing, and of a task what happened to it.  Whatever processes poll,   *)
(* answer and cancel side by side, and in which order their replies come   *)
(* back, the record never forgets that an input was answered or that the   *)
(* task was asked to stop, and never leaves an end it has seen.            *)
McpAnswersHold ==
    [][ListingWhole' /\ RecordHappened' /\ RecordGrows]_<<mcpTasksVars, mcpConnectionsVars>>
=============================================================================
