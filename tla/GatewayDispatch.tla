--------------------------- MODULE GatewayDispatch ---------------------------
(***************************************************************************)
(* loro/gateway/service.py: a thread per request admits a message to the   *)
(* bounded queue, remembers its replay key in memory and in the state      *)
(* file, and hands it to a pool of workers that run the agent and deliver  *)
(* the reply.  The requests modelled are authentic, complete and allowed:  *)
(* the others are answered before any state is touched.                    *)
(*                                                                         *)
(* Several processes may share one state file.  _seen_lock makes _remember *)
(* and _forget atomic among the threads of a process, and the file is      *)
(* replaced in one step; a save that raises has replaced it or not.        *)
(***************************************************************************)
EXTENDS Naturals, Sequences, FiniteSets, SequencesExt

CONSTANTS
    Requests,    \* deliveries, the platform's retries included
    Messages,    \* what they deliver, by replay key
    Processes,   \* gateway processes on the same state file
    Window,      \* max_seen_messages
    MaxPending,  \* max_pending_tasks
    MaxWorkers,  \* max_workers
    AuditRaises  \* an audit event may fail (failure_mode is "fail")

ASSUME GatewayAssumption ==
    /\ Window \in Nat \ {0} /\ MaxPending \in Nat \ {0} /\ MaxWorkers \in Nat \ {0}
    /\ AuditRaises \in BOOLEAN

VARIABLES
    disk,     \* the keys of the state file, oldest first
    status,   \* "up", "closing" (close waits for the workers) or "down"
    seen,     \* _seen
    free,     \* permits left in pending
    queue,    \* the executor's work queue
    pc,       \* where the request's thread stands, or how it was answered
    task,     \* the future of the request
    msg,      \* the message of the request
    host,     \* the process it reached
    aged      \* history: the keys that left a full window

process == <<status, seen, free, queue>>
vars    == <<disk, process, pc, task, msg, host, aged>>

Init ==
    /\ disk = <<>>
    /\ status = [p \in Processes |-> "up"]
    /\ seen = [p \in Processes |-> <<>>]
    /\ free = [p \in Processes |-> MaxPending]
    /\ queue = [p \in Processes |-> <<>>]
    /\ pc = [r \in Requests |-> "new"]
    /\ task = [r \in Requests |-> "none"]
    /\ msg \in [Requests -> Messages]
    /\ host \in [Requests -> Processes]
    /\ aged = {}

Goto(r, label) == pc' = [pc EXCEPT ![r] = label]
At(r, label)   == pc[r] = label /\ status[host[r]] # "down"
Permit(p)      == free' = [free EXCEPT ![p] = @ + 1]

-----------------------------------------------------------------------------
(* GatewayDispatcher._handle, from the queue on. *)

Admit(r) ==
    /\ At(r, "new")
    /\ IF free[host[r]] > 0
       THEN /\ free' = [free EXCEPT ![host[r]] = @ - 1]
            /\ Goto(r, "remember")
       ELSE Goto(r, "refused") /\ UNCHANGED free
    /\ UNCHANGED <<disk, status, seen, queue, task, msg, host, aged>>

\* A full deque drops its oldest key.
Oldest(p)  == IF Len(seen[p]) = Window THEN {Head(seen[p])} ELSE {}

\* Faulty variant: the window has no limit.
PushUnbounded(p, m) == Append(seen[p], m)

Push(p, m) == Append(IF Oldest(p) = {} THEN seen[p] ELSE Tail(seen[p]), m)

\* Faulty variant: the key that was dropped is not put back.
RolledBackWithoutOldest(p) == IF Oldest(p) = {} THEN seen[p] ELSE Tail(seen[p])

\* What _remember leaves in memory when the save raises.
RolledBack(p) == seen[p]

\* Faulty variant: the key is remembered in memory only.
SaveLater(p, m) ==
    /\ seen' = [seen EXCEPT ![p] = Push(p, m)]
    /\ aged' = aged \union Oldest(p)
    /\ UNCHANGED disk

Save(p, m) ==
    /\ seen' = [seen EXCEPT ![p] = Push(p, m)]
    /\ disk' = Push(p, m)
    /\ aged' = aged \union Oldest(p)

SaveRaises(p, m) ==
    /\ seen' = [seen EXCEPT ![p] = RolledBack(p)]
    /\ \/ UNCHANGED <<disk, aged>>
       \/ disk' = Push(p, m) /\ aged' = aged \union Oldest(p)

Remember(r) ==
    LET p == host[r]
        m == msg[r]
    IN /\ At(r, "remember")
       /\ \/ m \in ToSet(seen[p]) /\ Goto(r, "duplicate") /\ UNCHANGED <<seen, disk, aged>>
          \/ m \notin ToSet(seen[p]) /\ Goto(r, "accept") /\ Save(p, m)
          \/ m \notin ToSet(seen[p]) /\ Goto(r, "release") /\ SaveRaises(p, m)
       /\ UNCHANGED <<status, free, queue, task, msg, host>>

\* A duplicate is acknowledged like the message itself; an exception is a 500.
Release(r) ==
    /\ \/ At(r, "duplicate") /\ Goto(r, "acknowledged")
       \/ At(r, "duplicate") /\ AuditRaises /\ Goto(r, "refused")
       \/ At(r, "release") /\ Goto(r, "refused")
    /\ Permit(host[r])
    /\ UNCHANGED <<disk, status, seen, queue, task, msg, host, aged>>

\* The event gateway.accepted. If it raises, nobody gives the permit back.
Accept(r) ==
    /\ At(r, "accept")
    /\ \/ Goto(r, "submit")
       \/ AuditRaises /\ Goto(r, "stranded")
    /\ UNCHANGED <<disk, process, task, msg, host, aged>>

\* executor.submit raises once the executor is shut down.
Submit(r) ==
    /\ At(r, "submit")
    /\ IF status[host[r]] = "up"
       THEN /\ queue' = [queue EXCEPT ![host[r]] = Append(@, r)]
            /\ task' = [task EXCEPT ![r] = "queued"]
            /\ Goto(r, "hook")
       ELSE Goto(r, "forget") /\ UNCHANGED <<queue, task>>
    /\ UNCHANGED <<disk, status, seen, free, msg, host, aged>>

\* The permit is given back whether or not the save of _forget raises.
Forget(r) ==
    LET p == host[r]
    IN /\ At(r, "forget")
       /\ \/ msg[r] \notin ToSet(seen[p]) /\ UNCHANGED <<seen, disk>>
          \/ \E i \in 1..Len(seen[p]) :
                LET kept == RemoveAt(seen[p], i)
                IN /\ seen[p][i] = msg[r]
                   /\ seen' = [seen EXCEPT ![p] = kept]
                   /\ disk' \in {kept, disk}
       /\ Goto(r, "release")
       /\ UNCHANGED <<status, free, queue, task, msg, host, aged>>

\* Faulty variant: the callback is not called when the task is already over.
HookLate(r) ==
    /\ At(r, "hook")
    /\ Goto(r, "accepted")
    /\ UNCHANGED <<disk, process, task, msg, host, aged>>

\* add_done_callback, which calls the callback at once if the task is over.
Hook(r) ==
    /\ At(r, "hook")
    /\ Goto(r, "accepted")
    /\ IF task[r] = "done" THEN Permit(host[r]) ELSE UNCHANGED free
    /\ UNCHANGED <<disk, status, seen, queue, task, msg, host, aged>>

-----------------------------------------------------------------------------
(* The executor. *)

Running(p) == {r \in Requests : host[r] = p /\ task[r] = "running"}

\* Faulty variant: close cancels what is queued.
RunWhileUp(r) ==
    /\ status[host[r]] = "up"
    /\ task[r] = "queued" /\ Head(queue[host[r]]) = r
    /\ Cardinality(Running(host[r])) < MaxWorkers
    /\ queue' = [queue EXCEPT ![host[r]] = Tail(@)]
    /\ task' = [task EXCEPT ![r] = "running"]
    /\ UNCHANGED <<disk, status, seen, free, pc, msg, host, aged>>

Run(r) ==
    /\ task[r] = "queued" /\ Head(queue[host[r]]) = r
    /\ Cardinality(Running(host[r])) < MaxWorkers
    /\ queue' = [queue EXCEPT ![host[r]] = Tail(@)]
    /\ task' = [task EXCEPT ![r] = "running"]
    /\ UNCHANGED <<disk, status, seen, free, pc, msg, host, aged>>

\* _process is over: it delivered a reply, an excuse or nothing, or raised.
Finish(r) ==
    /\ task[r] = "running"
    /\ task' = [task EXCEPT ![r] = "done"]
    /\ IF pc[r] = "accepted" THEN Permit(host[r]) ELSE UNCHANGED free
    /\ UNCHANGED <<disk, status, seen, queue, pc, msg, host, aged>>

-----------------------------------------------------------------------------
(* The process. *)

\* GatewayDispatcher.close.
Close(p) ==
    /\ status[p] = "up"
    /\ status' = [status EXCEPT ![p] = "closing"]
    /\ UNCHANGED <<disk, seen, free, queue, pc, task, msg, host, aged>>

\* 200 for the message, 200 for a duplicate, 429 or 500, and no answer.
Answered == {"accepted", "acknowledged", "refused", "lost"}

\* What the process held is gone; its request threads are daemons.
Down(p) ==
    /\ status' = [status EXCEPT ![p] = "down"]
    /\ seen' = [seen EXCEPT ![p] = <<>>]
    /\ free' = [free EXCEPT ![p] = MaxPending]
    /\ queue' = [queue EXCEPT ![p] = <<>>]
    /\ pc' = [r \in Requests |->
                 IF host[r] # p \/ pc[r] = "new" \/ pc[r] \in Answered THEN pc[r]
                 ELSE IF pc[r] = "stranded" THEN "refused" ELSE "lost"]
    /\ task' = [r \in Requests |->
                   IF host[r] = p /\ task[r] \in {"queued", "running"} THEN "lost" ELSE task[r]]
    /\ UNCHANGED <<disk, msg, host, aged>>

\* close returns when the workers have run all they were given.
Exit(p) ==
    /\ status[p] = "closing"
    /\ queue[p] = <<>> /\ Running(p) = {}
    /\ Down(p)

Crash(p) == status[p] # "down" /\ Down(p)

\* GatewayDispatcher.__init__, with _load_seen.
Start(p) ==
    /\ status[p] = "down"
    /\ status' = [status EXCEPT ![p] = "up"]
    /\ seen' = [seen EXCEPT ![p] = disk]
    /\ UNCHANGED <<disk, free, queue, pc, task, msg, host, aged>>

-----------------------------------------------------------------------------

Handle(r) ==
    \/ Admit(r) \/ Remember(r) \/ Release(r) \/ Accept(r) \/ Submit(r) \/ Forget(r) \/ Hook(r)

Next ==
    \/ \E r \in Requests : Handle(r) \/ Run(r) \/ Finish(r)
    \/ \E p \in Processes : Close(p) \/ Exit(p) \/ Crash(p) \/ Start(p)

Spec == Init /\ [][Next]_vars

\* Threads run, and a run of the agent ends: its calls have timeouts and its loop
\* a bound. Nothing makes a process close, crash or start.
Fairness == \A r \in Requests : WF_vars(Handle(r)) /\ WF_vars(Run(r)) /\ WF_vars(Finish(r))

FairSpec == Spec /\ Fairness

-----------------------------------------------------------------------------
(* Properties. *)

Labels ==
    {"new", "remember", "duplicate", "release", "accept", "submit", "forget", "hook",
     "stranded"} \union Answered

IsWindow(s) ==
    /\ s \in Seq(Messages) /\ Len(s) <= Window
    /\ \A i, j \in 1..Len(s) : s[i] = s[j] => i = j

\* The state has its shape: a window holds no key twice, and at most Window keys.
TypeOK ==
    /\ IsWindow(disk)
    /\ status \in [Processes -> {"up", "closing", "down"}]
    /\ DOMAIN seen = Processes /\ \A p \in Processes : IsWindow(seen[p])
    /\ free \in [Processes -> 0..MaxPending]
    /\ \A p \in Processes : ToSet(queue[p]) = {r \in Requests : host[r] = p /\ task[r] = "queued"}
    /\ pc \in [Requests -> Labels]
    /\ task \in [Requests -> {"none", "queued", "running", "done", "lost"}]
    /\ msg \in [Requests -> Messages]
    /\ host \in [Requests -> Processes]
    /\ aged \subseteq Messages

\* "Duplicate deliveries are acknowledged without rerunning work": as long as its key
\* has not aged out of the window a message is given to the workers at most once,
\* whatever saves raise, processes crash and submissions are undone (_remember, _forget).
RunOnce ==
    \A q, r \in Requests :
        task[q] # "none" /\ task[r] # "none" /\ msg[q] = msg[r] /\ msg[r] \notin aged => q = r

\* No work without a durable marker: the key of a message the workers were given is
\* in the state file until it ages out, so that no later process runs it again.
WorkIsRemembered ==
    \A r \in Requests : task[r] # "none" => msg[r] \in ToSet(disk) \union aged

\* The requests that hold a permit of p: in flight, waiting for or on a worker, or
\* stranded by an audit event that raised, the only permits that never come back.
Holds(r) ==
    \/ pc[r] \in {"remember", "duplicate", "release", "accept", "submit", "forget", "hook",
                  "stranded"}
    \/ pc[r] = "accepted" /\ task[r] \in {"queued", "running"}

Holders(p) == {r \in Requests : host[r] = p /\ Holds(r)}

\* Every other permit is free: max_pending_tasks is a bound, and on no other path is
\* a permit lost or returned twice (_handle's releases and the future's callback).
PermitsAccounted ==
    \A p \in Processes : free[p] + Cardinality(Holders(p)) = MaxPending

\* One process neither repeats a message nor forgets one at work, and its permits are
\* all accounted for.
DispatchSound == RunOnce /\ WorkIsRemembered /\ PermitsAccounted

\* An admitted request is answered and leaves its permit, unless it is stranded: close
\* runs what is queued (cancel_futures=False).
PermitsReturn ==
    \A r \in Requests :
        pc[r] = "remember" ~> pc[r] = "stranded" \/ r \notin Holders(host[r])
=============================================================================
