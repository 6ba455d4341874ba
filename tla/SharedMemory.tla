---------------------------- MODULE SharedMemory ----------------------------
(***************************************************************************)
(* Governed shared memory: loro/memory/operations.py over the Postgres and *)
(* the Iceberg back end, and the commands of loro/cli/memory.py and ops.py *)
(* that call it.                                                           *)
(*                                                                         *)
(* An operation is a draft to commit or a lifecycle request; it carries an *)
(* identifier of its own, which a retry repeats, and the time at which it  *)
(* was requested, before the operator was asked to approve it.  Postgres   *)
(* does an operation in one transaction.  Iceberg appends an event to one  *)
(* table and a version to another; an append succeeds only on the snapshot *)
(* that was loaded, as the catalog promises, and what a memory is now is   *)
(* its version of the latest time.                                         *)
(***************************************************************************)
EXTENDS Integers, Sequences, FiniteSets, SequencesExt

CONSTANTS
    Backends,        \* the back ends a behaviour may be of
    Memories,        \* each is also the identifier of the draft it comes from
    Requests,        \* identifiers of lifecycle requests, numbers taken in order
    MaxAttempts      \* bound on the requests and retries made

ASSUME SharedMemoryAssumption ==
    /\ Backends \subseteq {"postgres", "iceberg"} /\ MaxAttempts \in Nat
    /\ Requests \subseteq Nat /\ Memories \intersect Requests = {}

Operations == Memories \union Requests

VARIABLES
    backend,         \* config.memory.shared.backend
    attempts,        \* the requests and retries made so far: the clock
    op,              \* operation -> its request, attempt by attempt
    table,           \* shared_memories: rows, or versions, in the order stored
    log,             \* memory_events in the order stored
    listed,          \* what a sweep found expired and has not yet retired
    held             \* history: memory -> a hold was applied and none released it

memoryTables == <<table, log>>
sharedMemoryVars == <<backend, attempts, op, memoryTables, listed, held>>

Actions == {"correct", "delete", "expire", "hold", "release_hold"}

\* A request: its action, its memory, requested_at and how far it is, with the
\* snapshots Iceberg loaded for it.
NoRequestYet == [action |-> "none", of |-> "none", at |-> 0, pc |-> "new",
                 rows |-> 0, events |-> 0]

SharedMemoryInit ==
    /\ backend \in Backends
    /\ attempts = 0
    /\ op = [o \in Operations |-> NoRequestYet]
    /\ table = <<>> /\ log = <<>>
    /\ listed = {}
    /\ held = [m \in Memories |-> FALSE]

---------------------------------------------------------------------------
(* What the tables say.                                                    *)

RowsOf(m) == {i \in DOMAIN table : table[i].of = m}

\* The row, or the version of the latest time; of equals the first is taken.
Newest(m) ==
    CHOOSE i \in RowsOf(m) : \A j \in RowsOf(m) :
        table[i].at > table[j].at \/ (table[i].at = table[j].at /\ i <= j)

Now(m) == table[Newest(m)]

EventsOf(o) == {i \in DOMAIN log : log[i].op = o}

\* The time an operation is stored with: a retry keeps that of its event.
OperationTime(o) == IF EventsOf(o) = {} THEN op[o].at
                    ELSE log[CHOOSE i \in EventsOf(o) : TRUE].at

\* A memory is as old as its draft, which precedes every request.
NewRow(o) ==
    [of |-> o, at |-> 0, by |-> o, deleted |-> FALSE, expired |-> FALSE,
     hold |-> FALSE]

\* The row of a lifecycle request over the one it read.
Changed(row, o) ==
    [row EXCEPT !.at = OperationTime(o), !.by = o,
                !.deleted = @ \/ op[o].action = "delete",
                !.expired = @ \/ op[o].action = "expire",
                !.hold = (@ \/ op[o].action = "hold") /\ op[o].action # "release_hold"]

EventFor(o) == [op |-> o, of |-> op[o].of, action |-> op[o].action, at |-> op[o].at]

\* Faulty variant: an expiry is let through.
HoldGuardsDelete(m, action) == action = "delete" => ~Now(m).hold

HoldGuard(m, action) == action \in {"delete", "expire"} => ~Now(m).hold

Goes(o, label) == op' = [op EXCEPT ![o].pc = label]

Holding(o) ==
    held' = [held EXCEPT ![op[o].of] =
                (@ \/ op[o].action = "hold") /\ op[o].action # "release_hold"]

---------------------------------------------------------------------------
(* Requests.                                                               *)

RequestOf(o, action, m) ==
    /\ attempts < MaxAttempts
    /\ attempts' = attempts + 1
    /\ op' = [op EXCEPT ![o] = [action |-> action, of |-> m, at |-> attempts + 1,
                                pc |-> "asked", rows |-> 0, events |-> 0]]

Fresh(o) == op[o].pc = "new" /\ \A p \in Requests : p < o => op[p].pc # "new"

\* commit-draft, or a retry of it.
AskCommit(m) ==
    /\ op[m].pc \in {"new", "failed", "done"}
    /\ RequestOf(m, "create", m)
    /\ UNCHANGED <<backend, memoryTables, listed, held>>

\* lifecycle: the request is made, and dated, before it is approved.
AskLifecycle(o, action, m) ==
    /\ Fresh(o) /\ RowsOf(m) # {}
    /\ RequestOf(o, action, m)
    /\ UNCHANGED <<backend, memoryTables, listed, held>>

\* The same operation again, with --operation-id.
RetryLifecycle(o) ==
    /\ op[o].pc = "failed"
    /\ RequestOf(o, op[o].action, op[o].of)
    /\ UNCHANGED <<backend, memoryTables, listed, held>>

\* sweep_shared_memories lists what is expired, but not what is held.
ListExpired ==
    /\ listed = {}
    /\ listed' = {m \in Memories : RowsOf(m) # {} /\ Now(m).expired
                                   /\ ~Now(m).deleted /\ ~Now(m).hold}
    /\ listed' # {}
    /\ UNCHANGED <<backend, attempts, op, memoryTables, held>>

Sweep(o, m) ==
    /\ Fresh(o) /\ m \in listed
    /\ RequestOf(o, "delete", m)
    /\ listed' = listed \ {m}
    /\ UNCHANGED <<backend, memoryTables, held>>

\* The operator refuses, the connection fails or the process dies.
GiveUp(o) ==
    /\ op[o].pc \in {"asked", "loaded", "logged"}
    /\ Goes(o, "failed")
    /\ UNCHANGED <<backend, attempts, memoryTables, listed, held>>

---------------------------------------------------------------------------
(* Postgres: one transaction under the lock of the operation.              *)

\* Faulty variant: the operation's event is not looked for.
AlreadyDoneNever(o) == FALSE

\* existing_operation: it is the same request, so nothing is done again.
AlreadyDone(o) == EventsOf(o) # {}

Transact(o) ==
    /\ backend = "postgres" /\ op[o].pc = "asked"
    /\ IF AlreadyDone(o)
       THEN Goes(o, "done") /\ UNCHANGED <<table, log, held>>
       ELSE IF op[o].action = "create"
       THEN /\ table' = Append(table, NewRow(o)) /\ log' = Append(log, EventFor(o))
            /\ Goes(o, "done") /\ UNCHANGED held
       ELSE IF HoldGuard(op[o].of, op[o].action)
       THEN /\ table' = [table EXCEPT ![Newest(op[o].of)] = Changed(@, o)]
            /\ log' = Append(log, EventFor(o))
            /\ Goes(o, "done") /\ Holding(o)
       ELSE Goes(o, "failed") /\ UNCHANGED <<table, log, held>>
    /\ UNCHANGED <<backend, attempts, listed>>

---------------------------------------------------------------------------
(* Iceberg: two tables, two appends.                                       *)

LoadTables(o) ==
    /\ backend = "iceberg" /\ op[o].pc = "asked"
    /\ op' = [op EXCEPT
           ![o].pc = IF op[o].action = "create" \/ HoldGuard(op[o].of, op[o].action)
                     THEN "loaded" ELSE "failed",
           ![o].rows = Len(table), ![o].events = Len(log)]
    /\ UNCHANGED <<backend, attempts, memoryTables, listed, held>>

\* Faulty variant: the state first and the event second.
LogEventAfter(o) ==
    /\ op[o].pc = "loaded"
    /\ UNCHANGED log
    /\ Goes(o, "logged")
    /\ UNCHANGED <<backend, attempts, table, listed, held>>

LogEvent(o) ==
    /\ op[o].pc = "loaded"
    /\ IF EventsOf(o) # {} THEN Goes(o, "logged") /\ UNCHANGED log
       ELSE IF Len(log) = op[o].events
       THEN log' = Append(log, EventFor(o)) /\ Goes(o, "logged")
       ELSE Goes(o, "failed") /\ UNCHANGED log
    /\ UNCHANGED <<backend, attempts, table, listed, held>>

\* The version of this operation is there already.
Versioned(o) == \E i \in RowsOf(op[o].of) : table[i].by = o

AppendVersion(o) ==
    /\ op[o].pc = "logged"
    /\ IF Versioned(o) THEN Goes(o, "done") /\ Holding(o) /\ UNCHANGED table
       ELSE IF Len(table) = op[o].rows
       THEN /\ table' = Append(table, IF op[o].action = "create" THEN NewRow(o)
                                      ELSE Changed(Now(op[o].of), o))
            /\ Goes(o, "done") /\ Holding(o)
       ELSE Goes(o, "failed") /\ UNCHANGED <<table, held>>
    /\ UNCHANGED <<backend, attempts, log, listed>>

---------------------------------------------------------------------------
SharedMemoryNext ==
    \/ \E m \in Memories : AskCommit(m)
    \/ \E o \in Requests : RetryLifecycle(o)
    \/ \E o \in Requests, m \in Memories :
          Sweep(o, m) \/ \E action \in Actions : AskLifecycle(o, action, m)
    \/ ListExpired
    \/ \E o \in Operations :
          GiveUp(o) \/ Transact(o) \/ LoadTables(o) \/ LogEvent(o) \/ AppendVersion(o)

SharedMemorySpec == SharedMemoryInit /\ [][SharedMemoryNext]_sharedMemoryVars

---------------------------------------------------------------------------
(* loro memory reconcile: where the rows and the events of Postgres differ. *)

LoggedOf(m, action) == \E i \in DOMAIN log : log[i].of = m /\ log[i].action = action

OrphanEvents == {i \in DOMAIN log : RowsOf(log[i].of) = {}}

Uncreated == {m \in Memories : RowsOf(m) # {} /\ ~LoggedOf(m, "create")}

LifecycleMismatches ==
    {i \in DOMAIN table :
        \/ table[i].deleted /\ ~LoggedOf(table[i].of, "delete")
        \/ table[i].hold /\ ~LoggedOf(table[i].of, "hold")}

Reconciled == OrphanEvents = {} /\ Uncreated = {} /\ LifecycleMismatches = {}

(* No state without its event, and nothing stored twice: every row says    *)
(* which logged operation made it, and no operation, however often it was  *)
(* interrupted and retried, has two events or made two rows.  On Postgres, *)
(* where both are one transaction, reconcile never finds a difference.     *)
ProvenanceFirst ==
    /\ backend = "postgres" => Reconciled
    /\ \A i \in DOMAIN table : EventsOf(table[i].by) # {}
    /\ \A o \in Operations :
           /\ Cardinality(EventsOf(o)) <= 1
           /\ Cardinality({i \in DOMAIN table : table[i].by = o}) <= 1

HeldStays(m) ==
    held[m] /\ held'[m] =>
        /\ Now(m)'.deleted = Now(m).deleted
        /\ Now(m)'.expired = Now(m).expired

(* A memory whose hold was applied and not released is neither deleted nor *)
(* expired, by an operator or by a sweep that listed it before the hold.   *)
(* docs/memory.md says that a legal hold blocks delete and expire until a  *)
(* separate release action.                                                *)
HoldBlocks == [][\A m \in Memories : HeldStays(m)]_sharedMemoryVars

(* The same of Postgres, where the guard is part of the transaction.       *)
PostgresHoldBlocks ==
    [][backend = "postgres" => \A m \in Memories : HeldStays(m)]_sharedMemoryVars

SharedMemoryTypeOK ==
    /\ backend \in Backends /\ attempts \in 0..MaxAttempts
    /\ \A o \in Operations : op[o].pc \in {"new", "asked", "loaded", "logged", "done",
                                           "failed"}
    /\ listed \subseteq Memories /\ held \in [Memories -> BOOLEAN]
=============================================================================
