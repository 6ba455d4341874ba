---------------------------- MODULE AuditPipeline ----------------------------
(***************************************************************************)
(* loro/audit with the HTTP sink: threads and processes write events, the  *)
(* sink posts each to the collector and retries, what it cannot deliver    *)
(* goes to a bounded buffer file, and a flush posts the buffer in batches  *)
(* while it holds the buffer's lock.  The collector is loro/audit/         *)
(* collector.py.  Requests may be lost or repeated, and one whose client   *)
(* gave up may still be accepted later.                                    *)
(*                                                                         *)
(* An event is its number: what it says is hashed and compared, never      *)
(* changed.  SQLite runs accept in one transaction, and flock gives up a   *)
(* lock with the process that holds it.                                    *)
(***************************************************************************)
EXTENDS Integers, Sequences, FiniteSets, SequencesExt

CONSTANTS
    Writers,      \* threads and processes that write events
    Flushers,     \* threads and processes that flush the buffer
    NoWorker,
    Capacity,     \* max_buffer_events
    BatchSize,    \* http_batch_size
    MaxRetries,   \* max_retries
    Rejected,     \* events the collector finds invalid
    MaxEvents,    \* bound on the events written
    MaxFlushes,   \* bound on the flushes
    MaxCrashes    \* bound on the crashes

ASSUME PipelineAssumption ==
    /\ NoWorker \notin Writers \union Flushers
    /\ Capacity \in Nat \ {0} /\ BatchSize \in Nat \ {0} /\ MaxRetries \in Nat
    /\ MaxEvents \in Nat /\ MaxFlushes \in Nat /\ MaxCrashes \in Nat
    /\ Rejected \subseteq 1..MaxEvents

Events == 1..MaxEvents

Workers == Writers \union Flushers

VARIABLES
    ledger,     \* audit_events of the collector, in sequence
    net,        \* the batches sent, which the collector may process at any time
    buffer,     \* the lines of the buffer file
    evicted,    \* evicted_events of its stats file
    lock,       \* who holds the buffer's lock
    auditPc,
    job,        \* "write" or "flush"
    batch,      \* the events of the current request
    attempt,    \* of the current request
    rest,       \* events a flush has still to deliver
    delta,      \* evictions the stats file does not count yet
    written,    \* events created so far
    flushes,
    crashes,
    appended,   \* history: every event put in the buffer, in order
    gone,       \* history: the events evicted
    returned    \* history: the events whose write returned

collector == <<ledger, net>>
file      == <<buffer, evicted, lock>>
local     == <<auditPc, job, batch, attempt, rest, delta>>
bounds    == <<written, flushes, crashes>>
history   == <<appended, gone, returned>>
auditVars == <<collector, file, local, bounds, history>>

AuditInit ==
    /\ ledger = <<>>
    /\ net = {}
    /\ buffer = <<>>
    /\ evicted = 0
    /\ lock = NoWorker
    /\ auditPc = [w \in Workers |-> "idle"]
    /\ job = [w \in Workers |-> "write"]
    /\ batch = [w \in Workers |-> <<>>]
    /\ attempt = [w \in Workers |-> 0]
    /\ rest = [w \in Workers |-> <<>>]
    /\ delta = [w \in Workers |-> 0]
    /\ written = 0 /\ flushes = 0 /\ crashes = 0
    /\ appended = <<>> /\ gone = {} /\ returned = {}

AuditGoto(w, label) == auditPc' = [auditPc EXCEPT ![w] = label]

\* The worker's call is over, and its local state with it.
Leave(w) ==
    /\ AuditGoto(w, "idle")
    /\ job' = [job EXCEPT ![w] = "write"]
    /\ batch' = [batch EXCEPT ![w] = <<>>]
    /\ attempt' = [attempt EXCEPT ![w] = 0]
    /\ rest' = [rest EXCEPT ![w] = <<>>]
    /\ delta' = [delta EXCEPT ![w] = 0]

-----------------------------------------------------------------------------
(* AuditLogger.write and flush start. *)

Write(w) ==
    /\ w \in Writers
    /\ auditPc[w] = "idle"
    /\ written < MaxEvents
    /\ written' = written + 1
    /\ batch' = [batch EXCEPT ![w] = <<written + 1>>]
    /\ AuditGoto(w, "post")
    /\ UNCHANGED <<collector, file, job, attempt, rest, delta, flushes, crashes, history>>

Flush(w) ==
    /\ w \in Flushers
    /\ auditPc[w] = "idle"
    /\ flushes < MaxFlushes
    /\ flushes' = flushes + 1
    /\ job' = [job EXCEPT ![w] = "flush"]
    /\ AuditGoto(w, "lock")
    /\ UNCHANGED <<collector, file, batch, attempt, rest, delta, written, crashes, history>>

-----------------------------------------------------------------------------
(* HttpAuditSink._post. *)

Send(w) ==
    /\ auditPc[w] = "post"
    /\ net' = net \union {batch[w]}
    /\ AuditGoto(w, "wait")
    /\ UNCHANGED <<ledger, file, job, batch, attempt, rest, delta, bounds, history>>

\* The answer is an error, or none comes in time: retry, or give up.  A write
\* then buffers its event; a flush stops at the first batch that fails.
NoAnswer(w) ==
    /\ auditPc[w] = "wait"
    /\ \/ /\ attempt[w] < MaxRetries
          /\ attempt' = [attempt EXCEPT ![w] = @ + 1]
          /\ AuditGoto(w, "post")
       \/ /\ attempt[w] = MaxRetries
          /\ AuditGoto(w, IF job[w] = "write" THEN "lock" ELSE "rewrite")
          /\ UNCHANGED attempt
    /\ UNCHANGED <<collector, file, job, batch, rest, delta, bounds, history>>

\* The write returns "delivered"; the flush goes on with what is left.
PostAnswered(w) ==
    /\ auditPc[w] = "answered"
    /\ IF job[w] = "write"
       THEN /\ returned' = returned \union ToSet(batch[w])
            /\ Leave(w)
       ELSE /\ rest' = [rest EXCEPT ![w] = SubSeq(@, Len(batch[w]) + 1, Len(@))]
            /\ AuditGoto(w, "batch")
            /\ UNCHANGED <<returned, job, batch, attempt, delta>>
    /\ UNCHANGED <<collector, file, bounds, appended, gone>>

-----------------------------------------------------------------------------
(* AuditCollector.accept. *)

Valid(events) == ToSet(events) \intersect Rejected = {}

\* Faulty variant: events are not looked up by their identifier.
FreshAll(events) == events

\* The events the ledger does not hold, in their order.
Fresh(events) ==
    LET fresh   == {i \in DOMAIN events : events[i] \notin ToSet(ledger)}
        before(i) == {j \in fresh : j < i} IN
    [n \in 1..Cardinality(fresh) |->
        events[CHOOSE i \in fresh : Cardinality(before(i)) = n - 1]]

\* A batch that was sent is processed, by its first attempt or a late one, and the
\* answer may reach a client that waits for it.  Invalid events leave the database
\* as it was, and no client gets an answer it could take for a success.
AcceptBatch(events) ==
    /\ events \in net
    /\ ledger' = IF Valid(events) THEN ledger \o Fresh(events) ELSE ledger
    /\ \/ UNCHANGED auditPc
       \/ \E w \in Workers :
             /\ Valid(events)
             /\ auditPc[w] = "wait" /\ batch[w] = events
             /\ AuditGoto(w, "answered")
    /\ UNCHANGED <<net, file, job, batch, attempt, rest, delta, bounds, history>>

-----------------------------------------------------------------------------
(* AuditBuffer. *)

\* Faulty variant: reading and truncating take no lock.
FreeAlways(w) == TRUE

Free(w) == lock = NoWorker

Lock(w) ==
    /\ auditPc[w] = "lock"
    /\ Free(w)
    /\ lock' = w
    /\ AuditGoto(w, IF job[w] = "write" THEN "append" ELSE "load")
    /\ UNCHANGED <<collector, buffer, evicted, job, batch, attempt, rest, delta, bounds,
                   history>>

\* Faulty variant: a full buffer gives up its newest event.
RotatedNewest(lines, e) ==
    IF Len(lines) < Capacity THEN Append(lines, e)
    ELSE Append(SubSeq(lines, 1, Capacity - 1), e)

\* Faulty variant: the buffer rotates one event too late.
RotatedLate(lines, e) ==
    IF Len(lines) <= Capacity THEN Append(lines, e) ELSE Append(Tail(lines), e)

\* The newest max_buffer_events lines, with the incoming one.
Rotated(lines, e) ==
    IF Len(lines) < Capacity THEN Append(lines, e)
    ELSE Append(SubSeq(lines, Len(lines) + 2 - Capacity, Len(lines)), e)

Put(w) ==
    /\ auditPc[w] = "append"
    /\ LET event == batch[w][1]
           lost == ToSet(buffer) \ ToSet(Rotated(buffer, event))
       IN /\ buffer' = Rotated(buffer, event)
          /\ delta' = [delta EXCEPT ![w] = Cardinality(lost)]
          /\ appended' = Append(appended, event)
          /\ gone' = gone \union lost
    /\ AuditGoto(w, "stats")
    /\ UNCHANGED <<collector, evicted, lock, job, batch, attempt, rest, bounds, returned>>

\* Faulty variant: the stats file keeps the last count only.
CountedLast(w) == delta[w]

Counted(w) == evicted + delta[w]

\* The stats file is written and the lock released; a write returns "buffered",
\* or raises once its event is safe.
Stats(w) ==
    /\ auditPc[w] = "stats"
    /\ evicted' = Counted(w)
    /\ lock' = NoWorker
    /\ returned' = IF job[w] = "write" THEN returned \union ToSet(batch[w]) ELSE returned
    /\ Leave(w)
    /\ UNCHANGED <<collector, buffer, bounds, appended, gone>>

Load(w) ==
    /\ auditPc[w] = "load"
    /\ rest' = [rest EXCEPT ![w] = buffer]
    /\ AuditGoto(w, "batch")
    /\ UNCHANGED <<collector, file, job, batch, attempt, delta, bounds, history>>

NextBatch(w) ==
    /\ auditPc[w] = "batch"
    /\ attempt' = [attempt EXCEPT ![w] = 0]
    /\ IF rest[w] = <<>>
       THEN AuditGoto(w, "rewrite") /\ UNCHANGED batch
       ELSE /\ batch' = [batch EXCEPT ![w] =
                  SubSeq(rest[w], 1, IF Len(rest[w]) < BatchSize THEN Len(rest[w])
                                                                  ELSE BatchSize)]
            /\ AuditGoto(w, "post")
    /\ UNCHANGED <<collector, file, job, rest, delta, bounds, history>>

\* Faulty variant: the events of the failed batch are thought delivered.
RemainderSkips(w) == SubSeq(rest[w], Len(batch[w]) + 1, Len(rest[w]))

\* What drain writes back: the first failed event and all later ones.
Remainder(w) == rest[w]

Rewrite(w) ==
    /\ auditPc[w] = "rewrite"
    /\ buffer' = Remainder(w)
    /\ AuditGoto(w, "stats")
    /\ UNCHANGED <<collector, evicted, lock, job, batch, attempt, rest, delta, bounds,
                   history>>

-----------------------------------------------------------------------------
\* Faulty variant: the lock outlives its holder.
ReleasedNever(w) == lock

\* flock is given up with its holder.
Released(w) == IF lock = w THEN NoWorker ELSE lock

WorkerCrashes(w) ==
    /\ auditPc[w] # "idle"
    /\ crashes < MaxCrashes
    /\ crashes' = crashes + 1
    /\ lock' = Released(w)
    /\ Leave(w)
    /\ UNCHANGED <<collector, buffer, evicted, written, flushes, history>>

Step(w) ==
    \/ Send(w) \/ NoAnswer(w) \/ PostAnswered(w)
    \/ Lock(w) \/ Put(w) \/ Stats(w)
    \/ Load(w) \/ NextBatch(w) \/ Rewrite(w)

AuditNext ==
    \/ \E w \in Workers : Write(w) \/ Flush(w) \/ Step(w) \/ WorkerCrashes(w)
    \/ \E events \in net : AcceptBatch(events)

AuditSpec == AuditInit /\ [][AuditNext]_auditVars

\* A started call goes on: the client's timeouts fire, whatever the collector does.
AuditFairSpec == AuditSpec /\ \A w \in Workers : WF_auditVars(Step(w))

-----------------------------------------------------------------------------
(* Properties. *)

PCs == {"idle", "post", "wait", "answered", "lock", "append", "stats", "load", "batch",
        "rewrite"}

\* Every variable stays in its set, and the buffer within its capacity.
AuditTypeOK ==
    /\ ledger \in Seq(Events) /\ appended \in Seq(Events) /\ buffer \in Seq(Events)
    /\ Len(buffer) <= Capacity
    /\ \A events \in net : events \in Seq(Events)
    /\ evicted \in Nat
    /\ lock \in Workers \union {NoWorker}
    /\ auditPc \in [Workers -> PCs]
    /\ job \in [Workers -> {"write", "flush"}]
    /\ batch \in [Workers -> Seq(Events)] /\ rest \in [Workers -> Seq(Events)]
    /\ attempt \in [Workers -> 0..MaxRetries]
    /\ delta \in [Workers -> Nat]
    /\ written \in 0..MaxEvents /\ flushes \in 0..MaxFlushes /\ crashes \in 0..MaxCrashes
    /\ gone \subseteq Events /\ returned \subseteq Events

\* "Delivery is at least once": an event whose write returned is with the collector,
\* or in the buffer, or was evicted, whatever flushes, crashes and late answers
\* came in between ("a concurrent writer cannot lose an event in the gap").
NothingLost ==
    \A e \in returned : e \in ToSet(ledger) \union ToSet(buffer) \union gone

\* The collector deduplicates: retries, repeated flushes and requests accepted after
\* their client gave up never record an event twice.
RecordedOnce == IsInjective(ledger)

\* "Flush preserves order and stops at the first failed event": a flush posts an
\* event only when every event buffered before it is recorded or evicted.
FlushInOrder ==
    \A w \in Workers :
        job[w] = "flush" /\ auditPc[w] \in {"post", "wait"} =>
            \A i, j \in DOMAIN appended :
                appended[j] \in ToSet(batch[w]) /\ i < j =>
                    appended[i] \in ToSet(ledger) \union gone \union ToSet(batch[w])

\* "The newest evidence is never the event that gets dropped": what the buffer holds
\* is always the latest events put in it, in their order.
BufferKeepsNewest == IsSuffix(buffer, appended)

\* "Eviction is counted": as long as no process died between the two writes of
\* append, the stats file counts every event that was evicted.
EvictionsCounted ==
    crashes = 0 /\ (\A w \in Workers : auditPc[w] # "stats") => evicted = Cardinality(gone)

\* What the buffer and the collector hold between them: every event that was handed
\* over, recorded once and in order, and of those that had to go the oldest, counted.
AuditKept ==
    /\ AuditTypeOK
    /\ NothingLost /\ RecordedOnce /\ FlushInOrder /\ BufferKeepsNewest /\ EvictionsCounted

\* A write or a flush returns, although others hold the lock, crash, and the
\* collector answers nobody.
CallsReturn == \A w \in Workers : auditPc[w] # "idle" ~> auditPc[w] = "idle"

Ledger == INSTANCE AuditLedger WITH
    recorded <- ledger, kept <- ToSet(buffer), dropped <- gone, promised <- returned

\* The pipeline keeps the promise of AuditLedger.
ImplementsLedger == Ledger!Spec
=============================================================================
