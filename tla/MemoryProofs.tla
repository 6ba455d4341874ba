---------------------------- MODULE MemoryProofs -----------------------------
(***************************************************************************)
(* Theorems about shared memory, its upkeep and the review of proposals.   *)
(*                                                                         *)
(* SharedMemory over Postgres, where an operation is one transaction: for  *)
(* any memories and requests, retried in any order, a memory has one row,  *)
(* made by the operation of its draft, and a row that is held is neither   *)
(* deleted nor expired.  Over either back end, where requests fail between *)
(* two appends and are retried: no state without its event, and nothing    *)
(* stored twice.  The inductive invariant relates rows, events and what    *)
(* the operations asked for.                                               *)
(*                                                                         *)
(* MemoryUpkeep: for any processes and rows, and however migrations,       *)
(* backups and restores interleave and die, the schema is what the         *)
(* migration table says unless a restore has put that in doubt.  The       *)
(* inductive invariant says it of every dump taken without doubt, too, and *)
(* of every restore at work that there is doubt.                           *)
(*                                                                         *)
(* MemoryReview: for any reviewers and proposals, and however their steps  *)
(* and deaths interleave, the queue holds every proposal once and says     *)
(* "accepted" only of what was written.  The inductive invariant adds what *)
(* the queue's lock protects: whoever is about to replace the queue holds  *)
(* the lock and its copy is the queue.                                     *)
(***************************************************************************)
EXTENDS MemoryUpkeep, MemoryReview, SequenceTheorems, FiniteSetTheorems,
        WellFoundedInduction, TLAPS

\* SharedMemory.

OpType ==
    [action : Actions \cup {"create", "none"}, of : Memories \cup {"none"}, at : Nat,
     pc : {"new", "asked", "failed", "done"}, rows : Nat, events : Nat]

RowType ==
    [of : Memories, at : Nat, by : Operations, deleted : BOOLEAN, expired : BOOLEAN,
     hold : BOOLEAN]

EventType ==
    [op : Operations, of : Memories, action : Actions \cup {"create"}, at : Nat]

SharedType ==
    /\ attempts \in Nat
    /\ op \in [Operations -> OpType]
    /\ table \in Seq(RowType)
    /\ log \in Seq(EventType)
    /\ listed \subseteq Memories
    /\ held \in [Memories -> BOOLEAN]

\* A draft makes its own memory; a lifecycle request is about one that is there.
RequestInv ==
    \A o \in Operations : op[o].pc # "new" =>
        /\ op[o].of \in Memories
        /\ o \in Memories => op[o].action = "create" /\ op[o].of = o
        /\ o \notin Memories => op[o].action \in Actions /\ RowsOf(op[o].of) # {}

OneRowEach == \A i, j \in DOMAIN table : table[i].of = table[j].of => i = j

RowsWereLogged == \A i \in DOMAIN table : EventsOf(table[i].of) # {}

HoldsAreStored == \A m \in Memories : held[m] => \E i \in RowsOf(m) : table[i].hold

ListedAreStored == \A m \in listed : RowsOf(m) # {}

PostgresInv ==
    /\ SharedType /\ RequestInv /\ OneRowEach /\ RowsWereLogged /\ HoldsAreStored
    /\ ListedAreStored

SharedInv == backend = "postgres" => PostgresInv
-----------------------------------------------------------------------------
LEMMA InitSharedInv == SharedMemoryInit => SharedInv
  BY SharedMemoryAssumption DEF SharedMemoryInit, SharedInv, PostgresInv, SharedType, OpType,
     RequestInv, OneRowEach, RowsWereLogged, HoldsAreStored, ListedAreStored, NoRequestYet

\* The only row is the newest one.
LEMMA NewestRow ==
    ASSUME OneRowEach, SharedType, NEW m \in Memories, NEW i \in RowsOf(m)
    PROVE  Newest(m) = i /\ Now(m) = table[i]
<1>1. RowsOf(m) = {i} /\ i \in Int
  BY DEF RowsOf, OneRowEach, SharedType
<1> QED
  BY <1>1 DEF Newest, Now

\* Steps that only make, retry, give up or list requests.
LEMMA RequestsPreserved ==
    ASSUME PostgresInv, UNCHANGED <<table, log, held>>, attempts' \in Nat,
           op' \in [Operations -> OpType], RequestInv', listed' \subseteq Memories,
           \A m \in listed' : RowsOf(m) # {}
    PROVE  PostgresInv'
<1>1. \A m : RowsOf(m)' = RowsOf(m)
  BY DEF RowsOf
<1>2. \A o : EventsOf(o)' = EventsOf(o)
  BY DEF EventsOf
<1>3. SharedType' /\ OneRowEach'
  BY DEF PostgresInv, SharedType, OneRowEach
<1>4. RowsWereLogged' /\ HoldsAreStored' /\ ListedAreStored'
  BY <1>1, <1>2 DEF PostgresInv, RowsWereLogged, HoldsAreStored, ListedAreStored
<1> QED
  BY <1>3, <1>4 DEF PostgresInv

LEMMA AskedPreserved ==
    ASSUME PostgresInv, NEW o \in Operations, NEW action \in Actions \cup {"create"},
           NEW m \in Memories, RequestOf(o, action, m),
           o \in Memories => action = "create" /\ m = o,
           o \notin Memories => action \in Actions /\ RowsOf(m) # {},
           UNCHANGED <<table, log, held>>, listed' \subseteq listed
    PROVE  PostgresInv'
<1>1. op' \in [Operations -> OpType] /\ attempts' \in Nat
  BY DEF RequestOf, PostgresInv, SharedType, OpType
<1>2. /\ op'[o].of = m /\ op'[o].action = action
      /\ \A p \in Operations \ {o} : op'[p] = op[p]
  BY DEF RequestOf, PostgresInv, SharedType
<1>3. RequestInv'
  BY <1>2 DEF PostgresInv, RequestInv, RowsOf
<1>4. listed' \subseteq Memories /\ \A k \in listed' : RowsOf(k) # {}
  BY DEF PostgresInv, SharedType, ListedAreStored
<1> QED
  BY <1>1, <1>3, <1>4, RequestsPreserved

LEMMA GoesPreserved ==
    ASSUME PostgresInv, NEW o \in Operations, op[o].pc # "new", NEW label \in {"failed", "done"},
           Goes(o, label)
    PROVE  /\ op' \in [Operations -> OpType]
           /\ \A p \in Operations : /\ op'[p].pc # "new" => op[p].pc # "new"
                                    /\ op'[p].of = op[p].of /\ op'[p].action = op[p].action
<1>1. op[o] \in OpType /\ op' = [op EXCEPT ![o] = [op[o] EXCEPT !.pc = label]]
  BY DEF Goes, PostgresInv, SharedType
<1>2. /\ [op[o] EXCEPT !.pc = label] \in OpType
      /\ [op[o] EXCEPT !.pc = label].of = op[o].of
      /\ [op[o] EXCEPT !.pc = label].action = op[o].action
  BY <1>1 DEF OpType
<1> QED
  BY <1>1, <1>2 DEF PostgresInv, SharedType
-----------------------------------------------------------------------------
\* What a transaction does to the tables: nothing, a first row, or a row replaced.
LEMMA CommitPreserved ==
    ASSUME PostgresInv, NEW o \in Operations, op[o].pc = "asked", ~AlreadyDone(o),
           op[o].action = "create",
           table' = Append(table, NewRow(o)), log' = Append(log, EventFor(o)),
           Goes(o, "done"), UNCHANGED <<attempts, listed, held>>
    PROVE  PostgresInv'
<1>1. o \in Memories /\ op[o].of = o /\ op[o].at \in Nat /\ table \in Seq(RowType)
      /\ log \in Seq(EventType)
  BY DEF PostgresInv, RequestInv, SharedType, Actions, OpType
<1>2. NewRow(o) \in RowType /\ NewRow(o).of = o
  BY <1>1 DEF NewRow, RowType, Operations
<1>3. EventFor(o) \in EventType /\ EventFor(o).op = o
  BY <1>1 DEF EventFor, EventType
<1>4. /\ table' \in Seq(RowType) /\ Len(table') = Len(table) + 1
      /\ DOMAIN table' = 1..Len(table)+1 /\ DOMAIN table = 1..Len(table)
      /\ \A i \in DOMAIN table : table'[i] = table[i]
      /\ table'[Len(table) + 1] = NewRow(o)
  BY <1>1, <1>2, AppendProperties
<1>5. /\ log' \in Seq(EventType)
      /\ DOMAIN log' = 1..Len(log)+1 /\ DOMAIN log = 1..Len(log)
      /\ \A i \in DOMAIN log : log'[i] = log[i]
      /\ log'[Len(log) + 1] = EventFor(o)
  BY <1>1, <1>3, AppendProperties
<1>6. \A m : RowsOf(m) \subseteq RowsOf(m)'
  BY <1>4 DEF RowsOf
<1>7. SharedType'
  BY <1>4, <1>5, GoesPreserved DEF PostgresInv, SharedType
<1>8. RequestInv'
  BY <1>6, GoesPreserved DEF PostgresInv, RequestInv
<1>9. OneRowEach'
  <2>1. \A i \in DOMAIN table : table[i].of # o
    BY DEF AlreadyDone, PostgresInv, RowsWereLogged
  <2> QED
    BY <1>2, <1>4, <2>1 DEF PostgresInv, OneRowEach
<1>10. RowsWereLogged'
  <2>1. ASSUME NEW i \in DOMAIN table PROVE \E k \in DOMAIN log' : log'[k].op = table'[i].of
    <3>1. PICK k \in DOMAIN log : log[k].op = table[i].of
      BY <2>1 DEF PostgresInv, RowsWereLogged, EventsOf
    <3> QED
      BY <1>4, <1>5, <2>1, <3>1
  <2>2. \E k \in DOMAIN log' : log'[k].op = table'[Len(table) + 1].of
    <3>1. Len(log) + 1 \in DOMAIN log'
      BY <1>1, <1>5, LenProperties
    <3> QED
      BY <1>2, <1>3, <1>4, <1>5, <3>1
  <2>3. \A i \in DOMAIN table' : \E k \in DOMAIN log' : log'[k].op = table'[i].of
    BY <1>4, <2>1, <2>2
  <2> QED
    BY <2>3 DEF RowsWereLogged, EventsOf
<1>11. HoldsAreStored' /\ ListedAreStored'
  BY <1>4, <1>6 DEF PostgresInv, HoldsAreStored, ListedAreStored, RowsOf
<1> QED
  BY <1>7, <1>8, <1>9, <1>10, <1>11 DEF PostgresInv

\* The row a lifecycle request changes, and how.
LEMMA ChangedRow ==
    ASSUME PostgresInv, NEW o \in Operations, op[o].pc = "asked", ~AlreadyDone(o),
           op[o].action # "create"
    PROVE  /\ op[o].of \in Memories /\ op[o].action \in Actions
           /\ \E i \in RowsOf(op[o].of) :
                /\ Newest(op[o].of) = i /\ Now(op[o].of) = table[i]
                /\ Changed(table[i], o) \in RowType
                /\ Changed(table[i], o).of = op[o].of
                /\ Changed(table[i], o).deleted
                     = (table[i].deleted \/ op[o].action = "delete")
                /\ Changed(table[i], o).expired
                     = (table[i].expired \/ op[o].action = "expire")
                /\ Changed(table[i], o).hold
                     = ((table[i].hold \/ op[o].action = "hold")
                        /\ op[o].action # "release_hold")
<1>1. /\ op[o].of \in Memories /\ op[o].action \in Actions /\ RowsOf(op[o].of) # {}
  BY DEF PostgresInv, RequestInv
<1>2. PICK i \in RowsOf(op[o].of) : TRUE
  BY <1>1
<1>3. Newest(op[o].of) = i /\ Now(op[o].of) = table[i]
  BY <1>1, NewestRow DEF PostgresInv
<1>4. table[i] \in RowType /\ table[i].of = op[o].of /\ op[o].at \in Nat
  BY <1>2 DEF RowsOf, PostgresInv, SharedType, OpType
<1>5. OperationTime(o) = op[o].at
  BY DEF OperationTime, AlreadyDone
<1>6. /\ Changed(table[i], o) \in RowType
      /\ Changed(table[i], o).of = table[i].of
      /\ Changed(table[i], o).deleted = (table[i].deleted \/ op[o].action = "delete")
      /\ Changed(table[i], o).expired = (table[i].expired \/ op[o].action = "expire")
      /\ Changed(table[i], o).hold
           = ((table[i].hold \/ op[o].action = "hold") /\ op[o].action # "release_hold")
  BY <1>4, <1>5 DEF Changed, RowType
<1> QED
  BY <1>1, <1>3, <1>4, <1>6

LEMMA ChangePreserved ==
    ASSUME PostgresInv, NEW o \in Operations, op[o].pc = "asked", ~AlreadyDone(o),
           op[o].action # "create",
           table' = [table EXCEPT ![Newest(op[o].of)] = Changed(@, o)],
           log' = Append(log, EventFor(o)), Goes(o, "done"), Holding(o),
           UNCHANGED <<attempts, listed>>
    PROVE  PostgresInv'
<1>1. /\ op[o].of \in Memories /\ op[o].action \in Actions /\ op[o].at \in Nat
      /\ table \in Seq(RowType) /\ log \in Seq(EventType) /\ held \in [Memories -> BOOLEAN]
  BY ChangedRow DEF PostgresInv, SharedType, OpType
<1>2. PICK i \in DOMAIN table :
        /\ table[i].of = op[o].of
        /\ table' = [table EXCEPT ![i] = Changed(table[i], o)]
        /\ Changed(table[i], o) \in RowType
        /\ Changed(table[i], o).of = op[o].of
        /\ Changed(table[i], o).hold
             = ((table[i].hold \/ op[o].action = "hold") /\ op[o].action # "release_hold")
  BY ChangedRow DEF RowsOf
<1>3. EventFor(o) \in EventType
  BY <1>1 DEF EventFor, EventType
<1>4. /\ table' \in Seq(RowType) /\ DOMAIN table' = DOMAIN table
      /\ \A j \in (DOMAIN table) \ {i} : table'[j] = table[j]
      /\ table'[i] = Changed(table[i], o)
  <2> DEFINE row == Changed(table[i], o)
  <2>1. table' = [table EXCEPT ![i] = row] /\ row \in RowType /\ i \in DOMAIN table
    BY <1>2
  <2> HIDE DEF row
  <2>2. table' \in Seq(RowType)
    <3>1. i \in 1..Len(table)
      BY <1>1, <2>1, LenProperties
    <3>2. [table EXCEPT ![i] = row] \in Seq(RowType)
      BY <1>1, <2>1, <3>1, ExceptSeq, Zenon
    <3> QED
      BY <2>1, <3>2
  <2>3. /\ DOMAIN table' = DOMAIN table
        /\ \A j \in (DOMAIN table) \ {i} : table'[j] = table[j]
        /\ table'[i] = row
    BY <2>1
  <2> QED
    BY <2>2, <2>3 DEF row
<1>5. /\ log' \in Seq(EventType)
      /\ DOMAIN log' = 1..Len(log)+1 /\ DOMAIN log = 1..Len(log)
      /\ \A k \in DOMAIN log : log'[k] = log[k]
  BY <1>1, <1>3, AppendProperties
<1>6. \A j \in DOMAIN table : table'[j].of = table[j].of
  BY <1>2, <1>4
<1>7. \A m : RowsOf(m)' = RowsOf(m)
  BY <1>4, <1>6 DEF RowsOf
<1>8. held' = [held EXCEPT ![op[o].of] =
                  (held[op[o].of] \/ op[o].action = "hold") /\ op[o].action # "release_hold"]
  BY DEF Holding
<1>9. SharedType'
  BY <1>1, <1>4, <1>5, <1>8, GoesPreserved DEF PostgresInv, SharedType
<1>10. RequestInv'
  BY <1>6, <1>4, GoesPreserved DEF PostgresInv, RequestInv, RowsOf
<1>11. OneRowEach'
  BY <1>4, <1>6 DEF PostgresInv, OneRowEach
<1>12. RowsWereLogged'
  <2>1. ASSUME NEW j \in DOMAIN table PROVE \E k \in DOMAIN log' : log'[k].op = table'[j].of
    <3>1. PICK k \in DOMAIN log : log[k].op = table[j].of
      BY <2>1 DEF PostgresInv, RowsWereLogged, EventsOf
    <3> QED
      BY <1>5, <1>6, <2>1, <3>1
  <2> QED
    BY <1>4, <2>1 DEF RowsWereLogged, EventsOf
<1>13. HoldsAreStored'
  <2>1. ASSUME NEW m \in Memories, held'[m] PROVE \E j \in RowsOf(m) : table'[j].hold
    <3>1. CASE m = op[o].of
      <4>1. i \in RowsOf(m)
        BY <1>2, <3>1 DEF RowsOf
      <4>2. (held[m] \/ op[o].action = "hold") /\ op[o].action # "release_hold"
        BY <1>1, <1>8, <2>1, <3>1
      <4>3. held[m] => table[i].hold
        BY <1>2, <3>1 DEF PostgresInv, HoldsAreStored, OneRowEach, RowsOf
      <4> QED
        BY <1>2, <1>4, <4>1, <4>2, <4>3
    <3>2. CASE m # op[o].of
      <4>1. held[m]
        BY <1>1, <1>8, <2>1, <3>2
      <4>2. PICK j \in RowsOf(m) : table[j].hold
        BY <4>1 DEF PostgresInv, HoldsAreStored
      <4> QED
        BY <1>2, <1>4, <3>2, <4>2 DEF RowsOf
    <3> QED
      BY <3>1, <3>2
  <2> QED
    BY <1>7, <2>1 DEF HoldsAreStored
<1>14. ListedAreStored'
  BY <1>7 DEF PostgresInv, ListedAreStored
<1> QED
  BY <1>9, <1>10, <1>11, <1>12, <1>13, <1>14 DEF PostgresInv

LEMMA TransactPreserved ==
    ASSUME PostgresInv, NEW o \in Operations, Transact(o)
    PROVE  PostgresInv'
<1>1. op[o].pc = "asked" /\ UNCHANGED <<attempts, listed>>
  BY DEF Transact
<1>2. ASSUME NEW label \in {"failed", "done"}, Goes(o, label), UNCHANGED <<table, log, held>>
      PROVE  PostgresInv'
  <2>1. op' \in [Operations -> OpType] /\ RequestInv'
    BY <1>1, <1>2, GoesPreserved DEF PostgresInv, RequestInv, RowsOf
  <2> QED
    BY <1>1, <1>2, <2>1, RequestsPreserved DEF PostgresInv, SharedType, ListedAreStored
<1>3. CASE AlreadyDone(o)
  BY <1>2, <1>3 DEF Transact
<1>4. CASE ~AlreadyDone(o) /\ op[o].action = "create"
  BY <1>1, <1>4, CommitPreserved DEF Transact
<1>5. CASE /\ ~AlreadyDone(o) /\ op[o].action # "create"
           /\ HoldGuard(op[o].of, op[o].action)
  BY <1>1, <1>5, ChangePreserved DEF Transact
<1>6. CASE /\ ~AlreadyDone(o) /\ op[o].action # "create"
           /\ ~HoldGuard(op[o].of, op[o].action)
  BY <1>2, <1>6 DEF Transact
<1> QED
  BY <1>3, <1>4, <1>5, <1>6
-----------------------------------------------------------------------------
LEMMA SharedInvPreserved ==
    SharedInv /\ [SharedMemoryNext]_sharedMemoryVars => SharedInv'
<1> SUFFICES ASSUME SharedInv, [SharedMemoryNext]_sharedMemoryVars, backend' = "postgres"
             PROVE  PostgresInv'
  BY DEF SharedInv
<1>1. backend = "postgres" /\ PostgresInv
  BY DEF SharedInv, SharedMemoryNext, sharedMemoryVars, memoryTables, AskCommit, RetryLifecycle,
     Sweep, AskLifecycle, ListExpired, GiveUp, Transact, LoadTables, LogEvent, AppendVersion
<1>2. ASSUME NEW m \in Memories, AskCommit(m) PROVE PostgresInv'
  BY <1>1, <1>2, AskedPreserved DEF AskCommit, Operations, memoryTables
<1>3. ASSUME NEW o \in Requests, RetryLifecycle(o) PROVE PostgresInv'
  <2>1. o \in Operations /\ o \notin Memories
    BY SharedMemoryAssumption DEF Operations
  <2>2. /\ op[o].of \in Memories /\ op[o].action \in Actions /\ RowsOf(op[o].of) # {}
    BY <1>1, <1>3, <2>1 DEF RetryLifecycle, PostgresInv, RequestInv
  <2>3. PICK action \in Actions, m \in Memories : RequestOf(o, action, m) /\ RowsOf(m) # {}
    BY <1>3, <2>2 DEF RetryLifecycle, RequestOf
  <2> QED
    BY <1>1, <1>3, <2>1, <2>3, AskedPreserved DEF RetryLifecycle, memoryTables
<1>4. ASSUME NEW o \in Requests, NEW m \in Memories, Sweep(o, m) PROVE PostgresInv'
  <2>1. o \in Operations /\ o \notin Memories /\ RowsOf(m) # {} /\ "delete" \in Actions
    BY <1>1, <1>4, SharedMemoryAssumption
       DEF Operations, Sweep, PostgresInv, ListedAreStored, Actions
  <2> QED
    BY <1>1, <1>4, <2>1, AskedPreserved DEF Sweep, memoryTables
<1>5. ASSUME NEW o \in Requests, NEW m \in Memories, NEW action \in Actions,
             AskLifecycle(o, action, m)
      PROVE  PostgresInv'
  <2>1. o \in Operations /\ o \notin Memories
    BY SharedMemoryAssumption DEF Operations
  <2> QED
    BY <1>1, <1>5, <2>1, AskedPreserved DEF AskLifecycle, memoryTables
<1>6. CASE ListExpired
  <2>1. /\ UNCHANGED <<attempts, op, table, log, held>>
        /\ listed' \subseteq Memories /\ \A m \in listed' : RowsOf(m) # {}
    BY <1>6 DEF ListExpired, memoryTables
  <2>2. RequestInv' /\ op' \in [Operations -> OpType] /\ attempts' \in Nat
    BY <1>1, <2>1 DEF PostgresInv, RequestInv, RowsOf, SharedType
  <2> QED
    BY <1>1, <2>1, <2>2, RequestsPreserved
<1>7. ASSUME NEW o \in Operations, GiveUp(o) PROVE PostgresInv'
  <2>1. op[o].pc # "new" /\ Goes(o, "failed") /\ UNCHANGED <<attempts, table, log, listed, held>>
    BY <1>7 DEF GiveUp, memoryTables
  <2>2. RequestInv' /\ op' \in [Operations -> OpType]
    BY <1>1, <2>1, GoesPreserved DEF PostgresInv, RequestInv, RowsOf
  <2> QED
    BY <1>1, <2>1, <2>2, RequestsPreserved DEF PostgresInv, SharedType, ListedAreStored
<1>8. ASSUME NEW o \in Operations, Transact(o) PROVE PostgresInv'
  BY <1>1, <1>8, TransactPreserved
<1>9. ASSUME NEW o \in Operations, LoadTables(o) \/ LogEvent(o) \/ AppendVersion(o)
      PROVE  FALSE
  <2>1. op[o].pc \in {"new", "asked", "failed", "done"}
    BY <1>1 DEF PostgresInv, SharedType, OpType
  <2> QED
    BY <1>1, <1>9, <2>1 DEF LoadTables, LogEvent, AppendVersion
<1>10. CASE UNCHANGED sharedMemoryVars
  BY <1>1, <1>10 DEF sharedMemoryVars, memoryTables, PostgresInv, SharedType, RequestInv, RowsOf,
     OneRowEach, RowsWereLogged, EventsOf, HoldsAreStored, ListedAreStored
<1> QED
  BY <1>2, <1>3, <1>4, <1>5, <1>6, <1>7, <1>8, <1>9, <1>10 DEF SharedMemoryNext

\* Over Postgres a memory has one row, which a logged operation made, and a memory
\* whose hold was applied and not released has a row that says so.
THEOREM PostgresInvariant == SharedMemorySpec => []SharedInv
  BY InitSharedInv, SharedInvPreserved, PTL DEF SharedMemorySpec

\* A step leaves a held memory's row as it is: either it touches another row, or the
\* guard of its transaction read this one.
LEMMA HeldRowStays ==
    ASSUME PostgresInv, PostgresInv', backend = "postgres", [SharedMemoryNext]_sharedMemoryVars,
           NEW m \in Memories, held[m]
    PROVE  \E i \in RowsOf(m) :
             /\ i \in DOMAIN table' /\ table'[i].of = m
             /\ table'[i].deleted = table[i].deleted /\ table'[i].expired = table[i].expired
<1>1. PICK i \in RowsOf(m) : table[i].hold
  BY DEF PostgresInv, HoldsAreStored
<1>2. i \in DOMAIN table /\ table[i].of = m
  BY DEF RowsOf
<1>3. CASE UNCHANGED table
  BY <1>2, <1>3
<1>4. ASSUME NEW o \in Operations, Transact(o), ~UNCHANGED table
      PROVE  /\ i \in DOMAIN table' /\ table'[i].of = m
             /\ table'[i].deleted = table[i].deleted /\ table'[i].expired = table[i].expired
  <2>1. op[o].pc = "asked" /\ ~AlreadyDone(o)
    BY <1>4 DEF Transact
  <2>2. CASE op[o].action = "create"
    <3>1. table' = Append(table, NewRow(o)) /\ table \in Seq(RowType)
      BY <1>4, <2>1, <2>2 DEF Transact, PostgresInv, SharedType
    <3> QED
      BY <1>2, <3>1
  <2>3. CASE op[o].action # "create"
    <3>1. /\ table' = [table EXCEPT ![Newest(op[o].of)] = Changed(@, o)]
          /\ op[o].action \in {"delete", "expire"} => ~Now(op[o].of).hold
      BY <1>4, <2>1, <2>3 DEF Transact, HoldGuard
    <3>2. PICK j \in RowsOf(op[o].of) :
            /\ Newest(op[o].of) = j /\ Now(op[o].of) = table[j]
            /\ Changed(table[j], o).of = op[o].of
            /\ Changed(table[j], o).deleted = (table[j].deleted \/ op[o].action = "delete")
            /\ Changed(table[j], o).expired = (table[j].expired \/ op[o].action = "expire")
      BY <2>1, <2>3, ChangedRow
    <3>3. table' = [table EXCEPT ![j] = Changed(table[j], o)] /\ j \in DOMAIN table
      BY <3>1, <3>2 DEF RowsOf
    <3>4. CASE j # i
      BY <1>2, <3>3, <3>4
    <3>5. CASE j = i
      <4>1. op[o].action \notin {"delete", "expire"} /\ op[o].of = m
        BY <1>1, <1>2, <3>1, <3>2, <3>5 DEF RowsOf
      <4>2. table[i].deleted \in BOOLEAN /\ table[i].expired \in BOOLEAN
        <5>1. table \in Seq(RowType)
          BY DEF PostgresInv, SharedType
        <5>2. table[i] \in RowType
          BY <1>2, <5>1
        <5> QED
          BY <5>2 DEF RowType
      <4>3. table'[i] = Changed(table[i], o) /\ i \in DOMAIN table'
        BY <3>3, <3>5
      <4> QED
        BY <3>2, <3>5, <4>1, <4>2, <4>3
    <3> QED
      BY <3>4, <3>5
  <2> QED
    BY <2>2, <2>3
<1>5. ASSUME NEW o \in Operations, LoadTables(o) \/ LogEvent(o) \/ AppendVersion(o)
      PROVE  FALSE
  <2>1. op[o].pc \in {"new", "asked", "failed", "done"}
    BY DEF PostgresInv, SharedType, OpType
  <2> QED
    BY <1>5, <2>1 DEF LoadTables, LogEvent, AppendVersion
<1> QED
  BY <1>3, <1>4, <1>5 DEF SharedMemoryNext, sharedMemoryVars, memoryTables, AskCommit,
     RetryLifecycle, Sweep, AskLifecycle, ListExpired, GiveUp

LEMMA HeldStaysStep ==
    ASSUME SharedInv, SharedInv', [SharedMemoryNext]_sharedMemoryVars, backend = "postgres",
           NEW m \in Memories
    PROVE  HeldStays(m)
<1> SUFFICES ASSUME held[m], held'[m]
             PROVE  /\ Now(m)'.deleted = Now(m).deleted
                    /\ Now(m)'.expired = Now(m).expired
  BY DEF HeldStays
<1>1. backend' = "postgres"
  BY DEF SharedMemoryNext, sharedMemoryVars, AskCommit, RetryLifecycle,
     Sweep, AskLifecycle, ListExpired, GiveUp, Transact, LoadTables, LogEvent, AppendVersion
<1>2. PostgresInv /\ PostgresInv'
  BY <1>1 DEF SharedInv
<1>3. PICK i \in RowsOf(m) :
        /\ i \in DOMAIN table' /\ table'[i].of = m
        /\ table'[i].deleted = table[i].deleted /\ table'[i].expired = table[i].expired
  BY <1>2, HeldRowStays
<1>4. Now(m) = table[i]
  BY <1>2, <1>3, NewestRow DEF PostgresInv
<1>5. Now(m)' = table'[i]
  <2>1. RowsOf(m)' = {i} /\ i \in Int
    BY <1>2, <1>3 DEF RowsOf, PostgresInv, OneRowEach, SharedType
  <2> QED
    BY <2>1 DEF Newest, Now
<1> QED
  BY <1>3, <1>4, <1>5

\* Over Postgres a memory that is held is neither deleted nor expired.
THEOREM PostgresHolds == SharedMemorySpec => PostgresHoldBlocks
<1>1. SharedInv /\ SharedInv' /\ [SharedMemoryNext]_sharedMemoryVars
      => [backend = "postgres" => \A m \in Memories : HeldStays(m)]_sharedMemoryVars
  BY HeldStaysStep
<1> QED
  BY <1>1, PostgresInvariant, PTL DEF SharedMemorySpec, PostgresHoldBlocks

-----------------------------------------------------------------------------
\* MemoryReview.

Verdicts == {"accepted", "rejected", "accepted_as_shared_draft"}
Entries  == [id : Proposals, status : {"proposed", "accepted", "rejected",
                                       "accepted_as_shared_draft"}]
Contents == Proposals \union {"user"}

ReviewType ==
    /\ MemoryReviewTypeOK
    /\ DOMAIN reviewer = Reviewers
    /\ made \in [proposed : SUBSET Proposals, written : SUBSET Proposals]

\* What a reviewer at work holds.
AtWork(r) ==
    LET me == reviewer[r]
    IN  /\ me.pc \in {"idle", "write", "mark", "rewrite", "revise"}
        /\ me.pc \in {"write", "mark", "rewrite"} => me.of \in Proposals /\ me.to \in Verdicts
        /\ me.pc \in {"mark", "rewrite"} => (me.to = "rejected" \/ me.of \in made.written)
        /\ me.pc = "rewrite" => queueLock = r /\ me.copy = queue
        /\ me.pc = "revise" => me.copy \in Seq(Contents)

\* As many entries as there are identifiers among them.
OnceEach ==
    /\ IsFiniteSet(Proposed)
    /\ ProposalsKept

ReviewInv ==
    /\ ReviewType
    /\ OnceEach
    /\ AcceptedWasWritten
    /\ \A r \in Reviewers : AtWork(r)
-----------------------------------------------------------------------------
LEMMA InitReviewInv == MemoryReviewInit => ReviewInv
<1> SUFFICES ASSUME MemoryReviewInit PROVE ReviewInv
  OBVIOUS
<1>1. Proposed = {}
  BY DEF MemoryReviewInit, Proposed
<1>2. OnceEach
  BY <1>1, FS_EmptySet DEF OnceEach, ProposalsKept, MemoryReviewInit
<1>3. ReviewType
  BY MemoryReviewAssumption DEF ReviewType, MemoryReviewTypeOK, MemoryReviewInit
<1>4. AcceptedWasWritten
  BY DEF AcceptedWasWritten, MemoryReviewInit
<1>5. \A r \in Reviewers : AtWork(r)
  BY DEF AtWork, MemoryReviewInit, Resting
<1> QED
  BY <1>2, <1>3, <1>4, <1>5 DEF ReviewInv

\* A step that leaves the queue, the lock and the history alone keeps what they say;
\* it needs to be looked at for the reviewer who takes it only.
LEMMA QueueUntouched ==
    ASSUME ReviewInv, UNCHANGED <<queue, queueLock>>, made'.proposed = made.proposed,
           made.written \subseteq made'.written, NEW r \in Reviewers,
           DOMAIN reviewer' = Reviewers, AtWork(r)',
           \A q \in Reviewers \ {r} : reviewer'[q] = reviewer[q]
    PROVE  OnceEach' /\ AcceptedWasWritten' /\ \A q \in Reviewers : AtWork(q)'
<1>1. OnceEach' /\ AcceptedWasWritten'
  BY DEF ReviewInv, OnceEach, ProposalsKept, Proposed, AcceptedWasWritten
<1>2. ASSUME NEW q \in Reviewers \ {r} PROVE AtWork(q)'
  BY <1>2 DEF ReviewInv, AtWork
<1> QED
  BY <1>1, <1>2

LEMMA ReviewerRests ==
    ASSUME ReviewInv, NEW r \in Reviewers, Rests(r)
    PROVE  /\ DOMAIN reviewer' = Reviewers
           /\ AtWork(r)'
           /\ \A q \in Reviewers \ {r} : reviewer'[q] = reviewer[q]
  BY DEF ReviewInv, ReviewType, Rests, Resting, AtWork

LEMMA ProposePreserved ==
    ASSUME ReviewInv, NEW r \in Reviewers, NEW p \in Proposals, Propose(r, p)
    PROVE  ReviewInv'
<1> DEFINE entry == [id |-> p, status |-> "proposed"]
<1>1. /\ queue \in Seq(Entries) /\ entry \in Entries
      /\ queue' = Append(queue, entry)
      /\ made'.proposed = made.proposed \union {p} /\ made'.written = made.written
      /\ made' \in [proposed : SUBSET Proposals, written : SUBSET Proposals]
  BY DEF ReviewInv, ReviewType, MemoryReviewTypeOK, Entries, Propose, QueueFree
<1>2. /\ queue' \in Seq(Entries) /\ Len(queue') = Len(queue) + 1
      /\ \A i \in 1..Len(queue) : queue'[i] = queue[i]
      /\ queue'[Len(queue) + 1] = entry
  BY <1>1, AppendProperties
<1>3. Proposed' = Proposed \union {p}
  BY <1>1, <1>2 DEF Proposed
<1>4. OnceEach'
  <2>1. p \notin Proposed
    BY DEF Propose, QueueFree, ReviewInv, OnceEach, ProposalsKept
  <2> QED
    <3>1. IsFiniteSet(Proposed) /\ Proposed = made.proposed /\ Len(queue) = Cardinality(Proposed)
      BY DEF ReviewInv, OnceEach, ProposalsKept
    <3>2. IsFiniteSet(Proposed \union {p}) /\ Cardinality(Proposed \union {p}) = Cardinality(Proposed) + 1
      BY <2>1, <3>1, FS_AddElement
    <3>3. Len(queue') = Cardinality(Proposed) + 1
      BY <1>2, <3>1
    <3> QED
      BY <1>1, <1>3, <3>1, <3>2, <3>3 DEF OnceEach, ProposalsKept
<1>5. AcceptedWasWritten'
  BY <1>1, <1>2 DEF ReviewInv, AcceptedWasWritten
<1>6. \A q \in Reviewers : AtWork(q)'
  BY <1>1, MemoryReviewAssumption DEF ReviewInv, AtWork, Propose, QueueFree
<1>7. ReviewType'
  BY <1>1, <1>2 DEF ReviewInv, ReviewType, MemoryReviewTypeOK, Entries, Propose, QueueFree
<1> QED
  BY <1>4, <1>5, <1>6, <1>7 DEF ReviewInv

LEMMA RewritePreserved ==
    ASSUME ReviewInv, NEW r \in Reviewers, RewriteQueue(r)
    PROVE  ReviewInv'
<1>1. /\ reviewer[r].of \in Proposals /\ reviewer[r].to \in Verdicts
      /\ reviewer[r].to = "rejected" \/ reviewer[r].of \in made.written
      /\ queueLock = r /\ reviewer[r].copy = queue
  BY DEF ReviewInv, AtWork, RewriteQueue
<1>2. queue \in Seq(Entries) /\ UNCHANGED made
  BY DEF ReviewInv, ReviewType, MemoryReviewTypeOK, Entries, RewriteQueue
<1>3. queue' = [i \in DOMAIN queue |->
                  IF queue[i].id = reviewer[r].of THEN [queue[i] EXCEPT !.status = reviewer[r].to]
                  ELSE queue[i]]
  BY <1>1 DEF RewriteQueue
<1>4. /\ DOMAIN queue' = DOMAIN queue
      /\ \A i \in DOMAIN queue : /\ queue'[i] \in Entries
                                 /\ queue'[i].id = queue[i].id
                                 /\ queue'[i].status = IF queue[i].id = reviewer[r].of
                                                       THEN reviewer[r].to ELSE queue[i].status
  <2>1. DOMAIN queue' = DOMAIN queue
    BY <1>3
  <2>2. ASSUME NEW i \in DOMAIN queue
        PROVE  /\ queue'[i] \in Entries
               /\ queue'[i].id = queue[i].id
               /\ queue'[i].status = IF queue[i].id = reviewer[r].of
                                     THEN reviewer[r].to ELSE queue[i].status
    <3>1. queue[i] \in Entries
      BY <1>2
    <3>2. queue'[i] = IF queue[i].id = reviewer[r].of
                      THEN [queue[i] EXCEPT !.status = reviewer[r].to] ELSE queue[i]
      BY <1>3, <2>2
    <3> QED
      BY <1>1, <3>1, <3>2 DEF Entries, Verdicts
  <2> QED
    BY <2>1, <2>2
<1>5. queue' \in Seq(Entries) /\ Len(queue') = Len(queue)
  BY <1>2, <1>3, <1>4, SMTT(30)
<1>6. OnceEach'
  BY <1>2, <1>4, <1>5 DEF ReviewInv, OnceEach, ProposalsKept, Proposed
<1>7. AcceptedWasWritten'
  BY <1>1, <1>2, <1>4 DEF ReviewInv, AcceptedWasWritten
<1>8. AtWork(r)' /\ DOMAIN reviewer' = Reviewers
  BY ReviewerRests DEF RewriteQueue
<1>9. ASSUME NEW q \in Reviewers \ {r} PROVE AtWork(q)'
  BY <1>1, <1>2 DEF ReviewInv, AtWork, RewriteQueue, Rests
<1>10. ReviewType'
  BY <1>2, <1>5, <1>8 DEF ReviewInv, ReviewType, MemoryReviewTypeOK, Entries, RewriteQueue
<1> QED
  BY <1>6, <1>7, <1>8, <1>9, <1>10 DEF ReviewInv

\* The steps of a reviewer that only change what it is doing: a decision is begun.
LEMMA BeginsPreserved ==
    ASSUME ReviewInv, NEW r \in Reviewers, NEW me,
           reviewer' = [reviewer EXCEPT ![r] = me], AtWork(r)',
           UNCHANGED <<queue, local, drafts, queueLock, made>>, Requested
    PROVE  ReviewInv'
<1>1. DOMAIN reviewer' = Reviewers /\ \A q \in Reviewers \ {r} : reviewer'[q] = reviewer[q]
  BY DEF ReviewInv, ReviewType
<1>2. requests' \in 0..MaxRequests
  BY MemoryReviewAssumption DEF ReviewInv, ReviewType, MemoryReviewTypeOK, Requested
<1> QED
  BY <1>1, <1>2, QueueUntouched DEF ReviewInv, ReviewType, MemoryReviewTypeOK

LEMMA ReviewInvPreserved == ReviewInv /\ [MemoryReviewNext]_memoryReviewVars => ReviewInv'
<1> SUFFICES ASSUME ReviewInv, [MemoryReviewNext]_memoryReviewVars PROVE ReviewInv'
  OBVIOUS
<1>0. DOMAIN reviewer = Reviewers
  BY DEF ReviewInv, ReviewType
<1>1. ASSUME NEW r \in Reviewers, NEW p \in Proposals, Propose(r, p) PROVE ReviewInv'
  BY <1>1, ProposePreserved
<1>2. ASSUME NEW r \in Reviewers, NEW p \in Proposals, LookUp(r, p) PROVE ReviewInv'
  <2>1. AtWork(r)'
    BY <1>0, <1>2 DEF LookUp, AtWork, Resting, Accepted, Verdicts
  <2> QED
    BY <1>2, <2>1, BeginsPreserved DEF LookUp
<1>3. ASSUME NEW r \in Reviewers, WriteMemory(r) PROVE ReviewInv'
  <2>1. reviewer[r].of \in Proposals
    BY <1>3 DEF WriteMemory, ReviewInv, AtWork
  <2>2. /\ made'.proposed = made.proposed /\ made.written \subseteq made'.written
        /\ reviewer[r].of \in made'.written
        /\ made' \in [proposed : SUBSET Proposals, written : SUBSET Proposals]
    BY <1>3, <2>1 DEF WriteMemory, ReviewInv, ReviewType
  <2>3. /\ DOMAIN reviewer' = Reviewers
        /\ \A q \in Reviewers \ {r} : reviewer'[q] = reviewer[q]
    BY <1>0, <1>3 DEF WriteMemory
  <2>4. AtWork(r)'
    BY <1>0, <1>3, <2>2 DEF WriteMemory, AtWork, ReviewInv
  <2>5. local' \in Seq(Contents) /\ drafts' \in Seq(Proposals)
    <3>1. local \in Seq(Contents) /\ drafts \in Seq(Proposals)
      BY DEF ReviewInv, ReviewType, MemoryReviewTypeOK, Contents
    <3>2. \/ local' = Append(local, reviewer[r].of) /\ drafts' = drafts
          \/ drafts' = Append(drafts, reviewer[r].of) /\ local' = local
      BY <1>3 DEF WriteMemory
    <3>3. Append(local, reviewer[r].of) \in Seq(Contents)
      BY <2>1, <3>1, AppendProperties DEF Contents
    <3>4. Append(drafts, reviewer[r].of) \in Seq(Proposals)
      BY <2>1, <3>1, AppendProperties
    <3> QED
      BY <3>1, <3>2, <3>3, <3>4, Zenon
  <2>6. ReviewType'
    BY <1>3, <2>2, <2>3, <2>5 DEF WriteMemory, ReviewInv, ReviewType, MemoryReviewTypeOK, Contents
  <2> QED
    BY <1>3, <2>2, <2>3, <2>4, <2>6, QueueUntouched DEF WriteMemory, ReviewInv
<1>4. ASSUME NEW r \in Reviewers, WriteRefused(r) PROVE ReviewInv'
  BY <1>4, ReviewerRests, QueueUntouched DEF WriteRefused, ReviewInv, ReviewType, MemoryReviewTypeOK
<1>5. ASSUME NEW p \in Proposals, Reject(p) PROVE ReviewInv'
  <2>1. WebServer \in Reviewers
    BY MemoryReviewAssumption
  <2>2. AtWork(WebServer)'
    BY <1>0, <1>5, <2>1 DEF Reject, AtWork, Resting, Verdicts
  <2> QED
    BY <1>5, <2>1, <2>2, BeginsPreserved DEF Reject
<1>6. ASSUME NEW r \in Reviewers, ReadQueue(r) PROVE ReviewInv'
  <2>1. AtWork(r)'
    BY <1>0, <1>6 DEF ReadQueue, QueueFree, ReviewInv, AtWork
  <2>2. ASSUME NEW q \in Reviewers \ {r} PROVE AtWork(q)'
    BY <1>0, <1>6, MemoryReviewAssumption DEF ReadQueue, QueueFree, ReviewInv, AtWork
  <2>3. OnceEach' /\ AcceptedWasWritten'
    BY <1>6 DEF ReadQueue, QueueFree, ReviewInv, OnceEach, ProposalsKept, Proposed, AcceptedWasWritten
  <2>4. ReviewType'
    BY <1>0, <1>6 DEF ReadQueue, QueueFree, ReviewInv, ReviewType, MemoryReviewTypeOK
  <2> QED
    BY <2>1, <2>2, <2>3, <2>4 DEF ReviewInv
<1>7. ASSUME NEW r \in Reviewers, RewriteQueue(r) PROVE ReviewInv'
  BY <1>7, RewritePreserved
<1>8. ASSUME NEW r \in Reviewers, Remember(r) PROVE ReviewInv'
  <2>1. local' \in Seq(Contents) /\ requests' \in 0..MaxRequests
    BY <1>8, MemoryReviewAssumption
       DEF Remember, Requested, ReviewInv, ReviewType, MemoryReviewTypeOK, Contents
  <2> QED
    BY <1>0, <1>8, <2>1, QueueUntouched
       DEF Remember, ReviewInv, ReviewType, MemoryReviewTypeOK, Contents, AtWork
<1>9. CASE ReadMemories
  <2>1. WebServer \in Reviewers
    BY MemoryReviewAssumption
  <2>2. AtWork(WebServer)'
    BY <1>0, <1>9, <2>1
       DEF ReadMemories, AtWork, Resting, ReviewInv, ReviewType, MemoryReviewTypeOK, Contents
  <2> QED
    BY <1>9, <2>1, <2>2, BeginsPreserved DEF ReadMemories
<1>10. ASSUME NEW i \in 1..Len(reviewer[WebServer].copy), NEW removed \in BOOLEAN,
              ReplaceMemories(i, removed)
       PROVE  ReviewInv'
  <2>1. WebServer \in Reviewers
    BY MemoryReviewAssumption
  <2>2. reviewer[WebServer].copy \in Seq(Contents)
    BY <1>10, <2>1 DEF ReplaceMemories, ReviewInv, AtWork
  <2>3. RemoveAt(reviewer[WebServer].copy, i) \in Seq(Contents)
    BY <2>2, SubSeqProperties, ConcatProperties DEF RemoveAt
  <2>4. local' \in Seq(Contents)
    BY <1>10, <2>2, <2>3 DEF ReplaceMemories
  <2> QED
    BY <1>10, <2>1, <2>4, ReviewerRests, QueueUntouched
       DEF ReplaceMemories, ReviewInv, ReviewType, MemoryReviewTypeOK, Contents
<1>11. ASSUME NEW r \in Reviewers, ReviewerDies(r) PROVE ReviewInv'
  <2>1. /\ DOMAIN reviewer' = Reviewers /\ AtWork(r)'
        /\ \A q \in Reviewers \ {r} : reviewer'[q] = reviewer[q]
    BY <1>11, ReviewerRests DEF ReviewerDies
  <2>2. ASSUME NEW q \in Reviewers \ {r} PROVE AtWork(q)'
    BY <1>11, <2>1, <2>2 DEF ReviewerDies, ReviewInv, AtWork
  <2>3. OnceEach' /\ AcceptedWasWritten'
    BY <1>11 DEF ReviewerDies, ReviewInv, OnceEach, ProposalsKept, Proposed, AcceptedWasWritten
  <2>4. ReviewType'
    BY <1>11, <2>1 DEF ReviewerDies, ReviewInv, ReviewType, MemoryReviewTypeOK
  <2> QED
    BY <2>1, <2>2, <2>3, <2>4 DEF ReviewInv
<1>12. CASE UNCHANGED memoryReviewVars
  BY <1>12 DEF memoryReviewVars, ReviewInv, ReviewType, MemoryReviewTypeOK, OnceEach, ProposalsKept,
     Proposed, AcceptedWasWritten, AtWork
<1> QED
  BY <1>1, <1>2, <1>3, <1>4, <1>5, <1>6, <1>7, <1>8, <1>9, <1>10, <1>11, <1>12
     DEF MemoryReviewNext

\* In every reachable state the invariant holds: in particular, whoever is about to
\* replace the queue holds its lock and replaces it by what it is, one status changed.
THEOREM ReviewInvariant == MemoryReviewSpec => []ReviewInv
  BY InitReviewInv, ReviewInvPreserved, PTL DEF MemoryReviewSpec

\* Neither a proposal nor the content of one that says it was accepted is lost.
THEOREM ReviewLosesNothingHolds == MemoryReviewSpec => []ReviewLosesNothing
<1>1. ReviewInv => ReviewLosesNothing
  BY DEF ReviewInv, ReviewType, OnceEach, ReviewLosesNothing
<1> QED
  BY <1>1, ReviewInvariant, PTL
-----------------------------------------------------------------------------
\* SharedMemory over either back end.

RequestLabels == {"new", "asked", "loaded", "logged", "done", "failed"}
RequestRecords ==
    [action : Actions \cup {"create", "none"}, of : Memories \cup {"none"}, at : Nat,
     pc : RequestLabels, rows : Nat, events : Nat]

ProvenanceType ==
    /\ attempts \in Nat
    /\ op \in [Operations -> RequestRecords]
    /\ table \in Seq(RowType)
    /\ log \in Seq(EventType)

\* No operation has two events, and an event is what its operation asked for.
LogInv ==
    /\ \A i \in DOMAIN log : /\ op[log[i].op].pc # "new"
                             /\ log[i].of = op[log[i].op].of
                             /\ log[i].action = op[log[i].op].action
                             /\ log[i].at <= attempts
    /\ \A i, j \in DOMAIN log : log[i].op = log[j].op => i = j
    /\ \A o \in Operations : /\ op[o].at <= attempts
                             /\ op[o].pc = "logged" => EventsOf(o) # {}

\* A row was made by an operation that is logged, and so is what it says.
RowInv(r) ==
    /\ op[r.by].pc # "new" /\ r.of = op[r.by].of /\ r.at <= attempts
    /\ EventsOf(r.by) # {} /\ LoggedOf(r.of, "create")
    /\ r.deleted => LoggedOf(r.of, "delete")
    /\ r.hold => LoggedOf(r.of, "hold")

TableInv ==
    /\ \A i \in DOMAIN table : RowInv(table[i])
    /\ \A i, j \in DOMAIN table : table[i].by = table[j].by => i = j

\* On Postgres an event and its row are one transaction.
TransactionInv ==
    backend = "postgres" =>
        /\ \A i \in DOMAIN log : RowsOf(log[i].of) # {}
        /\ \A o \in Operations : op[o].pc \notin {"loaded", "logged"}

ProvenanceInv ==
    /\ ProvenanceType /\ RequestInv /\ LogInv /\ TableInv /\ TransactionInv /\ ListedAreStored
-----------------------------------------------------------------------------
\* The least of some numbers exists.
LEMMA LeastExists ==
    ASSUME NEW T \in SUBSET Nat, T # {}
    PROVE  \E k \in T : \A j \in T : k <= j
<1> DEFINE less == OpToRel(<, Nat)
<1>1. less = {ss \in Nat \X Nat : ss[1] < ss[2]}
  BY DEF OpToRel
<1>2. IsWellFoundedOn(less, Nat)
  BY NatLessThanWellFounded
<1> HIDE DEF less
<1>3. PICK k \in T : \A j \in T : ~(<<j, k>> \in less)
  BY <1>2, WFMin
<1>4. ASSUME NEW j \in T
      PROVE  k <= j
  <2> DEFINE pair == <<j, k>>
  <2>1. pair \in Nat \X Nat /\ pair[1] = j /\ pair[2] = k
    OBVIOUS
  <2>2. ~(pair \in less)
    BY <1>3
  <2> HIDE DEF pair
  <2>3. ~(pair[1] < pair[2])
    BY <1>1, <2>1, <2>2
  <2> QED
    BY <2>1, <2>3
<1> QED
  BY <1>4

LEMMA InitProvenanceInv == SharedMemoryInit => ProvenanceInv
<1> SUFFICES ASSUME SharedMemoryInit PROVE ProvenanceInv
  OBVIOUS
<1>1. ProvenanceType
  BY DEF SharedMemoryInit, ProvenanceType, RequestRecords, RequestLabels, NoRequestYet
<1>2. \A o \in Operations : op[o].pc = "new" /\ op[o].at = 0
  BY DEF SharedMemoryInit, NoRequestYet
<1>3. attempts = 0 /\ table = <<>> /\ log = <<>> /\ listed = {}
  BY DEF SharedMemoryInit
<1> QED
  BY <1>1, <1>2, <1>3
     DEF ProvenanceInv, RequestInv, LogInv, TableInv, TransactionInv, ListedAreStored

\* A memory that has rows has a newest one.
LEMMA NewestExists ==
    ASSUME ProvenanceInv, NEW m, RowsOf(m) # {}
    PROVE  Newest(m) \in RowsOf(m)
<1>1. RowsOf(m) \subseteq Nat /\ \A i \in RowsOf(m) : table[i].at \in Nat /\ table[i].at <= attempts
  <2>1. \A i \in DOMAIN table : table[i] \in RowType /\ RowInv(table[i]) /\ i \in Nat
    BY DEF ProvenanceInv, ProvenanceType, TableInv
  <2> QED
    BY <2>1 DEF RowsOf, RowInv, RowType
<1>2. attempts \in Nat
  BY DEF ProvenanceInv, ProvenanceType
<1> DEFINE ages == {attempts - table[i].at : i \in RowsOf(m)}
<1>3. ages \in SUBSET Nat /\ ages # {}
  BY <1>1, <1>2
<1>4. PICK age \in ages : \A other \in ages : age <= other
  BY <1>3, LeastExists
<1> DEFINE latest == {i \in RowsOf(m) : attempts - table[i].at = age}
<1>5. latest \in SUBSET Nat /\ latest # {}
  BY <1>1
<1>6. PICK i \in latest : \A j \in latest : i <= j
  BY <1>5, LeastExists
<1>7. i \in RowsOf(m) /\ attempts - table[i].at = age
  BY <1>6
<1>8. ASSUME NEW j \in RowsOf(m)
      PROVE  table[i].at > table[j].at \/ (table[i].at = table[j].at /\ i <= j)
  <2>1. attempts - table[j].at \in ages
    OBVIOUS
  <2>2. age <= attempts - table[j].at
    BY <1>4, <2>1
  <2> HIDE DEF ages
  <2>3. CASE attempts - table[j].at = age
    <3>1. j \in latest
      BY <2>3
    <3>2. i <= j
      BY <1>6, <3>1
    <3> QED
      BY <1>1, <1>2, <1>7, <2>3, <3>2
  <2>4. CASE attempts - table[j].at # age
    BY <1>1, <1>2, <1>7, <2>2, <2>4
  <2> QED
    BY <2>3, <2>4
<1> QED
  BY <1>7, <1>8 DEF Newest

\* Only how far a request is changes.
OnlyLabels ==
    /\ op' \in [Operations -> RequestRecords] /\ UNCHANGED <<backend, attempts>>
    /\ \A p \in Operations : /\ op'[p].pc = "new" <=> op[p].pc = "new"
                             /\ op'[p].of = op[p].of /\ op'[p].action = op[p].action
                             /\ op'[p].at = op[p].at

EventsGrow ==
    /\ \A p : EventsOf(p) # {} => EventsOf(p)' # {}
    /\ \A m, action : LoggedOf(m, action) => LoggedOf(m, action)'

RowsGrow == \A m : RowsOf(m) # {} => RowsOf(m)' # {}

LEMMA LogAppended ==
    ASSUME ProvenanceInv, OnlyLabels, NEW o \in Operations, op[o].pc # "new",
           EventsOf(o) = {}, log' = Append(log, EventFor(o)),
           \A p \in Operations : op'[p].pc = "logged" => op[p].pc = "logged" \/ p = o
    PROVE  /\ log' \in Seq(EventType) /\ LogInv' /\ EventsGrow
           /\ EventsOf(o)' # {} /\ LoggedOf(op[o].of, op[o].action)'
           /\ \A i \in DOMAIN log' : \/ i \in DOMAIN log /\ log'[i] = log[i]
                                \/ log'[i].of = op[o].of
<1>1. /\ log \in Seq(EventType) /\ attempts \in Nat /\ op[o] \in RequestRecords
      /\ op[o].of \in Memories /\ op[o].action \in Actions \cup {"create"}
  BY DEF ProvenanceInv, ProvenanceType, RequestInv
<1> DEFINE e == EventFor(o)
<1>2. e \in EventType /\ e.op = o /\ e.of = op[o].of /\ e.action = op[o].action /\ e.at = op[o].at
  BY <1>1 DEF EventFor, EventType, RequestRecords
<1> HIDE DEF e
<1>3. /\ log' \in Seq(EventType)
      /\ DOMAIN log' = 1..Len(log)+1 /\ DOMAIN log = 1..Len(log)
      /\ \A i \in DOMAIN log : log'[i] = log[i]
      /\ log'[Len(log) + 1] = e /\ Len(log) \in Nat
  BY <1>1, <1>2, AppendProperties DEF e
<1>4. \A i \in DOMAIN log : log[i].op # o /\ log[i].op \in Operations
  <2>1. \A i \in DOMAIN log : log[i] \in EventType
    BY <1>1
  <2> QED
    BY <2>1 DEF EventsOf, EventType
<1>5. EventsGrow
  BY <1>3 DEF EventsGrow, EventsOf, LoggedOf
<1>6. Len(log) + 1 \in DOMAIN log' /\ log'[Len(log) + 1] = e
  BY <1>3
<1>7. EventsOf(o)' # {} /\ LoggedOf(op[o].of, op[o].action)'
  BY <1>2, <1>6 DEF EventsOf, LoggedOf, OnlyLabels
<1>8. LogInv'
  <2>1. ASSUME NEW i \in DOMAIN log'
        PROVE  /\ op'[log'[i].op].pc # "new"
               /\ log'[i].of = op'[log'[i].op].of
               /\ log'[i].action = op'[log'[i].op].action
               /\ log'[i].at <= attempts'
    <3>1. CASE i \in DOMAIN log
      BY <1>3, <1>4, <3>1 DEF OnlyLabels, ProvenanceInv, LogInv
    <3>2. CASE i = Len(log) + 1
      BY <1>2, <1>6, <3>2 DEF OnlyLabels, ProvenanceInv, LogInv
    <3> QED
      BY <1>3, <3>1, <3>2
  <2>2. ASSUME NEW i \in DOMAIN log', NEW j \in DOMAIN log', log'[i].op = log'[j].op
        PROVE  i = j
    <3>1. CASE i \in DOMAIN log /\ j \in DOMAIN log
      BY <1>3, <2>2, <3>1 DEF ProvenanceInv, LogInv
    <3>2. CASE i = Len(log) + 1 \/ j = Len(log) + 1
      BY <1>2, <1>3, <1>4, <2>2, <3>2
    <3> QED
      BY <1>3, <3>1, <3>2
  <2>3. ASSUME NEW p \in Operations
        PROVE  op'[p].at <= attempts' /\ (op'[p].pc = "logged" => EventsOf(p)' # {})
    <3>1. op'[p].at <= attempts'
      BY DEF OnlyLabels, ProvenanceInv, LogInv
    <3>2. op'[p].pc = "logged" => EventsOf(p)' # {}
      BY <1>5, <1>7 DEF EventsGrow, ProvenanceInv, LogInv
    <3> QED
      BY <3>1, <3>2
  <2> QED
    BY <2>1, <2>2, <2>3 DEF LogInv
<1> QED
  BY <1>2, <1>3, <1>5, <1>7, <1>8

LEMMA LogSame ==
    ASSUME ProvenanceInv, OnlyLabels, log' = log,
           \A p \in Operations : op'[p].pc = "logged" => op[p].pc = "logged" \/ EventsOf(p) # {}
    PROVE  log' \in Seq(EventType) /\ LogInv' /\ EventsGrow
<1>1. EventsGrow /\ \A p : EventsOf(p)' = EventsOf(p)
  BY DEF EventsGrow, EventsOf, LoggedOf
<1>2. \A i \in DOMAIN log : log[i].op \in Operations
  <2>1. \A i \in DOMAIN log : log[i] \in EventType
    BY DEF ProvenanceInv, ProvenanceType
  <2> QED
    BY <2>1 DEF EventType
<1>3. LogInv'
  BY <1>1, <1>2 DEF OnlyLabels, ProvenanceInv, LogInv
<1> QED
  BY <1>1, <1>3 DEF ProvenanceInv, ProvenanceType

\* What a row says stays true.
LEMMA RowStays ==
    ASSUME OnlyLabels, EventsGrow, NEW r \in RowType, RowInv(r)
    PROVE  RowInv(r)'
  BY DEF RowInv, OnlyLabels, EventsGrow, RowType

LEMMA TableSame ==
    ASSUME ProvenanceInv, OnlyLabels, EventsGrow, table' = table
    PROVE  table' \in Seq(RowType) /\ TableInv' /\ RowsGrow
<1>1. table \in Seq(RowType) /\ RowsGrow
  BY DEF ProvenanceInv, ProvenanceType, RowsGrow, RowsOf
<1>2. ASSUME NEW i \in DOMAIN table PROVE RowInv(table[i])'
  <2>1. PICK r \in RowType : r = table[i]
    BY <1>1
  <2>2. RowInv(r)
    BY <2>1 DEF ProvenanceInv, TableInv
  <2>3. RowInv(r)' /\ table'[i] = r
    BY <2>1, <2>2, RowStays
  <2> QED
    BY <2>3 DEF RowInv
<1> QED
  BY <1>1, <1>2 DEF ProvenanceInv, TableInv

\* A new row, of an operation that has none, at the end or in the place of another of its memory.
LEMMA RowStored ==
    ASSUME ProvenanceInv, OnlyLabels, EventsGrow, NEW r \in RowType, RowInv(r)',
           \A i \in DOMAIN table : table[i].by # r.by,
           \/ table' = Append(table, r)
           \/ \E i \in DOMAIN table : table[i].of = r.of /\ table' = [table EXCEPT ![i] = r]
    PROVE  table' \in Seq(RowType) /\ TableInv' /\ RowsGrow /\ RowsOf(r.of)' # {}
<1>1. table \in Seq(RowType) /\ DOMAIN table = 1..Len(table) /\ Len(table) \in Nat
  BY DEF ProvenanceInv, ProvenanceType
<1>2. PICK k : /\ table' \in Seq(RowType) /\ k \in DOMAIN table' /\ table'[k] = r
               /\ DOMAIN table' = (DOMAIN table) \union {k}
               /\ \A i \in DOMAIN table' \ {k} : table'[i] = table[i]
               /\ k \in DOMAIN table => table[k].of = r.of
  <2>1. CASE table' = Append(table, r)
    <3>1. /\ table' \in Seq(RowType) /\ DOMAIN table' = 1..Len(table)+1
          /\ \A i \in DOMAIN table : table'[i] = table[i]
          /\ table'[Len(table) + 1] = r
      BY <1>1, <2>1, AppendProperties
    <3>2. /\ Len(table)+1 \in DOMAIN table' /\ Len(table)+1 \notin DOMAIN table
          /\ DOMAIN table' = (DOMAIN table) \union {Len(table)+1}
      <4>1. \A n \in Nat : n + 1 \in 1..n+1 /\ n + 1 \notin 1..n /\ 1..n+1 = 1..n \union {n + 1}
        OBVIOUS
      <4> QED
        BY <1>1, <3>1, <4>1
    <3> QED
      BY <3>1, <3>2
  <2>2. ASSUME NEW i \in DOMAIN table, table[i].of = r.of, table' = [table EXCEPT ![i] = r]
        PROVE  /\ table' \in Seq(RowType) /\ i \in DOMAIN table' /\ table'[i] = r
               /\ DOMAIN table' = (DOMAIN table) \union {i}
               /\ \A j \in DOMAIN table' \ {i} : table'[j] = table[j]
    <3>1. [table EXCEPT ![i] = r] \in Seq(RowType)
      BY <1>1, <2>2, ExceptSeq, Zenon
    <3> QED
      BY <2>2, <3>1
  <2> QED
    BY <2>1, <2>2
<1>3. ASSUME NEW i \in DOMAIN table' PROVE RowInv(table[i])'
  <2>1. CASE i = k
    BY <1>2, <2>1 DEF RowInv
  <2>2. CASE i # k
    <3>1. i \in DOMAIN table /\ table'[i] = table[i]
      BY <1>2, <2>2
    <3>2. PICK s \in RowType : s = table[i]
      BY <1>1, <3>1
    <3>3. RowInv(s)
      BY <3>1, <3>2 DEF ProvenanceInv, TableInv
    <3>4. RowInv(s)' /\ table'[i] = s
      BY <3>1, <3>2, <3>3, RowStays
    <3> QED
      BY <3>4 DEF RowInv
  <2> QED
    BY <2>1, <2>2
<1>4. ASSUME NEW i \in DOMAIN table', NEW j \in DOMAIN table', table'[i].by = table'[j].by
      PROVE  i = j
  <2>1. CASE i # k /\ j # k
    BY <1>2, <1>4, <2>1 DEF ProvenanceInv, TableInv
  <2>2. CASE i = k \/ j = k
    BY <1>2, <1>4, <2>2
  <2> QED
    BY <2>1, <2>2
<1>5. \A i \in DOMAIN table : i \in DOMAIN table' /\ table'[i].of = table[i].of
  BY <1>2
<1>6. RowsGrow
  BY <1>5 DEF RowsGrow, RowsOf
<1>7. RowsOf(r.of)' # {}
  BY <1>2 DEF RowsOf
<1> QED
  BY <1>2, <1>3, <1>4, <1>6, <1>7 DEF TableInv

\* The parts about the tables give the rest.
LEMMA PartsSuffice ==
    ASSUME ProvenanceInv, OnlyLabels, log' \in Seq(EventType), LogInv', table' \in Seq(RowType),
           TableInv', RowsGrow, listed' = listed, TransactionInv'
    PROVE  ProvenanceInv'
<1>1. ProvenanceType'
  BY DEF OnlyLabels, ProvenanceInv, ProvenanceType
<1>2. RequestInv'
  BY DEF OnlyLabels, RowsGrow, ProvenanceInv, RequestInv
<1>3. ListedAreStored'
  BY DEF RowsGrow, ProvenanceInv, ListedAreStored
<1> QED
  BY <1>1, <1>2, <1>3 DEF ProvenanceInv

LEMMA OnlyLabelsGoes ==
    ASSUME ProvenanceInv, NEW o \in Operations, op[o].pc # "new",
           NEW label \in RequestLabels \ {"new"}, Goes(o, label), UNCHANGED <<backend, attempts>>
    PROVE  OnlyLabels /\ op'[o].pc = label /\ \A p \in Operations \ {o} : op'[p] = op[p]
<1>1. op[o] \in RequestRecords /\ op' = [op EXCEPT ![o] = [op[o] EXCEPT !.pc = label]]
  BY DEF Goes, ProvenanceInv, ProvenanceType
<1> DEFINE r == [op[o] EXCEPT !.pc = label]
<1>2. /\ r \in RequestRecords /\ r.pc = label /\ r.of = op[o].of /\ r.action = op[o].action
      /\ r.at = op[o].at
  BY <1>1 DEF RequestRecords
<1> HIDE DEF r
<1>3. op' = [op EXCEPT ![o] = r] /\ op \in [Operations -> RequestRecords]
  BY <1>1 DEF r, ProvenanceInv, ProvenanceType
<1>4. op' \in [Operations -> RequestRecords] /\ op'[o] = r
      /\ \A p \in Operations \ {o} : op'[p] = op[p]
  BY <1>2, <1>3
<1>5. r.pc # "new"
  BY <1>2
<1> QED
  BY <1>2, <1>4, <1>5 DEF OnlyLabels

\* Steps that leave the tables as they are, and do not reach the second append.
LEMMA TablesSame ==
    ASSUME ProvenanceInv, OnlyLabels, UNCHANGED <<table, log, listed>>,
           \A p \in Operations : op'[p].pc = "logged" => op[p].pc = "logged" \/ EventsOf(p) # {},
           backend = "postgres" => \A p \in Operations : op'[p].pc \notin {"loaded", "logged"}
    PROVE  ProvenanceInv'
<1>1. log' \in Seq(EventType) /\ LogInv' /\ EventsGrow
  BY LogSame
<1>2. table' \in Seq(RowType) /\ TableInv' /\ RowsGrow
  BY <1>1, TableSame
<1>3. TransactionInv'
  BY <1>2 DEF ProvenanceInv, TransactionInv, OnlyLabels, RowsGrow
<1> QED
  BY <1>1, <1>2, <1>3, PartsSuffice

\* The row that an operation stores.
LEMMA RowOfOperation ==
    ASSUME ProvenanceInv, NEW o \in Operations, op[o].pc # "new",
           OnlyLabels, EventsGrow, EventsOf(o)' # {}, LoggedOf(op[o].of, op[o].action)',
           NEW r, \/ op[o].action = "create" /\ r = NewRow(o)
                  \/ op[o].action # "create" /\ r = Changed(Now(op[o].of), o)
    PROVE  /\ r \in RowType /\ r.by = o /\ r.of = op[o].of /\ RowInv(r)'
<1>1. /\ op[o].of \in Memories /\ op[o].at \in Nat /\ op[o].at <= attempts /\ attempts \in Nat
      /\ table \in Seq(RowType) /\ log \in Seq(EventType)
  BY DEF ProvenanceInv, ProvenanceType, RequestInv, LogInv, RequestRecords
<1>2. /\ op'[o].pc # "new" /\ op'[o].of = op[o].of /\ op'[o].action = op[o].action
      /\ attempts' = attempts
  BY DEF OnlyLabels
<1>3. CASE op[o].action = "create"
  <2>1. o \in Memories /\ op[o].of = o
    BY <1>3 DEF ProvenanceInv, RequestInv, Actions
  <2>2. r \in RowType /\ r.by = o /\ r.of = op[o].of /\ r.at = 0 /\ ~r.deleted /\ ~r.hold
    <3>1. PICK no \in BOOLEAN : no = FALSE
      OBVIOUS
    <3>2. r = [of |-> o, at |-> 0, by |-> o, deleted |-> no, expired |-> no, hold |-> no]
      BY <1>3, <3>1, Zenon DEF NewRow
    <3>3. o \in Operations /\ op[o].of = o /\ o \in Memories
      BY <2>1
    <3> QED
      BY <3>1, <3>2, <3>3 DEF RowType
  <2> QED
    <3>1. LoggedOf(r.of, "create")' /\ EventsOf(r.by)' # {}
      BY <1>2, <1>3, <2>2 DEF LoggedOf, EventsOf
    <3>2. op'[r.by].pc # "new" /\ r.of = op'[r.by].of /\ r.at <= attempts'
      BY <1>1, <1>2, <2>2
    <3> QED
      BY <2>2, <3>1, <3>2 DEF RowInv
<1>4. CASE op[o].action # "create"
  <2>1. RowsOf(op[o].of) # {} /\ op[o].action \in Actions
    BY <1>4 DEF ProvenanceInv, RequestInv
  <2>2. PICK s \in RowType : s = Now(op[o].of) /\ s.of = op[o].of /\ RowInv(s)
    <3>1. Newest(op[o].of) \in RowsOf(op[o].of)
      BY <2>1, NewestExists
    <3> QED
      BY <1>1, <3>1 DEF Now, RowsOf, ProvenanceInv, TableInv
  <2>3. OperationTime(o) \in Nat /\ OperationTime(o) <= attempts
    <3>1. CASE EventsOf(o) = {}
      BY <1>1, <3>1 DEF OperationTime
    <3>2. CASE EventsOf(o) # {}
      <4> DEFINE first == CHOOSE i \in EventsOf(o) : TRUE
      <4>1. first \in DOMAIN log
        BY <3>2 DEF EventsOf
      <4>2. OperationTime(o) = log[first].at
        BY <3>2 DEF OperationTime
      <4> HIDE DEF first
      <4> QED
        <5>1. log[first] \in EventType /\ log[first].at <= attempts
          BY <1>1, <4>1 DEF ProvenanceInv, LogInv
        <5> QED
          BY <4>2, <5>1 DEF EventType
    <3> QED
      BY <3>1, <3>2
  <2> DEFINE at == OperationTime(o)
  <2> DEFINE action == op[o].action
  <2>4. r = [s EXCEPT !.at = at, !.by = o, !.deleted = s.deleted \/ action = "delete",
                      !.expired = s.expired \/ action = "expire",
                      !.hold = (s.hold \/ action = "hold") /\ action # "release_hold"]
    BY <1>4, <2>2 DEF Changed
  <2>5. at \in Nat /\ at <= attempts
    BY <2>3
  <2> HIDE DEF at
  <2>6. /\ r \in RowType /\ r.by = o /\ r.of = op[o].of /\ r.at <= attempts
        /\ r.deleted = (s.deleted \/ action = "delete")
        /\ r.hold = ((s.hold \/ action = "hold") /\ action # "release_hold")
    BY <2>2, <2>4, <2>5 DEF RowType
  <2>7. RowInv(s)'
    BY <2>2, RowStays
  <2>8. /\ LoggedOf(op[o].of, "create")'
        /\ s.deleted => LoggedOf(op[o].of, "delete")'
        /\ s.hold => LoggedOf(op[o].of, "hold")'
    BY <1>2, <2>2, <2>7 DEF RowInv
  <2>9. /\ r.deleted => LoggedOf(op[o].of, "delete")'
        /\ r.hold => LoggedOf(op[o].of, "hold")'
    <3>1. r.deleted => s.deleted \/ action = "delete"
      BY <2>6
    <3>2. r.hold => s.hold \/ action = "hold"
      BY <2>6
    <3>3. LoggedOf(op[o].of, action)'
      BY <1>2
    <3> QED
      BY <1>2, <2>8, <3>1, <3>2, <3>3 DEF LoggedOf
  <2>10. RowInv(r)'
    BY <1>2, <2>6, <2>8, <2>9 DEF RowInv
  <2> QED
    BY <2>6, <2>10
<1> QED
  BY <1>3, <1>4

\* An operation that has no event has no row.
LEMMA NoRowYet ==
    ASSUME ProvenanceInv, NEW o \in Operations, EventsOf(o) = {}
    PROVE  \A i \in DOMAIN table : table[i].by # o
  BY DEF ProvenanceInv, TableInv, RowInv
-----------------------------------------------------------------------------
LEMMA TransactKept ==
    ASSUME ProvenanceInv, NEW o \in Operations, Transact(o)
    PROVE  ProvenanceInv'
<1>1. op[o].pc = "asked" /\ backend = "postgres" /\ UNCHANGED <<backend, attempts, listed>>
      /\ \A p \in Operations : op[p].pc \notin {"loaded", "logged"}
  BY DEF Transact, ProvenanceInv, TransactionInv
<1>2. ASSUME NEW label \in {"done", "failed"}, Goes(o, label)
      PROVE  OnlyLabels /\ \A p \in Operations : op'[p].pc \notin {"loaded", "logged"}
  <2>1. OnlyLabels /\ op'[o].pc = label /\ \A p \in Operations \ {o} : op'[p] = op[p]
    BY <1>1, <1>2, OnlyLabelsGoes DEF RequestLabels
  <2> QED
    BY <1>1, <2>1
<1>3. CASE UNCHANGED <<table, log>> /\ (Goes(o, "done") \/ Goes(o, "failed"))
  BY <1>1, <1>2, <1>3, TablesSame
<1>4. ASSUME ~AlreadyDone(o), Goes(o, "done"), log' = Append(log, EventFor(o)), NEW r,
             \/ op[o].action = "create" /\ r = NewRow(o) /\ table' = Append(table, r)
             \/ /\ op[o].action # "create" /\ r = Changed(Now(op[o].of), o)
                /\ table' = [table EXCEPT ![Newest(op[o].of)] = r]
      PROVE  ProvenanceInv'
  <2>1. OnlyLabels /\ EventsOf(o) = {} /\ \A p \in Operations : op'[p].pc \notin {"loaded", "logged"}
    BY <1>2, <1>4 DEF AlreadyDone
  <2>2. /\ log' \in Seq(EventType) /\ LogInv' /\ EventsGrow
        /\ EventsOf(o)' # {} /\ LoggedOf(op[o].of, op[o].action)'
        /\ \A i \in DOMAIN log' : \/ i \in DOMAIN log /\ log'[i] = log[i]
                                \/ log'[i].of = op[o].of
    BY <1>1, <1>4, <2>1, LogAppended
  <2>3. r \in RowType /\ r.by = o /\ r.of = op[o].of /\ RowInv(r)'
    BY <1>1, <1>4, <2>1, <2>2, RowOfOperation
  <2>4. \/ table' = Append(table, r)
        \/ \E i \in DOMAIN table : table[i].of = r.of /\ table' = [table EXCEPT ![i] = r]
    <3>1. CASE op[o].action = "create"
      BY <1>4, <3>1
    <3>2. CASE op[o].action # "create"
      <4>1. Newest(op[o].of) \in RowsOf(op[o].of)
        BY <1>1, <3>2, NewestExists DEF ProvenanceInv, RequestInv
      <4> QED
        BY <1>4, <2>3, <3>2, <4>1 DEF RowsOf
    <3> QED
      BY <3>1, <3>2
  <2>5. \A i \in DOMAIN table : table[i].by # r.by
    BY <2>1, <2>3, NoRowYet
  <2>6. table' \in Seq(RowType) /\ TableInv' /\ RowsGrow /\ RowsOf(r.of)' # {}
    BY <2>1, <2>2, <2>3, <2>4, <2>5, RowStored
  <2>7. \A i \in DOMAIN log' : RowsOf(log[i].of)' # {}
    <3>1. \A i \in DOMAIN log : RowsOf(log[i].of) # {}
      BY <1>1 DEF ProvenanceInv, TransactionInv
    <3>2. RowsOf(op[o].of)' # {}
      BY <2>1, <2>3, <2>6 DEF OnlyLabels
    <3>3. ASSUME NEW i \in DOMAIN log' PROVE RowsOf(log[i].of)' # {}
      <4>1. CASE log'[i].of = op[o].of
        BY <2>1, <3>2, <4>1 DEF RowsOf, OnlyLabels
      <4>2. CASE i \in DOMAIN log /\ log'[i] = log[i]
        <5>1. PICK m : m = log[i].of
          OBVIOUS
        <5>2. RowsOf(m)' # {}
          BY <2>6, <3>1, <4>2, <5>1 DEF RowsGrow
        <5> QED
          BY <4>2, <5>1, <5>2 DEF RowsOf
      <4> QED
        BY <2>2, <4>1, <4>2
    <3> QED
      BY <3>3
  <2>8. TransactionInv'
    BY <2>1, <2>7 DEF TransactionInv
  <2> QED
    BY <1>1, <2>1, <2>2, <2>6, <2>8, PartsSuffice
<1>5. CASE ~AlreadyDone(o) /\ op[o].action = "create"
  BY <1>4, <1>5 DEF Transact
<1>6. CASE ~AlreadyDone(o) /\ op[o].action # "create" /\ HoldGuard(op[o].of, op[o].action)
  BY <1>4, <1>6 DEF Transact, Now
<1> QED
  BY <1>3, <1>5, <1>6 DEF Transact

LEMMA AppendsKept ==
    ASSUME ProvenanceInv, NEW o \in Operations, LogEvent(o) \/ AppendVersion(o)
    PROVE  ProvenanceInv'
<1>1. op[o].pc \in {"loaded", "logged"} /\ UNCHANGED <<backend, attempts, listed>>
  BY DEF LogEvent, AppendVersion
<1>2. backend # "postgres"
  BY <1>1 DEF ProvenanceInv, TransactionInv
<1>3. ASSUME NEW label \in RequestLabels \ {"new"}, Goes(o, label)
      PROVE  OnlyLabels /\ op'[o].pc = label /\ \A p \in Operations \ {o} : op'[p] = op[p]
  BY <1>1, <1>3, OnlyLabelsGoes
<1>4. TransactionInv'
  BY <1>1, <1>2 DEF TransactionInv
<1>5. CASE LogEvent(o)
  <2>1. CASE EventsOf(o) # {}
    <3>1. Goes(o, "logged") /\ UNCHANGED <<table, log>> /\ "logged" \in RequestLabels \ {"new"}
      BY <1>5, <2>1 DEF LogEvent, RequestLabels
    <3>2. OnlyLabels /\ \A p \in Operations \ {o} : op'[p] = op[p]
      BY <1>3, <3>1
    <3> QED
      BY <1>1, <1>2, <2>1, <3>1, <3>2, TablesSame
  <2>2. CASE EventsOf(o) = {} /\ Len(log) = op[o].events
    <3>1. Goes(o, "logged") /\ table' = table /\ log' = Append(log, EventFor(o))
          /\ "logged" \in RequestLabels \ {"new"}
      BY <1>5, <2>2 DEF LogEvent, RequestLabels
    <3>2. OnlyLabels /\ \A p \in Operations \ {o} : op'[p] = op[p]
      BY <1>3, <3>1
    <3>3. log' \in Seq(EventType) /\ LogInv' /\ EventsGrow
      BY <1>1, <2>2, <3>1, <3>2, LogAppended
    <3>4. table' \in Seq(RowType) /\ TableInv' /\ RowsGrow
      BY <3>1, <3>2, <3>3, TableSame
    <3> QED
      BY <1>1, <1>4, <3>2, <3>3, <3>4, PartsSuffice
  <2>3. CASE EventsOf(o) = {} /\ Len(log) # op[o].events
    <3>1. Goes(o, "failed") /\ UNCHANGED <<table, log>> /\ "failed" \in RequestLabels \ {"new"}
      BY <1>5, <2>3 DEF LogEvent, RequestLabels
    <3>2. OnlyLabels /\ op'[o].pc = "failed" /\ \A p \in Operations \ {o} : op'[p] = op[p]
      BY <1>3, <3>1
    <3> QED
      BY <1>1, <1>2, <3>1, <3>2, TablesSame
  <2> QED
    BY <2>1, <2>2, <2>3
<1>6. CASE AppendVersion(o)
  <2>1. op[o].pc = "logged" /\ log' = log /\ EventsOf(o) # {}
    BY <1>6 DEF AppendVersion, ProvenanceInv, LogInv
  <2>2. PICK label \in {"done", "failed"} : Goes(o, label)
    BY <1>6 DEF AppendVersion
  <2>3. OnlyLabels /\ op'[o].pc = label /\ \A p \in Operations \ {o} : op'[p] = op[p]
    BY <1>3, <2>2 DEF RequestLabels
  <2>4. log' \in Seq(EventType) /\ LogInv' /\ EventsGrow
    BY <2>1, <2>3, LogSame
  <2>5. CASE table' = table
    BY <1>1, <1>2, <2>1, <2>3, <2>5, TablesSame
  <2>6. CASE table' # table
    <3>1. PICK r : /\ table' = Append(table, r) /\ ~Versioned(o)
                   /\ \/ op[o].action = "create" /\ r = NewRow(o)
                      \/ op[o].action # "create" /\ r = Changed(Now(op[o].of), o)
      BY <1>6, <2>6 DEF AppendVersion
    <3>2. EventsOf(o)' # {} /\ LoggedOf(op[o].of, op[o].action)'
      <4>1. PICK i \in DOMAIN log : log[i].op = o
        BY <2>1 DEF EventsOf
      <4>2. log[i].of = op[o].of /\ log[i].action = op[o].action
        BY <4>1 DEF ProvenanceInv, LogInv
      <4> QED
        BY <2>1, <2>3, <4>1, <4>2 DEF EventsOf, LoggedOf, OnlyLabels
    <3>3. r \in RowType /\ r.by = o /\ r.of = op[o].of /\ RowInv(r)'
      BY <2>1, <2>3, <2>4, <3>1, <3>2, RowOfOperation
    <3>4. \A i \in DOMAIN table : table[i].by # r.by
      BY <3>1, <3>3 DEF Versioned, RowsOf, ProvenanceInv, TableInv, RowInv
    <3>5. table' \in Seq(RowType) /\ TableInv' /\ RowsGrow
      BY <2>3, <2>4, <3>1, <3>3, <3>4, RowStored
    <3> QED
      BY <1>1, <1>4, <2>3, <2>4, <3>5, PartsSuffice
  <2> QED
    BY <2>5, <2>6
<1> QED
  BY <1>5, <1>6

LEMMA LoadKept ==
    ASSUME ProvenanceInv, NEW o \in Operations, LoadTables(o)
    PROVE  ProvenanceInv'
<1>1. op[o].pc = "asked" /\ backend # "postgres" /\ UNCHANGED <<backend, attempts, table, log, listed>>
  BY DEF LoadTables, memoryTables
<1>2. PICK label \in {"loaded", "failed"} :
         op' = [op EXCEPT ![o].pc = label, ![o].rows = Len(table), ![o].events = Len(log)]
  BY DEF LoadTables
<1>3. /\ op \in [Operations -> RequestRecords] /\ op[o] \in RequestRecords
      /\ Len(table) \in Nat /\ Len(log) \in Nat
  BY DEF ProvenanceInv, ProvenanceType
<1> DEFINE r == [op[o] EXCEPT !.pc = label, !.rows = Len(table), !.events = Len(log)]
<1>4. /\ r \in RequestRecords /\ r.pc = label /\ r.of = op[o].of /\ r.action = op[o].action
      /\ r.at = op[o].at
  BY <1>3 DEF RequestRecords, RequestLabels
<1>5. op' = [op EXCEPT ![o] = r]
  BY <1>2, <1>3
<1> HIDE DEF r
<1>6. op' \in [Operations -> RequestRecords] /\ op'[o] = r
      /\ \A p \in Operations \ {o} : op'[p] = op[p]
  BY <1>3, <1>4, <1>5
<1>7. OnlyLabels
  BY <1>1, <1>4, <1>6 DEF OnlyLabels
<1> QED
  BY <1>1, <1>4, <1>6, <1>7, TablesSame

\* A request is made, or made again; the tables stay.
LEMMA RequestKept ==
    ASSUME ProvenanceInv, NEW o \in Operations, NEW action \in Actions \cup {"create"},
           NEW m \in Memories, RequestOf(o, action, m),
           o \in Memories => action = "create" /\ m = o,
           o \notin Memories => action \in Actions /\ RowsOf(m) # {},
           op[o].pc # "new" => action = op[o].action /\ m = op[o].of,
           UNCHANGED <<backend, table, log>>, listed' \subseteq listed
    PROVE  ProvenanceInv'
<1>1. op \in [Operations -> RequestRecords] /\ attempts \in Nat /\ attempts' = attempts + 1
  BY DEF ProvenanceInv, ProvenanceType, RequestOf
<1> DEFINE r == [action |-> action, of |-> m, at |-> attempts + 1, pc |-> "asked", rows |-> 0,
                 events |-> 0]
<1>2. /\ r \in RequestRecords /\ r.pc = "asked" /\ r.of = m /\ r.action = action
      /\ r.at = attempts + 1
  BY <1>1 DEF RequestRecords, RequestLabels
<1>3. op' = [op EXCEPT ![o] = r]
  BY DEF RequestOf
<1> HIDE DEF r
<1>4. op' \in [Operations -> RequestRecords] /\ op'[o] = r
      /\ \A p \in Operations \ {o} : op'[p] = op[p]
  BY <1>1, <1>2, <1>3
<1>5. /\ \A k : RowsOf(k)' = RowsOf(k) /\ \A p : EventsOf(p)' = EventsOf(p)
      /\ \A k, a : LoggedOf(k, a)' = LoggedOf(k, a)
  BY DEF RowsOf, EventsOf, LoggedOf
<1>6. \A p \in Operations : op[p].pc # "new" =>
          op'[p].pc # "new" /\ op'[p].of = op[p].of /\ op'[p].action = op[p].action
  BY <1>2, <1>4
<1>7. ProvenanceType'
  BY <1>1, <1>4 DEF ProvenanceInv, ProvenanceType
<1>8. RequestInv'
  BY <1>2, <1>4, <1>5 DEF ProvenanceInv, RequestInv
<1>9. LogInv'
  <2>1. ASSUME NEW i \in DOMAIN log
        PROVE  /\ op'[log[i].op].pc # "new" /\ log[i].of = op'[log[i].op].of
               /\ log[i].action = op'[log[i].op].action /\ log[i].at <= attempts'
    <3>1. log[i].op \in Operations /\ log[i].at \in Nat /\ log[i].at <= attempts
      <4>1. log[i] \in EventType /\ log[i].at <= attempts
        BY DEF ProvenanceInv, ProvenanceType, LogInv
      <4> QED
        BY <4>1 DEF EventType
    <3>2. log[i].at <= attempts'
      BY <1>1, <3>1
    <3> QED
      BY <1>6, <3>1, <3>2 DEF ProvenanceInv, LogInv
  <2>2. ASSUME NEW p \in Operations
        PROVE  op'[p].at <= attempts' /\ (op'[p].pc = "logged" => EventsOf(p)' # {})
    <3>1. op[p].at \in Nat /\ op[p].at <= attempts
      BY <1>1 DEF ProvenanceInv, LogInv, RequestRecords
    <3>2. op'[p].at <= attempts'
      BY <1>1, <1>2, <1>4, <3>1
    <3>3. op'[p].pc = "logged" => EventsOf(p) # {}
      BY <1>2, <1>4 DEF ProvenanceInv, LogInv
    <3> QED
      BY <1>5, <3>2, <3>3
  <2>3. \A i, j \in DOMAIN log : log[i].op = log[j].op => i = j
    BY DEF ProvenanceInv, LogInv
  <2> QED
    BY <2>1, <2>2, <2>3 DEF LogInv
<1>10. TableInv'
  <2>1. ASSUME NEW i \in DOMAIN table PROVE RowInv(table[i])'
    <3>1. PICK s \in RowType : s = table[i] /\ RowInv(s)
      BY DEF ProvenanceInv, ProvenanceType, TableInv
    <3>2. s.by \in Operations /\ s.at \in Nat /\ s.at <= attempts
      BY <3>1 DEF RowType, RowInv
    <3>3. s.at <= attempts'
      BY <1>1, <3>2
    <3>4. RowInv(s)'
      BY <1>5, <1>6, <3>1, <3>2, <3>3 DEF RowInv
    <3>5. table'[i] = s
      BY <3>1
    <3> QED
      BY <3>4, <3>5 DEF RowInv
  <2>2. \A i, j \in DOMAIN table : table[i].by = table[j].by => i = j
    BY DEF ProvenanceInv, TableInv
  <2> QED
    BY <2>1, <2>2 DEF TableInv
<1>11. TransactionInv' /\ ListedAreStored'
  BY <1>2, <1>4, <1>5 DEF ProvenanceInv, TransactionInv, ListedAreStored
<1> QED
  BY <1>7, <1>8, <1>9, <1>10, <1>11 DEF ProvenanceInv

LEMMA ProvenanceKept ==
    ProvenanceInv /\ [SharedMemoryNext]_sharedMemoryVars => ProvenanceInv'
<1> SUFFICES ASSUME ProvenanceInv, [SharedMemoryNext]_sharedMemoryVars
             PROVE  ProvenanceInv'
  OBVIOUS
<1>1. ASSUME NEW m \in Memories, AskCommit(m) PROVE ProvenanceInv'
  <2>1. m \in Operations /\ RequestOf(m, "create", m) /\ UNCHANGED <<backend, table, log, listed>>
    BY <1>1 DEF AskCommit, Operations, memoryTables
  <2>2. op[m].pc # "new" => "create" = op[m].action /\ m = op[m].of
    BY <2>1 DEF ProvenanceInv, RequestInv
  <2> QED
    BY <2>1, <2>2, RequestKept
<1>2. \A o \in Requests : o \in Operations /\ o \notin Memories
  BY SharedMemoryAssumption DEF Operations
<1>3. ASSUME NEW o \in Requests, RetryLifecycle(o) PROVE ProvenanceInv'
  <2>1. op[o].pc = "failed" /\ UNCHANGED <<backend, table, log, listed>>
    BY <1>3 DEF RetryLifecycle, memoryTables
  <2>2. PICK action \in Actions, m \in Memories :
            action = op[o].action /\ m = op[o].of /\ RowsOf(m) # {}
    BY <1>2, <2>1 DEF ProvenanceInv, RequestInv
  <2>3. RequestOf(o, action, m)
    BY <1>3, <2>2 DEF RetryLifecycle
  <2> QED
    BY <1>2, <2>1, <2>2, <2>3, RequestKept
<1>4. ASSUME NEW o \in Requests, NEW m \in Memories, Sweep(o, m) PROVE ProvenanceInv'
  <2>1. /\ op[o].pc = "new" /\ RowsOf(m) # {} /\ "delete" \in Actions
        /\ RequestOf(o, "delete", m) /\ UNCHANGED <<backend, table, log>> /\ listed' \subseteq listed
    BY <1>4 DEF Sweep, Fresh, ProvenanceInv, ListedAreStored, Actions, memoryTables
  <2> QED
    BY <1>2, <2>1, RequestKept
<1>5. ASSUME NEW o \in Requests, NEW m \in Memories, NEW action \in Actions,
             AskLifecycle(o, action, m)
      PROVE  ProvenanceInv'
  <2>1. /\ op[o].pc = "new" /\ RowsOf(m) # {} /\ RequestOf(o, action, m)
        /\ UNCHANGED <<backend, table, log, listed>>
    BY <1>5 DEF AskLifecycle, Fresh, memoryTables
  <2> QED
    BY <1>2, <2>1, RequestKept
<1>6. ASSUME UNCHANGED <<backend, attempts, op, table, log>>, \A m \in listed' : RowsOf(m) # {}
      PROVE  ProvenanceInv'
  <2>1. /\ \A k : RowsOf(k)' = RowsOf(k) /\ \A p : EventsOf(p)' = EventsOf(p)
        /\ \A k, a : LoggedOf(k, a)' = LoggedOf(k, a)
    BY <1>6 DEF RowsOf, EventsOf, LoggedOf
  <2>2. ProvenanceType' /\ RequestInv' /\ LogInv' /\ TransactionInv' /\ ListedAreStored'
    BY <1>6, <2>1 DEF ProvenanceInv, ProvenanceType, RequestInv, LogInv, TransactionInv,
                      ListedAreStored
  <2>3. TableInv'
    BY <1>6, <2>1 DEF ProvenanceInv, TableInv, RowInv
  <2> QED
    BY <2>2, <2>3 DEF ProvenanceInv
<1>7. CASE ListExpired
  BY <1>6, <1>7 DEF ListExpired, memoryTables
<1>8. ASSUME NEW o \in Operations, GiveUp(o) PROVE ProvenanceInv'
  <2>1. /\ op[o].pc # "new" /\ Goes(o, "failed") /\ UNCHANGED <<backend, attempts, table, log, listed>>
        /\ "failed" \in RequestLabels \ {"new"}
    BY <1>8 DEF GiveUp, memoryTables, RequestLabels
  <2>2. OnlyLabels /\ op'[o].pc = "failed" /\ \A p \in Operations \ {o} : op'[p] = op[p]
    BY <2>1, OnlyLabelsGoes
  <2>3. \A p \in Operations : /\ op'[p].pc = "logged" => op[p].pc = "logged"
                              /\ op'[p].pc = "loaded" => op[p].pc = "loaded"
    BY <2>2
  <2> QED
    BY <2>1, <2>2, <2>3, TablesSame DEF ProvenanceInv, TransactionInv
<1>9. CASE UNCHANGED sharedMemoryVars
  BY <1>6, <1>9 DEF sharedMemoryVars, memoryTables, ProvenanceInv, ListedAreStored
<1> QED
  BY <1>1, <1>3, <1>4, <1>5, <1>7, <1>8, <1>9, TransactKept, LoadKept, AppendsKept
     DEF SharedMemoryNext

\* A set whose elements are all equal has at most one.
LEMMA AtMostOne ==
    ASSUME NEW S, \A i, j \in S : i = j
    PROVE  Cardinality(S) <= 1
<1>1. CASE S = {}
  BY <1>1, FS_EmptySet
<1>2. CASE S # {}
  <2>1. PICK i \in S : TRUE
    BY <1>2
  <2>2. S = {i}
    BY <2>1
  <2> QED
    <3>1. Cardinality({i}) = 1
      BY FS_Singleton, Zenon
    <3> QED
      BY <2>2, <3>1
<1> QED
  BY <1>1, <1>2

LEMMA ProvenanceShown == ProvenanceInv => ProvenanceFirst
<1> SUFFICES ASSUME ProvenanceInv PROVE ProvenanceFirst
  OBVIOUS
<1>1. backend = "postgres" => Reconciled
  <2>1. backend = "postgres" => OrphanEvents = {}
    BY DEF OrphanEvents, ProvenanceInv, TransactionInv
  <2>2. Uncreated = {}
    BY DEF Uncreated, RowsOf, ProvenanceInv, TableInv, RowInv
  <2>3. LifecycleMismatches = {}
    BY DEF LifecycleMismatches, ProvenanceInv, TableInv, RowInv
  <2> QED
    BY <2>1, <2>2, <2>3 DEF Reconciled
<1>2. \A i \in DOMAIN table : EventsOf(table[i].by) # {}
  BY DEF ProvenanceInv, TableInv, RowInv
<1>3. ASSUME NEW o \in Operations
      PROVE  /\ Cardinality(EventsOf(o)) <= 1
             /\ Cardinality({i \in DOMAIN table : table[i].by = o}) <= 1
  <2>1. \A i, j \in EventsOf(o) : i = j
    BY DEF EventsOf, ProvenanceInv, LogInv
  <2> DEFINE rows == {i \in DOMAIN table : table[i].by = o}
  <2>2. \A i, j \in rows : i = j
    BY DEF ProvenanceInv, TableInv
  <2> HIDE DEF rows
  <2>3. Cardinality(rows) <= 1
    BY <2>2, AtMostOne
  <2> QED
    BY <2>1, <2>3, AtMostOne DEF rows
<1> QED
  BY <1>1, <1>2, <1>3 DEF ProvenanceFirst
-----------------------------------------------------------------------------
\* MemoryUpkeep.

UpkeepCommands == {"none", "migrate", "backup", "restore", "clean restore"}
UpkeepLabels ==
    {"idle", "asked", "migrated", "refused", "dumped", "replaced", "versioned", "digested",
     "backed up", "verified", "opened", "created", "copied", "failed", "finished"}
Databases ==
    [tables : BOOLEAN, policy : BOOLEAN, ids : BOOLEAN, rows : SUBSET StoredRows,
     ledger : BOOLEAN, baseline : {"none", "plain", "isolated"}, second : BOOLEAN]

\* What SchemaAsRecorded asks, of any database.
Recorded(d) ==
    /\ d.baseline # "none" => d.tables
    /\ d.baseline = "isolated" => d.policy
    /\ d.second => d.baseline # "none" /\ d.ids

\* A dump taken without doubt holds a schema as it is recorded.
IsDump(f) == f.kind = "dump" => f.of \in Databases /\ (f.sure => Recorded(f.of))

HoldsDump == {"dumped", "opened", "created", "copied"}
AtRestore == {"opened", "created", "copied"}

\* A command, whatever files it has read.
IsCommand(c) ==
    /\ c \in [command : UpkeepCommands, target : 0 .. 2, yes : BOOLEAN, isolated : BOOLEAN,
              pc : UpkeepLabels, dump : {c.dump}, version : {c.version}, digest : {c.digest}]
    /\ c.command \in {"restore", "clean restore"} => c.yes
    /\ IsDump(c.dump)
    /\ c.pc \in HoldsDump => c.dump.kind = "dump"

\* The schema is as it is recorded where no restore has put it in doubt.
SchemaSound == unsure \in BOOLEAN /\ database \in Databases /\ (~unsure => Recorded(database))

UpkeepInv ==
    /\ isolated \in BOOLEAN
    /\ SchemaSound
    /\ operator = [o \in Operators |-> operator[o]]
    /\ \A o \in Operators : IsCommand(operator[o])
    /\ IsDump(backup)
    /\ \A o \in Operators : operator[o].pc = "verified" => backup.kind = "dump"
    /\ \A o \in Operators : operator[o].pc \in AtRestore => unsure
-----------------------------------------------------------------------------
LEMMA NoCommandIsCommand ==
    ASSUME NEW label \in UpkeepLabels \ HoldsDump
    PROVE  /\ IsCommand([NoCommandYet EXCEPT !.pc = label])
           /\ [NoCommandYet EXCEPT !.pc = label].pc = label
<1>1. PICK no \in BOOLEAN : no = FALSE
  OBVIOUS
<1>2. PICK none : none = NoFileYet
  OBVIOUS
<1>3. NoCommandYet = [command |-> "none", target |-> 0, yes |-> no, isolated |-> no,
                      pc |-> "idle", dump |-> none, version |-> 0, digest |-> none]
  BY <1>1, <1>2, Zenon DEF NoCommandYet
<1>4. none.kind = "none"
  BY <1>2 DEF NoFileYet
<1> DEFINE c == [NoCommandYet EXCEPT !.pc = label]
<1>5. c \in [command : UpkeepCommands, target : 0 .. 2, yes : BOOLEAN, isolated : BOOLEAN,
             pc : UpkeepLabels, dump : {none}, version : {0}, digest : {none}]
  <2>1. label \in UpkeepLabels /\ "none" \in UpkeepCommands
    BY DEF UpkeepCommands
  <2> QED
    BY <1>3, <2>1
<1>6. c.pc = label /\ c.dump = none /\ c.command = "none" /\ c.version = 0 /\ c.digest = none
  BY <1>3
<1> HIDE DEF c
<1>7. IsCommand(c)
  BY <1>4, <1>5, <1>6 DEF IsCommand, IsDump
<1> QED
  BY <1>6, <1>7 DEF c

\* A command that has read a file goes on.
LEMMA FileRead ==
    ASSUME NEW now, IsCommand(now), NEW label \in UpkeepLabels, NEW dump, IsDump(dump),
           label \in HoldsDump => dump.kind = "dump"
    PROVE  /\ IsCommand([now EXCEPT !.pc = label, !.dump = dump])
           /\ [now EXCEPT !.pc = label, !.dump = dump].pc = label
<1> DEFINE c == [now EXCEPT !.pc = label, !.dump = dump]
<1>1. c \in [command : UpkeepCommands, target : 0 .. 2, yes : BOOLEAN, isolated : BOOLEAN,
             pc : UpkeepLabels, dump : {dump}, version : {now.version}, digest : {now.digest}]
  BY DEF IsCommand
<1>2. c.pc = label /\ c.dump = dump /\ c.command = now.command /\ c.yes = now.yes
      /\ c.version = now.version /\ c.digest = now.digest
  BY DEF IsCommand
<1> HIDE DEF c
<1>3. IsCommand(c)
  BY <1>1, <1>2 DEF IsCommand
<1> QED
  BY <1>2, <1>3 DEF c

LEMMA NoTablesSound ==
    /\ NoTables \in Databases /\ Recorded(NoTables) /\ NoTables.rows = {}
    /\ \A b \in BOOLEAN : /\ [NoTables EXCEPT !.ledger = b] \in Databases
                         /\ Recorded([NoTables EXCEPT !.ledger = b])
<1>1. PICK no \in BOOLEAN : no = FALSE
  OBVIOUS
<1>2. NoTables = [tables |-> no, policy |-> no, ids |-> no, rows |-> {}, ledger |-> no,
                  baseline |-> "none", second |-> no]
  BY <1>1, Zenon DEF NoTables
<1> QED
  BY <1>1, <1>2 DEF Databases, Recorded

LEMMA InitUpkeepInv == UpkeepInit => UpkeepInv
<1> SUFFICES ASSUME UpkeepInit PROVE UpkeepInv
  OBVIOUS
<1>1. database \in Databases /\ Recorded(database)
  <2>1. CASE database = NoTables
    BY <2>1, NoTablesSound
  <2>2. ASSUME NEW policy \in BOOLEAN, NEW rows \in SUBSET StoredRows,
               database = [NoTables EXCEPT !.tables = TRUE, !.policy = policy, !.rows = rows]
        PROVE  database \in Databases /\ Recorded(database)
    <3>1. NoTables.baseline = "none" /\ ~NoTables.second
      BY DEF NoTables
    <3> QED
      BY <2>2, <3>1, NoTablesSound DEF Databases, Recorded
  <2> QED
    BY <2>1, <2>2 DEF UpkeepInit
<1>3. IsCommand(NoCommandYet) /\ NoCommandYet.pc = "idle"
  <2>1. NoCommandYet.pc = "idle"
    BY DEF NoCommandYet
  <2>2. [NoCommandYet EXCEPT !.pc = "idle"] = NoCommandYet
    <3> HIDE DEF NoCommandYet
    <3>1. PICK none : none = NoFileYet
      OBVIOUS
    <3>2. PICK no \in BOOLEAN : no = FALSE
      OBVIOUS
    <3>3. NoCommandYet = [command |-> "none", target |-> 0, yes |-> no, isolated |-> no,
                          pc |-> "idle", dump |-> none, version |-> 0, digest |-> none]
      BY <3>1, <3>2, Zenon DEF NoCommandYet
    <3> QED
      BY <3>3
  <2>3. "idle" \in UpkeepLabels \ HoldsDump
    BY DEF UpkeepLabels, HoldsDump
  <2> QED
    BY <2>1, <2>2, <2>3, NoCommandIsCommand
<1>5. IsDump(backup)
  BY DEF UpkeepInit, NoFileYet, IsDump
<1>6. operator = [o \in Operators |-> NoCommandYet] /\ isolated \in BOOLEAN /\ unsure = FALSE
  BY DEF UpkeepInit
<1>7. SchemaSound
  BY <1>1, <1>6 DEF SchemaSound
<1> QED
  BY <1>3, <1>5, <1>6, <1>7 DEF UpkeepInv, AtRestore

\* A process turns to a command.
TurnsTo(o, c) == operator' = [operator EXCEPT ![o] = c]

LEMMA OperatorKept ==
    ASSUME UpkeepInv, NEW o \in Operators, NEW c, TurnsTo(o, c), IsCommand(c),
           c.pc = "verified" => backup'.kind = "dump",
           Runs(o, "migrate", "asked") /\ c.pc = "migrated" /\ operator[o].isolated
             /\ operator[o].target >= 1 /\ ~unsure => database'.policy,
           UNCHANGED isolated, IsDump(backup'), backup.kind = "dump" => backup'.kind = "dump",
           SchemaSound', c.pc \in AtRestore => unsure',
           \A p \in Operators \ {o} : operator[p].pc \in AtRestore => unsure'
    PROVE  UpkeepInv' /\ IsolationInForce
<1>1. /\ operator' = [p \in Operators |-> operator'[p]]
      /\ operator'[o] = c
      /\ \A p \in Operators \ {o} : operator'[p] = operator[p]
  BY DEF TurnsTo, UpkeepInv
<1>2. ASSUME NEW p \in Operators
      PROVE  /\ IsCommand(operator'[p])
             /\ operator'[p].pc = "verified" => backup'.kind = "dump"
             /\ operator'[p].pc \in AtRestore => unsure'
  BY <1>1 DEF UpkeepInv
<1>3. UpkeepInv'
  <2>1. \A p \in Operators : IsCommand(operator'[p])
    BY <1>2
  <2> QED
    BY <1>1, <1>2, <2>1 DEF UpkeepInv
<1>4. IsolationInForce
  BY <1>1 DEF IsolationInForce, Runs
<1> QED
  BY <1>3, <1>4

\* Whatever the record says, a migration leaves a database and its rows.
LEMMA SchemaTyped ==
    ASSUME NEW d \in Databases, NEW target \in 0 .. 2, NEW checksum \in {"plain", "isolated"}
    PROVE  /\ WithBaseline(d, checksum) \in Databases
           /\ WithBaseline(d, checksum).rows = d.rows
           /\ Upgraded(d, target, checksum) \in Databases
           /\ Upgraded(d, target, checksum).rows = d.rows
           /\ RolledBackTo(d, target) \in Databases
           /\ target >= 1 => RolledBackTo(d, target).policy = d.policy
                             /\ RolledBackTo(d, target).rows = d.rows
<1> DEFINE e == WithBaseline(d, checksum)
<1>1. e \in Databases /\ e.rows = d.rows
  <2>1. CASE Current(d) >= 1
    BY <2>1 DEF WithBaseline
  <2>2. CASE ~(Current(d) >= 1)
    <3> DEFINE policy == d.policy \/ checksum = "isolated"
    <3>1. e = [d EXCEPT !.tables = TRUE, !.ledger = TRUE, !.baseline = checksum,
                        !.policy = policy]
      BY <2>2 DEF WithBaseline
    <3>2. policy \in BOOLEAN
      OBVIOUS
    <3> HIDE DEF policy
    <3> QED
      BY <3>1, <3>2 DEF Databases
  <2> QED
    BY <2>1, <2>2
<1> HIDE DEF e
<1>2. Upgraded(d, target, checksum)
        = IF target < 2 THEN e ELSE [e EXCEPT !.ids = TRUE, !.second = TRUE]
  BY DEF Upgraded, e
<1>3. [e EXCEPT !.ids = TRUE, !.second = TRUE] \in Databases
      /\ [e EXCEPT !.ids = TRUE, !.second = TRUE].rows = d.rows
  BY <1>1 DEF Databases
<1>4. /\ RolledBackTo(d, target) \in Databases
      /\ target >= 1 => RolledBackTo(d, target).policy = d.policy
                        /\ RolledBackTo(d, target).rows = d.rows
  <2>1. CASE target < 1
    <3>1. d.ledger \in BOOLEAN
      BY DEF Databases
    <3> QED
      BY <2>1, <3>1, NoTablesSound DEF RolledBackTo
  <2>2. CASE ~(target < 1)
    <3>1. RolledBackTo(d, target) = [d EXCEPT !.ids = FALSE, !.second = FALSE]
      BY <2>2 DEF RolledBackTo
    <3> QED
      BY <3>1 DEF Databases
  <2> QED
    BY <2>1, <2>2
<1>5. Upgraded(d, target, checksum) \in Databases /\ Upgraded(d, target, checksum).rows = d.rows
  BY <1>1, <1>2, <1>3
<1> QED
  BY <1>1, <1>4, <1>5 DEF e

\* A record that is true stays true.
LEMMA WithBaselineSound ==
    ASSUME NEW d \in Databases, Recorded(d), NEW checksum \in {"plain", "isolated"},
           d.baseline \in {"none", checksum}
    PROVE  LET e == WithBaseline(d, checksum)
           IN /\ Recorded(e) /\ e.baseline # "none"
              /\ checksum = "isolated" => e.policy
<1>1. CASE Current(d) >= 1
  BY <1>1 DEF WithBaseline, Current, Recorded
<1>2. CASE ~(Current(d) >= 1)
  <2> DEFINE policy == d.policy \/ checksum = "isolated"
  <2>1. WithBaseline(d, checksum) = [d EXCEPT !.tables = TRUE, !.ledger = TRUE,
                                              !.baseline = checksum, !.policy = policy]
    BY <1>2 DEF WithBaseline
  <2>2. policy \in BOOLEAN /\ (checksum = "isolated" => policy)
    OBVIOUS
  <2>3. d.baseline = "none" /\ ~d.second
    BY <1>2 DEF Current, Databases, Recorded
  <2> HIDE DEF policy
  <2> QED
    BY <2>1, <2>2, <2>3 DEF Databases, Recorded
<1> QED
  BY <1>1, <1>2

LEMMA SchemaKept ==
    ASSUME NEW d \in Databases, Recorded(d), NEW target \in 0 .. 2,
           NEW checksum \in {"plain", "isolated"}, d.baseline \in {"none", checksum}
    PROVE  /\ Recorded(Upgraded(d, target, checksum))
           /\ checksum = "isolated" => Upgraded(d, target, checksum).policy
           /\ Recorded(RolledBackTo(d, target))
<1> DEFINE e == WithBaseline(d, checksum)
<1>1. /\ e \in Databases /\ Recorded(e) /\ e.baseline # "none"
      /\ checksum = "isolated" => e.policy
  BY WithBaselineSound, SchemaTyped
<1> HIDE DEF e
<1>2. Upgraded(d, target, checksum)
        = IF target < 2 THEN e ELSE [e EXCEPT !.ids = TRUE, !.second = TRUE]
  BY DEF Upgraded, e
<1>3. /\ Recorded(Upgraded(d, target, checksum))
      /\ checksum = "isolated" => Upgraded(d, target, checksum).policy
  <2>1. CASE target < 2
    BY <1>1, <1>2, <2>1
  <2>2. CASE target >= 2
    <3> DEFINE u == Upgraded(d, target, checksum)
    <3>1. u = [e EXCEPT !.ids = TRUE, !.second = TRUE]
      BY <1>2, <2>2
    <3> HIDE DEF u
    <3>2. /\ u.baseline = e.baseline /\ u.tables = e.tables
          /\ u.policy = e.policy /\ u.ids
      BY <1>1, <3>1 DEF Databases
    <3>3. Recorded(u)
      BY <1>1, <3>2 DEF Recorded
    <3> QED
      BY <1>1, <3>2, <3>3 DEF u
  <2> QED
    BY <2>1, <2>2
<1>4. Recorded(RolledBackTo(d, target))
  <2>1. CASE target < 1
    <3>1. d.ledger \in BOOLEAN
      BY DEF Databases
    <3> QED
      BY <2>1, <3>1, NoTablesSound DEF RolledBackTo
  <2>2. CASE ~(target < 1)
    <3>1. RolledBackTo(d, target) = [d EXCEPT !.ids = FALSE, !.second = FALSE]
      BY <2>2 DEF RolledBackTo
    <3> QED
      BY <3>1 DEF Databases, Recorded
  <2> QED
    BY <2>1, <2>2
<1> QED
  BY <1>3, <1>4

LEMMA MigrateKept ==
    ASSUME UpkeepInv, NEW o \in Operators, Migrate(o)
    PROVE  UpkeepInv' /\ IsolationInForce /\ RowsKept
<1> DEFINE target == operator[o].target
<1> DEFINE current == Current(database)
<1>0. IsCommand(operator[o])
  BY DEF UpkeepInv
<1>1. /\ IsCommand(operator[o]) /\ target \in 0 .. 2 /\ current \in 0 .. 2
      /\ operator[o].command = "migrate" /\ operator[o].pc = "asked"
      /\ operator[o].isolated \in BOOLEAN /\ operator[o].yes \in BOOLEAN
  BY <1>0 DEF IsCommand, Current, Migrate, Runs
<1>2. Wanted(o) \in {"plain", "isolated"} /\ (operator[o].isolated => Wanted(o) = "isolated")
  BY DEF Wanted
<1>3. /\ database \in Databases /\ database.baseline \in {"none", Wanted(o)}
      /\ unsure \in BOOLEAN /\ UNCHANGED unsure /\ (~unsure => Recorded(database))
  BY DEF UpkeepInv, SchemaSound, Migrate, MigrationRefused, Mismatch, Databases
<1>4. database' = IF target > current THEN Upgraded(database, target, Wanted(o))
                  ELSE IF target < current THEN RolledBackTo(database, target)
                  ELSE database
  BY DEF Migrate
<1>5. /\ database' \in Databases
      /\ database.rows \subseteq database'.rows \/ (target < current /\ target < 1)
  <2>1. CASE target > current
    BY <1>1, <1>2, <1>3, <1>4, <2>1, SchemaTyped
  <2>2. CASE target < current
    BY <1>1, <1>2, <1>3, <1>4, <2>2, SchemaTyped
  <2>3. CASE target = current
    BY <1>1, <1>3, <1>4, <2>3
  <2> QED
    BY <1>1, <2>1, <2>2, <2>3
<1>11. ASSUME ~unsure
       PROVE  Recorded(database') /\ (operator[o].isolated /\ target >= 1 => database'.policy)
  <2>0. Recorded(database)
    BY <1>3, <1>11
  <2>1. CASE target > current
    BY <1>1, <1>2, <1>3, <1>4, <2>0, <2>1, SchemaKept
  <2>2. CASE target < current
    <3>1. target >= 1 /\ operator[o].isolated => database.policy
      BY <1>1, <1>2, <1>3, <2>0, <2>2 DEF Current, Recorded
    <3>2. database' = RolledBackTo(database, target)
      BY <1>1, <1>4, <2>2
    <3> QED
      BY <1>1, <1>2, <1>3, <2>0, <3>1, <3>2, SchemaKept, SchemaTyped
  <2>3. CASE target = current
    <3>1. database' = database
      BY <1>1, <1>4, <2>3
    <3>2. target >= 1 /\ operator[o].isolated => database.policy
      BY <1>1, <1>2, <1>3, <2>0, <2>3 DEF Current, Recorded
    <3> QED
      BY <2>0, <3>1, <3>2
  <2> QED
    BY <1>1, <2>1, <2>2, <2>3
<1>12. SchemaSound'
  BY <1>3, <1>5, <1>11 DEF SchemaSound
<1>6. RowsKept
  <2>1. target < current /\ target < 1 => operator[o].yes
    BY <1>1 DEF Migrate, MigrationRefused, Unauthorised
  <2> QED
    BY <1>1, <1>5, <2>1 DEF RowsKept
<1> DEFINE c == [NoCommandYet EXCEPT !.pc = "migrated"]
<1>7. IsCommand(c) /\ c.pc = "migrated"
  BY NoCommandIsCommand DEF UpkeepLabels, HoldsDump
<1>8. TurnsTo(o, c) /\ UNCHANGED <<isolated, backup>>
  BY DEF Migrate, Ends, TurnsTo
<1> HIDE DEF c
<1>9. UpkeepInv' /\ IsolationInForce
  <2>1. \A p \in Operators \ {o} : operator[p].pc \in AtRestore => unsure'
    BY <1>3 DEF UpkeepInv
  <2>2. "migrated" \notin AtRestore /\ "migrated" # "verified"
    BY DEF AtRestore
  <2> QED
    BY <1>7, <1>8, <1>11, <1>12, <2>1, <2>2, OperatorKept DEF UpkeepInv
<1> QED
  BY <1>6, <1>9

\* Steps of a command that leave the database as it is.
LEMMA QuietKept ==
    ASSUME UpkeepInv, NEW o \in Operators, NEW c, TurnsTo(o, c), IsCommand(c),
           c.pc # "migrated", c.pc = "verified" => backup'.kind = "dump",
           c.pc \notin AtRestore,
           UNCHANGED <<isolated, database, unsure>>, IsDump(backup'),
           backup.kind = "dump" => backup'.kind = "dump"
    PROVE  UpkeepInv' /\ IsolationInForce /\ RowsKept
<1>1. RowsKept
  BY DEF RowsKept
<1>2. SchemaSound' /\ \A p \in Operators \ {o} : operator[p].pc \in AtRestore => unsure'
  BY DEF UpkeepInv, SchemaSound
<1> QED
  BY <1>1, <1>2, OperatorKept

LEMMA BeginsKept ==
    ASSUME UpkeepInv, NEW o \in Operators, NEW command \in UpkeepCommands, NEW target \in 0 .. 2,
           NEW yes \in BOOLEAN, command \in {"restore", "clean restore"} => yes,
           Begins(o, command, target, yes),
           UNCHANGED <<isolated, database, backup, manifest, unsure>>
    PROVE  UpkeepInv' /\ IsolationInForce /\ RowsKept
<1> DEFINE c == [NoCommandYet EXCEPT !.command = command, !.target = target, !.yes = yes,
                                     !.isolated = isolated, !.pc = "asked"]
<1>1. TurnsTo(o, c)
  BY DEF Begins, TurnsTo
<1>2. PICK none : none = NoFileYet
  OBVIOUS
<1>3. PICK no \in BOOLEAN : no = FALSE
  OBVIOUS
<1>4. NoCommandYet = [command |-> "none", target |-> 0, yes |-> no, isolated |-> no,
                      pc |-> "idle", dump |-> none, version |-> 0, digest |-> none]
  BY <1>2, <1>3, Zenon DEF NoCommandYet
<1>5. none.kind = "none" /\ isolated \in BOOLEAN
  BY <1>2 DEF NoFileYet, UpkeepInv
<1>6. IsCommand(c) /\ c.pc = "asked"
  BY <1>4, <1>5 DEF IsCommand, IsDump, UpkeepLabels, HoldsDump
<1> HIDE DEF c
<1> QED
  BY <1>1, <1>6, QuietKept DEF UpkeepInv, AtRestore

\* A command ends without a change to the database.
LEMMA EndsKept ==
    ASSUME UpkeepInv, NEW o \in Operators, Ends(o, "refused") \/ Ends(o, "failed") \/ Ends(o, "backed up"),
           UNCHANGED <<isolated, database, backup, unsure>>
    PROVE  UpkeepInv' /\ IsolationInForce /\ RowsKept
<1>1. PICK label \in {"refused", "failed", "backed up"} : Ends(o, label)
  OBVIOUS
<1> DEFINE c == [NoCommandYet EXCEPT !.pc = label]
<1>2. IsCommand(c) /\ c.pc = label
  BY NoCommandIsCommand DEF UpkeepLabels, HoldsDump
<1>3. TurnsTo(o, c)
  BY <1>1 DEF Ends, TurnsTo
<1> HIDE DEF c
<1> QED
  BY <1>2, <1>3, QuietKept DEF UpkeepInv, AtRestore

LEMMA BackupKept ==
    ASSUME UpkeepInv, NEW o \in Operators,
           \/ DumpDatabase(o) \/ ReplaceBackup(o) \/ ReadVersion(o) \/ DigestBackup(o)
    PROVE  UpkeepInv' /\ IsolationInForce /\ RowsKept
<1> DEFINE now == operator[o]
<1>1. IsCommand(now) /\ IsDump(backup) /\ SchemaSound
  BY DEF UpkeepInv
<1>2. ASSUME DumpDatabase(o) PROVE UpkeepInv' /\ IsolationInForce /\ RowsKept
  <2> DEFINE sure == ~unsure
  <2> HIDE DEF sure
  <2> DEFINE dump == [kind |-> "dump", of |-> database, sure |-> sure]
  <2>1. IsDump(dump) /\ dump.kind = "dump"
    <3>1. database \in Databases /\ (sure => Recorded(database))
      BY <1>1 DEF SchemaSound, sure
    <3> QED
      BY <3>1 DEF IsDump
  <2>2. now.command = "backup" /\ UNCHANGED <<isolated, database, backup, unsure>>
    BY <1>2 DEF DumpDatabase, Runs
  <2>3. TurnsTo(o, [now EXCEPT !.pc = "dumped", !.dump = dump])
    BY <1>2, Zenon DEF DumpDatabase, UpkeepInv, TurnsTo, sure
  <2> HIDE DEF dump
  <2> DEFINE c == [now EXCEPT !.pc = "dumped", !.dump = dump]
  <2>4. IsCommand(c) /\ c.pc = "dumped"
    <3>1. "dumped" \in UpkeepLabels
      BY DEF UpkeepLabels
    <3>2. IsCommand(now)
      BY <1>1
    <3> HIDE DEF now
    <3> QED
      BY <2>1, <3>1, <3>2, FileRead
  <2> HIDE DEF c
  <2>5. TurnsTo(o, c)
    BY <2>3 DEF c
  <2> QED
    BY <1>1, <2>2, <2>4, <2>5, QuietKept DEF AtRestore
<1>3. ASSUME ReplaceBackup(o) PROVE UpkeepInv' /\ IsolationInForce /\ RowsKept
  <2>1. now.command = "backup" /\ now.pc = "dumped" /\ UNCHANGED <<isolated, database, unsure>>
        /\ backup' = now.dump
    BY <1>3 DEF ReplaceBackup, Runs
  <2>2. backup'.kind = "dump" /\ IsDump(backup')
    BY <1>1, <2>1 DEF IsCommand, HoldsDump
  <2>3. TurnsTo(o, [now EXCEPT !.pc = "replaced"])
    BY <1>3 DEF ReplaceBackup, Reaches, UpkeepInv, TurnsTo
  <2> DEFINE c == [now EXCEPT !.pc = "replaced"]
  <2>4. IsCommand(c) /\ c.pc = "replaced"
    BY <1>1 DEF IsCommand, UpkeepLabels, HoldsDump
  <2> HIDE DEF c
  <2>5. TurnsTo(o, c)
    BY <2>3 DEF c
  <2> QED
    BY <2>1, <2>2, <2>4, <2>5, QuietKept DEF AtRestore
<1>4. ASSUME ReadVersion(o) PROVE UpkeepInv' /\ IsolationInForce /\ RowsKept
  <2> DEFINE version == Current(database)
  <2>1. TurnsTo(o, [now EXCEPT !.pc = "versioned", !.version = version])
        /\ UNCHANGED <<isolated, database, backup, unsure>>
    BY <1>4 DEF ReadVersion, UpkeepInv, TurnsTo
  <2> HIDE DEF version
  <2> DEFINE c == [now EXCEPT !.pc = "versioned", !.version = version]
  <2>2. c \in [command : UpkeepCommands, target : 0 .. 2, yes : BOOLEAN, isolated : BOOLEAN,
               pc : UpkeepLabels, dump : {now.dump}, version : {version},
               digest : {now.digest}]
    BY <1>1 DEF IsCommand, UpkeepLabels
  <2>3. c.pc = "versioned" /\ c.dump = now.dump /\ c.command = now.command /\ c.yes = now.yes
        /\ c.version = version /\ c.digest = now.digest
    BY <1>1 DEF IsCommand
  <2> HIDE DEF c
  <2>4. IsCommand(c)
    BY <1>1, <2>2, <2>3 DEF IsCommand, HoldsDump
  <2>5. TurnsTo(o, c)
    BY <2>1 DEF c
  <2> QED
    BY <1>1, <2>1, <2>3, <2>4, <2>5, QuietKept DEF AtRestore
<1>5. ASSUME DigestBackup(o) PROVE UpkeepInv' /\ IsolationInForce /\ RowsKept
  <2>1. TurnsTo(o, [now EXCEPT !.pc = "digested", !.digest = backup])
        /\ UNCHANGED <<isolated, database, backup, unsure>>
    BY <1>5 DEF DigestBackup, UpkeepInv, TurnsTo
  <2> DEFINE c == [now EXCEPT !.pc = "digested", !.digest = backup]
  <2>2. c \in [command : UpkeepCommands, target : 0 .. 2, yes : BOOLEAN, isolated : BOOLEAN,
               pc : UpkeepLabels, dump : {now.dump}, version : {now.version},
               digest : {backup}]
    BY <1>1 DEF IsCommand, UpkeepLabels
  <2>3. c.pc = "digested" /\ c.dump = now.dump /\ c.command = now.command /\ c.yes = now.yes
        /\ c.version = now.version /\ c.digest = backup
    BY <1>1 DEF IsCommand
  <2> HIDE DEF c
  <2>4. IsCommand(c)
    BY <1>1, <2>2, <2>3 DEF IsCommand, HoldsDump
  <2>5. TurnsTo(o, c)
    BY <2>1 DEF c
  <2> QED
    BY <1>1, <2>1, <2>3, <2>4, <2>5, QuietKept DEF AtRestore
<1> QED
  BY <1>2, <1>3, <1>4, <1>5

LEMMA VerifyKept ==
    ASSUME UpkeepInv, NEW o \in Operators, VerifyBackup(o)
    PROVE  UpkeepInv' /\ IsolationInForce /\ RowsKept
<1>1. IsCommand(operator[o]) /\ UNCHANGED <<isolated, database, backup, unsure>> /\ IsDump(backup)
  BY DEF UpkeepInv, VerifyBackup
<1>2. CASE ~Verified
  BY <1>1, <1>2, EndsKept DEF VerifyBackup
<1>3. CASE Verified
  <2> DEFINE c == [operator[o] EXCEPT !.pc = "verified"]
  <2>1. IsCommand(c) /\ c.pc = "verified"
    BY <1>1 DEF IsCommand, UpkeepLabels, HoldsDump
  <2>2. TurnsTo(o, c) /\ backup.kind = "dump"
    BY <1>3 DEF VerifyBackup, Verified, Reaches, UpkeepInv, TurnsTo
  <2> HIDE DEF c
  <2> QED
    BY <1>1, <2>1, <2>2, QuietKept DEF AtRestore
<1> QED
  BY <1>2, <1>3

\* Each statement of a restore leaves a database.
LEMMA RestoreTyped ==
    ASSUME NEW d \in Databases, NEW archive \in Databases
    PROVE  /\ Cleared(d, archive) \in Databases
           /\ WithTables(d, archive) \in Databases
           /\ WithRows(d, archive, {}) \in Databases
           /\ WithRows(d, archive, archive.rows) \in Databases
<1>1. Cleared(d, archive) \in Databases
  BY DEF Cleared, Databases
<1>2. WithTables(d, archive) \in Databases
  <2> DEFINE schema == IF archive.tables /\ ~d.tables
                       THEN [d EXCEPT !.tables = TRUE, !.ids = archive.ids] ELSE d
  <2> DEFINE ledger == schema.ledger \/ archive.ledger
  <2>1. schema \in Databases
    BY DEF Databases
  <2>2. ledger \in BOOLEAN
    OBVIOUS
  <2>3. WithTables(d, archive) = [schema EXCEPT !.ledger = ledger]
    BY DEF WithTables
  <2> HIDE DEF schema, ledger
  <2> QED
    BY <2>1, <2>2, <2>3 DEF Databases
<1>3. ASSUME NEW copied \in SUBSET StoredRows PROVE WithRows(d, archive, copied) \in Databases
  <2> DEFINE rows == d.rows \union copied
  <2>1. rows \in SUBSET StoredRows
    BY DEF Databases
  <2> DEFINE filled == [d EXCEPT !.rows = rows]
  <2>2. WithRows(d, archive, copied)
          = IF d.ledger /\ d.baseline = "none"
            THEN [filled EXCEPT !.baseline = archive.baseline, !.second = archive.second]
            ELSE filled
    BY DEF WithRows
  <2> HIDE DEF rows
  <2>3. filled \in Databases
    BY <2>1 DEF Databases
  <2> HIDE DEF filled
  <2> QED
    BY <2>2, <2>3 DEF Databases
<1> QED
  BY <1>1, <1>2, <1>3 DEF Databases

LEMMA RestoreKept ==
    ASSUME UpkeepInv, NEW o \in Operators,
           OpenBackup(o) \/ RestoreTables(o) \/ RestoreRows(o) \/ RestorePolicy(o)
    PROVE  UpkeepInv' /\ IsolationInForce /\ RowsKept
<1> DEFINE now == operator[o]
<1>1. IsCommand(now) /\ IsDump(backup) /\ SchemaSound /\ database \in Databases
  BY DEF UpkeepInv, SchemaSound
<1>2. now.command \in {"restore", "clean restore"} /\ now.yes /\ UNCHANGED <<isolated, backup>>
  BY <1>1 DEF OpenBackup, RestoreTables, RestoreRows, RestorePolicy, Restores, Runs, IsCommand
<1>3. RowsKept
  BY <1>2 DEF RowsKept
<1>4. ASSUME NEW c, TurnsTo(o, c), IsCommand(c), c.pc \notin {"verified", "migrated"},
             SchemaSound', c.pc \in AtRestore => unsure',
             \A p \in Operators \ {o} : operator[p].pc \in AtRestore => unsure'
      PROVE  UpkeepInv' /\ IsolationInForce
  BY <1>1, <1>2, <1>4, OperatorKept
<1>5. ASSUME OpenBackup(o) PROVE UpkeepInv' /\ IsolationInForce
  <2>1. now.pc = "verified" /\ unsure' = TRUE
    BY <1>5 DEF OpenBackup, Runs
  <2>2. backup.kind = "dump" /\ backup.of \in Databases
    BY <1>1, <2>1 DEF UpkeepInv, IsDump
  <2>3. SchemaSound'
    <3>1. database' \in {database, Cleared(database, backup.of)}
      BY <1>5 DEF OpenBackup
    <3> QED
      BY <1>1, <2>1, <2>2, <3>1, RestoreTyped DEF SchemaSound
  <2>4. TurnsTo(o, [now EXCEPT !.pc = "opened", !.dump = backup])
    BY <1>5 DEF OpenBackup, UpkeepInv, TurnsTo
  <2> DEFINE c == [now EXCEPT !.pc = "opened", !.dump = backup]
  <2>5. IsCommand(c) /\ c.pc = "opened"
    <3>1. "opened" \in UpkeepLabels
      BY DEF UpkeepLabels
    <3>2. IsCommand(now) /\ IsDump(backup)
      BY <1>1
    <3> HIDE DEF now
    <3> QED
      BY <2>2, <3>1, <3>2, FileRead
  <2> HIDE DEF c
  <2>6. TurnsTo(o, c)
    BY <2>4 DEF c
  <2> QED
    BY <1>4, <2>1, <2>3, <2>5, <2>6
<1>6. ASSUME now.pc \in AtRestore PROVE now.dump.of \in Databases
                                       /\ (now.dump.sure => Recorded(now.dump.of))
  BY <1>1, <1>6 DEF AtRestore, HoldsDump, IsCommand, IsDump
<1>7. ASSUME NEW label \in {"created", "copied"}, Reaches(o, label), UNCHANGED unsure,
             now.pc \in AtRestore, database' \in Databases
      PROVE  UpkeepInv' /\ IsolationInForce
  <2> DEFINE c == [now EXCEPT !.pc = label]
  <2>1. TurnsTo(o, c)
    BY <1>7 DEF Reaches, UpkeepInv, TurnsTo
  <2>2. IsCommand(c) /\ c.pc = label
    BY <1>1, <1>7 DEF IsCommand, UpkeepLabels, HoldsDump, AtRestore
  <2> HIDE DEF c
  <2>3. unsure' /\ unsure' = unsure /\ unsure
    BY <1>7 DEF UpkeepInv, SchemaSound
  <2>4. SchemaSound'
    BY <1>1, <1>7, <2>3 DEF SchemaSound
  <2> QED
    BY <1>4, <2>1, <2>2, <2>3, <2>4
<1>8. ASSUME RestoreTables(o) PROVE UpkeepInv' /\ IsolationInForce
  <2>1. now.pc = "opened" /\ Reaches(o, "created") /\ UNCHANGED unsure
        /\ database' = WithTables(database, now.dump.of)
    BY <1>8 DEF RestoreTables, Restores, Runs
  <2>2. database' \in Databases
    BY <1>1, <1>6, <2>1, RestoreTyped DEF AtRestore
  <2> QED
    BY <1>7, <2>1, <2>2 DEF AtRestore
<1>9. ASSUME RestoreRows(o) PROVE UpkeepInv' /\ IsolationInForce
  <2>1. now.pc = "created" /\ Reaches(o, "copied") /\ UNCHANGED unsure
    BY <1>9 DEF RestoreRows, Restores, Runs
  <2>2. PICK copied \in {{}, now.dump.of.rows} :
              database' = WithRows(database, now.dump.of, copied)
    BY <1>9 DEF RestoreRows
  <2>3. database' \in Databases
    BY <1>1, <1>6, <2>1, <2>2, RestoreTyped DEF AtRestore
  <2> QED
    BY <1>7, <2>1, <2>3 DEF AtRestore
<1>10. ASSUME RestorePolicy(o) PROVE UpkeepInv' /\ IsolationInForce
  <2>1. now.pc = "copied" /\ Ends(o, "finished")
    BY <1>10 DEF RestorePolicy, Restores, Runs
  <2>2. database' \in Databases
    <3> DEFINE policy == database.policy \/ (database.tables /\ now.dump.of.policy)
    <3>1. database' = [database EXCEPT !.policy = policy]
      BY <1>10 DEF RestorePolicy
    <3>2. policy \in BOOLEAN
      OBVIOUS
    <3> HIDE DEF policy
    <3> QED
      BY <1>1, <3>1, <3>2 DEF Databases
  <2>3. /\ unsure' \in BOOLEAN
        /\ ~unsure' => /\ now.dump.sure
                       /\ SchemaOf(database') = SchemaOf(now.dump.of)
                       /\ \A p \in Operators \ {o} :
                             operator[p].pc \notin {"opened", "created", "copied"}
    BY <1>10 DEF RestorePolicy
  <2>4. SchemaSound'
    <3>1. ASSUME ~unsure' PROVE Recorded(database')
      <4>1. Recorded(now.dump.of)
        BY <1>6, <2>1, <2>3, <3>1 DEF AtRestore
      <4>2. SchemaOf(database') = SchemaOf(now.dump.of)
        BY <2>3, <3>1
      <4> QED
        BY <4>1, <4>2 DEF SchemaOf, Recorded
    <3> QED
      BY <2>2, <2>3, <3>1 DEF SchemaSound
  <2> DEFINE c == [NoCommandYet EXCEPT !.pc = "finished"]
  <2>5. IsCommand(c) /\ c.pc = "finished"
    BY NoCommandIsCommand DEF UpkeepLabels, HoldsDump
  <2>6. TurnsTo(o, c)
    BY <2>1 DEF Ends, TurnsTo
  <2> HIDE DEF c
  <2>7. \A p \in Operators \ {o} : operator[p].pc \in AtRestore => unsure'
    BY <2>3 DEF AtRestore
  <2> QED
    BY <1>4, <2>4, <2>5, <2>6, <2>7 DEF AtRestore
<1> QED
  BY <1>3, <1>5, <1>8, <1>9, <1>10

LEMMA UpkeepInvPreserved ==
    UpkeepInv /\ [UpkeepNext]_upkeepVars => UpkeepInv' /\ IsolationInForce /\ RowsKept
<1> SUFFICES ASSUME UpkeepInv, [UpkeepNext]_upkeepVars
             PROVE  UpkeepInv' /\ IsolationInForce /\ RowsKept
  OBVIOUS
<1>1. ASSUME UNCHANGED operator, UNCHANGED backup, isolated' \in BOOLEAN, UNCHANGED unsure,
             SchemaSound', database.rows \subseteq database'.rows
      PROVE  UpkeepInv' /\ IsolationInForce /\ RowsKept
  <2>1. UpkeepInv'
    BY <1>1 DEF UpkeepInv
  <2>2. IsolationInForce
    BY <1>1 DEF IsolationInForce, Runs
  <2> QED
    BY <1>1, <2>1, <2>2 DEF RowsKept
<1>2. CASE UNCHANGED upkeepVars
  BY <1>1, <1>2 DEF upkeepVars, UpkeepInv, SchemaSound
<1>3. CASE Reconfigure
  BY <1>1, <1>3 DEF Reconfigure, UpkeepInv, SchemaSound
<1>4. ASSUME NEW r \in StoredRows, CommitRow(r)
      PROVE  UpkeepInv' /\ IsolationInForce /\ RowsKept
  <2>1. /\ database' = [database EXCEPT !.rows = database.rows \union {r}]
        /\ SchemaSound /\ isolated' \in BOOLEAN
        /\ UNCHANGED operator /\ UNCHANGED backup /\ UNCHANGED unsure
    BY <1>4 DEF CommitRow, UpkeepInv
  <2>2. SchemaSound' /\ database.rows \subseteq database'.rows
    BY <2>1 DEF Databases, Recorded, SchemaSound
  <2> QED
    BY <1>1, <2>1, <2>2
<1>5. ASSUME NEW o \in Operators, NEW target \in 0 .. 2, NEW yes \in BOOLEAN,
             AskMigrate(o, target, yes)
      PROVE  UpkeepInv' /\ IsolationInForce /\ RowsKept
  BY <1>5, BeginsKept DEF AskMigrate, UpkeepCommands
<1>6. ASSUME NEW o \in Operators, ApplySchema(o)
      PROVE  UpkeepInv' /\ IsolationInForce /\ RowsKept
  <2>1. Begins(o, "migrate", 2, FALSE) /\ UNCHANGED <<isolated, database, backup, manifest, unsure>>
    BY <1>6 DEF ApplySchema
  <2>2. "migrate" \in UpkeepCommands /\ 2 \in 0 .. 2 /\ FALSE \in BOOLEAN
        /\ "migrate" \notin {"restore", "clean restore"}
    BY DEF UpkeepCommands
  <2> QED
    BY <2>1, <2>2, BeginsKept
<1>7. ASSUME NEW o \in Operators, AskBackup(o)
      PROVE  UpkeepInv' /\ IsolationInForce /\ RowsKept
  <2>1. Begins(o, "backup", 0, FALSE) /\ UNCHANGED <<isolated, database, backup, manifest, unsure>>
    BY <1>7 DEF AskBackup
  <2>2. "backup" \in UpkeepCommands /\ 0 \in 0 .. 2 /\ FALSE \in BOOLEAN
        /\ "backup" \notin {"restore", "clean restore"}
    BY DEF UpkeepCommands
  <2> QED
    BY <2>1, <2>2, BeginsKept
<1>8. ASSUME NEW o \in Operators, NEW clean \in BOOLEAN, AskRestore(o, clean)
      PROVE  UpkeepInv' /\ IsolationInForce /\ RowsKept
  <2> DEFINE command == IF clean THEN "clean restore" ELSE "restore"
  <2>1. Begins(o, command, 0, TRUE) /\ UNCHANGED <<isolated, database, backup, manifest, unsure>>
    BY <1>8 DEF AskRestore
  <2>2. command \in UpkeepCommands /\ 0 \in 0 .. 2 /\ TRUE \in BOOLEAN
    BY DEF UpkeepCommands
  <2> HIDE DEF command
  <2> QED
    BY <2>1, <2>2, BeginsKept
<1>9. ASSUME NEW o \in Operators,
             RefuseMigration(o) \/ WriteManifest(o) \/ CommandStops(o)
      PROVE  UpkeepInv' /\ IsolationInForce /\ RowsKept
  BY <1>9, EndsKept DEF RefuseMigration, WriteManifest, CommandStops
<1> QED
  BY <1>2, <1>3, <1>4, <1>5, <1>6, <1>7, <1>8, <1>9, MigrateKept, BackupKept, VerifyKept,
     RestoreKept DEF UpkeepNext
-----------------------------------------------------------------------------
MemoryNext ==
    \/ SharedMemoryNext /\ UNCHANGED upkeepVars
    \/ UpkeepNext /\ UNCHANGED sharedMemoryVars

LEMMA MemoryStep ==
    ProvenanceInv /\ UpkeepInv /\ [MemoryNext]_<<sharedMemoryVars, upkeepVars>>
        => /\ ProvenanceInv' /\ UpkeepInv'
           /\ ProvenanceFirst' /\ SchemaAsRecorded' /\ IsolationInForce /\ RowsKept
<1> SUFFICES ASSUME ProvenanceInv, UpkeepInv, [MemoryNext]_<<sharedMemoryVars, upkeepVars>>
             PROVE  /\ ProvenanceInv' /\ UpkeepInv'
                    /\ ProvenanceFirst' /\ SchemaAsRecorded' /\ IsolationInForce /\ RowsKept
  OBVIOUS
<1>1. [SharedMemoryNext]_sharedMemoryVars /\ [UpkeepNext]_upkeepVars
  BY DEF MemoryNext
<1>2. ProvenanceInv'
  BY <1>1, ProvenanceKept
<1>3. UpkeepInv' /\ IsolationInForce /\ RowsKept
  BY <1>1, UpkeepInvPreserved
<1>4. ProvenanceFirst'
  BY <1>2, ProvenanceShown, PTL
<1>5. SchemaAsRecorded'
  BY <1>3 DEF UpkeepInv, SchemaSound, Recorded, SchemaAsRecorded
<1> QED
  BY <1>2, <1>3, <1>4, <1>5

\* The invariants of the tables and of their upkeep hold.
THEOREM MemoryInvariant == MemorySpec => [](ProvenanceInv /\ UpkeepInv)
<1>1. SharedMemoryInit /\ UpkeepInit => ProvenanceInv /\ UpkeepInv
  BY InitProvenanceInv, InitUpkeepInv
<1> QED
  BY <1>1, MemoryStep, PTL DEF MemorySpec, MemoryNext

(* For any memories, requests and commands, on either back end: every state has its *)
(* event and nothing is stored twice, however requests are interrupted and retried, *)
(* and migrations and backups keep the schema true to its record and the row policy *)
(* in force, until a restore puts that in doubt and again once a restore has left   *)
(* the schema of a dump taken without doubt; no rows go unless a command was told   *)
(* that they may.                                                                   *)
THEOREM SharedMemoryKeptHolds == MemorySpec => SharedMemoryKept
<1>1. ProvenanceInv /\ UpkeepInv /\ [MemoryNext]_<<sharedMemoryVars, upkeepVars>>
        => [ProvenanceFirst' /\ SchemaAsRecorded' /\ IsolationInForce /\ RowsKept]_<<sharedMemoryVars, upkeepVars>>
  BY MemoryStep
<1> QED
  BY <1>1, MemoryInvariant, PTL DEF MemorySpec, MemoryNext, SharedMemoryKept
=============================================================================
