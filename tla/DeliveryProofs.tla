---------------------------- MODULE DeliveryProofs ----------------------------
(***************************************************************************)
(* Theorems about AuditPipeline, for any writers, flushers, capacity, batch *)
(* size and retries, and any crashes and lost or repeated requests: nothing *)
(* handed over is lost, recorded twice or out of order, and the pipeline    *)
(* implements AuditLedger.  And about SandboxRuns, for any limit and any    *)
(* backend: what a sandboxed call reports and what it leaves behind.        *)
(* And about GatewayDispatch, for any number of requests, messages, permits *)
(* and workers and any window, when one process uses the state file: a      *)
(* message runs at most once while its key is in the window, and its key is *)
(* on disk whenever it was given to the workers.                            *)
(***************************************************************************)
EXTENDS AuditPipeline, SandboxRuns, GatewayDispatch,
        SequenceTheorems, FiniteSetTheorems, TLAPS

\* Who has the buffer's lock: a write from its append on, a flush all the time.
Holding(w) ==
    \/ auditPc[w] \in {"append", "stats", "load", "batch", "rewrite"}
    \/ job[w] = "flush" /\ auditPc[w] \in {"post", "wait", "answered"}

LockInv == \A w \in Workers : Holding(w) => lock = w

\* Where a write and a flush can be, and the locals they have there.
PhaseInv ==
    \A w \in Workers :
        /\ job[w] = "write" =>
              auditPc[w] \in {"idle", "post", "wait", "answered", "lock", "append", "stats"}
        /\ job[w] = "flush" => auditPc[w] \notin {"idle", "append"}
        /\ job[w] = "write" /\ auditPc[w] # "idle" => Len(batch[w]) = 1
        /\ job[w] = "flush" \/ auditPc[w] # "stats" => delta[w] = 0

\* A write whose event is not in the buffer, and never was.
Carries(w) == job[w] = "write" /\ auditPc[w] \in {"post", "wait", "answered", "lock", "append"}

\* An event has one writer, and is put in the buffer once.
EventInv ==
    /\ IsInjective(appended)
    /\ \A i \in DOMAIN appended : appended[i] <= written
    /\ \A w \in Workers : Carries(w) =>
          /\ batch[w][1] <= written
          /\ batch[w][1] \notin ToSet(appended)
          /\ \A v \in Workers : Carries(v) /\ batch[v][1] = batch[w][1] => v = w

\* A write that counts its evictions has put its event.
PutInv ==
    \A w \in Workers :
        job[w] = "write" /\ auditPc[w] = "stats" => batch[w][1] \in ToSet(appended)

\* The index in the buffer of the first event a flush has still to deliver.
Delivered(w) == Len(buffer) - Len(rest[w])

Flushing(w) ==
    job[w] = "flush" /\ auditPc[w] \in {"batch", "post", "wait", "answered", "rewrite"}

\* What a flush has still to deliver is the end of the buffer; all before it is
\* recorded, and its batch is the first part of it.
RestOf(w) ==
    /\ Flushing(w) =>
          /\ Len(rest[w]) <= Len(buffer)
          /\ \A i \in 1..Len(rest[w]) : rest[w][i] = buffer[Delivered(w) + i]
          /\ \A i \in 1..Delivered(w) : buffer[i] \in ToSet(ledger)
    /\ job[w] = "flush" /\ auditPc[w] \in {"post", "wait", "answered"} =>
          /\ Len(batch[w]) <= Len(rest[w])
          /\ \A i \in 1..Len(batch[w]) : batch[w][i] = rest[w][i]

RestInv == \A w \in Workers : RestOf(w)

\* No request holds an event twice, and what was answered is recorded.
BatchInv ==
    /\ \A events \in net : IsInjective(events)
    /\ \A w \in Workers :
          auditPc[w] \in {"post", "wait", "answered"} =>
              /\ IsInjective(batch[w])
              /\ auditPc[w] = "answered" => ToSet(batch[w]) \subseteq ToSet(ledger)

\* The buffer is the end of all that was put in it.
SuffixInv ==
    /\ Len(buffer) <= Len(appended)
    /\ \A i \in 1..Len(buffer) : buffer[i] = appended[Len(appended) - Len(buffer) + i]

\* Where an event that was put in the buffer is now, and what was evicted is not in it.
KeptInv ==
    /\ ToSet(appended) \subseteq ToSet(ledger) \union ToSet(buffer) \union gone
    /\ returned \subseteq ToSet(ledger) \union ToSet(appended)
    /\ gone \subseteq ToSet(appended)
    /\ gone \intersect ToSet(buffer) = {}

\* Between the two writes of a put the count of its evictions is the worker's.
CountInv ==
    crashes = 0 =>
        /\ \A w \in Workers : auditPc[w] = "stats" => evicted + delta[w] = Cardinality(gone)
        /\ (\A w \in Workers : auditPc[w] # "stats") => evicted = Cardinality(gone)

AuditInv ==
    /\ AuditTypeOK /\ RecordedOnce
    /\ PhaseInv /\ LockInv /\ EventInv /\ PutInv /\ RestInv /\ BatchInv
    /\ SuffixInv /\ KeptInv /\ CountInv
-----------------------------------------------------------------------------
(* Sequences and the sets of what they hold. *)

LEMMA InSet ==
    ASSUME NEW S, NEW s \in Seq(S)
    PROVE  /\ ToSet(s) \subseteq S
           /\ \A e : e \in ToSet(s) <=> \E i \in 1..Len(s) : s[i] = e
  BY DEF ToSet

LEMMA AppendSet ==
    ASSUME NEW S, NEW s \in Seq(S), NEW e \in S
    PROVE  /\ Append(s, e) \in Seq(S)
           /\ ToSet(Append(s, e)) = ToSet(s) \union {e}
<1> DEFINE t == Append(s, e)
<1>1. /\ t \in Seq(S) /\ Len(t) = Len(s) + 1 /\ t[Len(s) + 1] = e
      /\ Len(s) \in Nat /\ \A i \in 1..Len(s) : t[i] = s[i]
  BY AppendProperties, LenProperties
<1> HIDE DEF t
<1>2. \A d : d \in ToSet(t) <=> \E i \in 1..Len(t) : t[i] = d
  BY <1>1, InSet
<1>3. \A d : d \in ToSet(s) <=> \E i \in 1..Len(s) : s[i] = d
  BY InSet
<1>4. \A d : d \in ToSet(t) <=> d \in ToSet(s) \/ d = e
  BY <1>1, <1>2, <1>3
<1> QED
  BY <1>1, <1>4 DEF t

LEMMA ConcatSet ==
    ASSUME NEW S, NEW s \in Seq(S), NEW t \in Seq(S)
    PROVE  /\ s \o t \in Seq(S)
           /\ ToSet(s \o t) = ToSet(s) \union ToSet(t)
<1> DEFINE u == s \o t
<1>1. /\ u \in Seq(S) /\ Len(u) = Len(s) + Len(t) /\ Len(s) \in Nat /\ Len(t) \in Nat
      /\ \A i \in 1..Len(s) + Len(t) : u[i] = IF i <= Len(s) THEN s[i] ELSE t[i - Len(s)]
  BY ConcatProperties, LenProperties
<1> HIDE DEF u
<1>2. /\ \A d : d \in ToSet(u) <=> \E i \in 1..Len(u) : u[i] = d
      /\ \A d : d \in ToSet(s) <=> \E i \in 1..Len(s) : s[i] = d
      /\ \A d : d \in ToSet(t) <=> \E i \in 1..Len(t) : t[i] = d
  BY <1>1, InSet
<1>3. ASSUME NEW d \in ToSet(t) PROVE d \in ToSet(u)
  <2>1. PICK i \in 1..Len(t) : t[i] = d
    BY <1>2
  <2>2. i \in Nat /\ i + Len(s) \in 1..Len(u) /\ ~(i + Len(s) <= Len(s))
    BY <1>1
  <2>3. i + Len(s) - Len(s) = i
    BY <1>1, <2>2
  <2>4. u[i + Len(s)] = t[i]
    BY <1>1, <2>2, <2>3
  <2> QED
    BY <1>2, <2>1, <2>2, <2>4
<1>4. ASSUME NEW d \in ToSet(s) PROVE d \in ToSet(u)
  BY <1>1, <1>2
<1>5. ASSUME NEW d \in ToSet(u) PROVE d \in ToSet(s) \union ToSet(t)
  <2>1. PICK i \in 1..Len(u) : u[i] = d
    BY <1>2
  <2>2. CASE i <= Len(s)
    BY <1>1, <1>2, <2>1, <2>2
  <2>3. CASE ~(i <= Len(s))
    <3>1. i - Len(s) \in 1..Len(t) /\ t[i - Len(s)] = d
      BY <1>1, <2>1, <2>3
    <3> QED
      BY <1>2, <3>1
  <2> QED
    BY <2>2, <2>3
<1> QED
  BY <1>1, <1>3, <1>4, <1>5 DEF u

\* Joining sequences without repetitions that share nothing repeats nothing.
LEMMA ConcatInjective ==
    ASSUME NEW S, NEW s \in Seq(S), NEW t \in Seq(S),
           IsInjective(s), IsInjective(t), ToSet(s) \intersect ToSet(t) = {}
    PROVE  IsInjective(s \o t)
<1> DEFINE u == s \o t
<1>1. /\ u \in Seq(S) /\ Len(u) = Len(s) + Len(t) /\ Len(s) \in Nat /\ Len(t) \in Nat
      /\ \A i \in 1..Len(s) + Len(t) : u[i] = IF i <= Len(s) THEN s[i] ELSE t[i - Len(s)]
  BY ConcatProperties, LenProperties
<1> HIDE DEF u
<1>2. DOMAIN u = 1..Len(u) /\ DOMAIN s = 1..Len(s) /\ DOMAIN t = 1..Len(t)
  BY <1>1, LenProperties
<1>3. ASSUME NEW i \in 1..Len(s), NEW j \in 1..Len(t) PROVE s[i] # t[j]
  BY InSet
<1>4. ASSUME NEW i \in 1..Len(u), NEW j \in 1..Len(u), u[i] = u[j] PROVE i = j
  <2>1. CASE i <= Len(s) /\ j <= Len(s)
    BY <1>1, <1>2, <1>4, <2>1 DEF IsInjective
  <2>2. CASE ~(i <= Len(s)) /\ ~(j <= Len(s))
    <3>1. i - Len(s) \in 1..Len(t) /\ j - Len(s) \in 1..Len(t)
      BY <1>1, <2>2
    <3>2. t[i - Len(s)] = t[j - Len(s)]
      BY <1>1, <1>4, <2>2
    <3>3. i - Len(s) = j - Len(s)
      BY <1>2, <3>1, <3>2 DEF IsInjective
    <3> QED
      BY <1>1, <3>3
  <2>3. CASE i <= Len(s) /\ ~(j <= Len(s))
    <3>1. i \in 1..Len(s) /\ j - Len(s) \in 1..Len(t)
      BY <1>1, <2>3
    <3> QED
      BY <1>1, <1>3, <1>4, <2>3, <3>1
  <2>4. CASE ~(i <= Len(s)) /\ j <= Len(s)
    <3>1. j \in 1..Len(s) /\ i - Len(s) \in 1..Len(t)
      BY <1>1, <2>4
    <3> QED
      BY <1>1, <1>3, <1>4, <2>4, <3>1
  <2> QED
    BY <2>1, <2>2, <2>3, <2>4
<1> QED
  BY <1>2, <1>4 DEF IsInjective, u

\* The end of a sequence that has a suffix: the reversals begin alike.
LEMMA SuffixByIndex ==
    ASSUME NEW S, NEW s \in Seq(S), NEW t \in Seq(S), Len(s) <= Len(t),
           \A i \in 1..Len(s) : s[i] = t[Len(t) - Len(s) + i]
    PROVE  IsSuffix(s, t)
<1> DEFINE n == Len(s)
           m == Len(t)
           a == Reverse(s)
           b == Reverse(t)
<1>1. n \in Nat /\ m \in Nat /\ n <= m
  BY LenProperties
<1>2. /\ a = [i \in 1..n |-> s[n - i + 1]] /\ b = [i \in 1..m |-> t[m - i + 1]]
  BY DEF Reverse
<1>3. a \in Seq(S) /\ Len(a) = n /\ b \in Seq(S) /\ Len(b) = m
  BY <1>1, <1>2
<1>4. \A i \in 1..n : a[i] = b[i]
  <2> TAKE i \in 1..n
  <2>1. n - i + 1 \in 1..n /\ m - n + (n - i + 1) = m - i + 1 /\ i \in 1..m
    BY <1>1
  <2> QED
    BY <1>2, <2>1
<1> HIDE DEF a, b
<1>5. /\ SubSeq(a, 1, n) \in Seq(S) /\ Len(SubSeq(a, 1, n)) = n
      /\ \A i \in 1..n : SubSeq(a, 1, n)[i] = a[i]
  BY <1>1, <1>3
<1>6. /\ SubSeq(b, 1, n) \in Seq(S) /\ Len(SubSeq(b, 1, n)) = n
      /\ \A i \in 1..n : SubSeq(b, 1, n)[i] = b[i]
  BY <1>1, <1>3
<1>7. SubSeq(a, 1, n) = SubSeq(b, 1, n)
  BY <1>4, <1>5, <1>6, SeqEqual
<1> QED
  BY <1>1, <1>3, <1>7 DEF IsSuffix, IsPrefix, a, b

\* What the collector inserts of a request: the events it does not have, each once
\* if the request has each once.
LEMMA FreshEvents ==
    ASSUME ledger \in Seq(Events), NEW events \in Seq(Events)
    PROVE  /\ Fresh(events) \in Seq(Events)
           /\ ToSet(Fresh(events)) = ToSet(events) \ ToSet(ledger)
           /\ IsInjective(events) => IsInjective(Fresh(events))
<1> DEFINE fresh == {i \in DOMAIN events : events[i] \notin ToSet(ledger)}
           before(i) == {j \in fresh : j < i}
           size == Cardinality(fresh)
           below == [i \in fresh |-> Cardinality(before(i))]
           rank == [i \in fresh |-> below[i] + 1]
           place(n) == CHOOSE i \in fresh : Cardinality(before(i)) = n - 1
<1>1. DOMAIN events = 1..Len(events) /\ Len(events) \in Nat
  BY LenProperties
<1>2. fresh \in SUBSET (1..Len(events)) /\ fresh \in SUBSET Nat
  BY <1>1
<1>3. IsFiniteSet(fresh) /\ size \in Nat
  <2>1. IsFiniteSet(1..Len(events))
    BY <1>1, FS_Interval
  <2>2. IsFiniteSet(fresh)
    BY <1>2, <2>1, FS_Subset
  <2> QED
    BY <2>2, FS_CardinalityType
<1>4. ASSUME NEW i \in fresh
      PROVE  IsFiniteSet(before(i)) /\ below[i] \in 0..size - 1
  <2>1. before(i) \in SUBSET fresh /\ i \notin before(i)
    BY <1>2
  <2>2. below[i] = Cardinality(before(i))
    OBVIOUS
  <2> HIDE DEF before, below
  <2>3. /\ IsFiniteSet(before(i)) /\ Cardinality(before(i)) <= size
        /\ Cardinality(before(i)) # size
    BY <1>3, <2>1, FS_Subset
  <2>4. Cardinality(before(i)) \in Nat
    BY <2>3, FS_CardinalityType
  <2> HIDE DEF size
  <2> QED
    BY <1>3, <2>2, <2>3, <2>4
<1>5. ASSUME NEW i \in fresh, NEW j \in fresh, i < j
      PROVE  below[i] # below[j]
  <2>1. before(i) \in SUBSET before(j)
    BY <1>2, <1>5
  <2>2. i \in before(j) /\ i \notin before(i)
    BY <1>2, <1>5
  <2>3. IsFiniteSet(before(j))
    BY <1>4
  <2>4. below[i] = Cardinality(before(i)) /\ below[j] = Cardinality(before(j))
    OBVIOUS
  <2> HIDE DEF before
  <2> QED
    BY <2>1, <2>2, <2>3, <2>4, FS_Subset
<1>6. \A i \in fresh : below[i] = Cardinality(before(i))
  OBVIOUS
<1> HIDE DEF below, size, before, fresh
<1>7. rank \in Injection(fresh, 1..size)
  <2>1. rank \in [fresh -> 1..size]
    BY <1>3, <1>4
  <2>2. ASSUME NEW i \in fresh, NEW j \in fresh, rank[i] = rank[j] PROVE i = j
    <3>1. below[i] = below[j]
      BY <1>3, <1>4, <2>2
    <3>2. ~(i < j) /\ ~(j < i)
      BY <1>5, <3>1
    <3> QED
      BY <1>2, <3>2
  <2> QED
    BY <2>1, <2>2 DEF Injection, IsInjective
<1>8. ASSUME NEW n \in 1..size
      PROVE  place(n) \in fresh /\ rank[place(n)] = n
  <2>1. IsFiniteSet(1..size) /\ Cardinality(1..size) = size
    BY <1>3, FS_Interval
  <2>2. rank \in Surjection(fresh, 1..size)
    BY <1>7, <2>1, FS_Injection DEF size
  <2>3. PICK i \in fresh : rank[i] = n
    BY <2>2 DEF Surjection
  <2>4. below[i] = n - 1
    BY <1>3, <1>4, <2>3
  <2>5. place(n) \in fresh /\ Cardinality(before(place(n))) = n - 1
    BY <1>6, <2>4
  <2>6. below[place(n)] = n - 1
    BY <1>6, <2>5
  <2> HIDE DEF place
  <2> QED
    BY <2>5, <2>6
<1>9. Fresh(events) = [n \in 1..size |-> events[place(n)]]
  BY DEF Fresh, fresh, before, size
<1> HIDE DEF place, rank
<1>10. ASSUME NEW i \in fresh
       PROVE  i \in 1..Len(events) /\ events[i] \in Events /\ events[i] \notin ToSet(ledger)
  BY <1>1, <1>2 DEF fresh
<1>11. /\ Fresh(events) \in Seq(Events) /\ DOMAIN Fresh(events) = 1..size
       /\ Len(Fresh(events)) = size
       /\ \A n \in 1..size : Fresh(events)[n] = events[place(n)]
  BY <1>3, <1>8, <1>9, <1>10
<1>12. ToSet(Fresh(events)) \subseteq ToSet(events) \ ToSet(ledger)
  <2>1. ASSUME NEW e \in ToSet(Fresh(events)) PROVE e \in ToSet(events) \ ToSet(ledger)
    <3>1. PICK n \in 1..size : e = events[place(n)]
      BY <1>11, InSet
    <3> QED
      BY <1>8, <1>10, <3>1, InSet
  <2> QED
    BY <2>1
<1>13. ToSet(events) \ ToSet(ledger) \subseteq ToSet(Fresh(events))
  <2>1. ASSUME NEW e \in ToSet(events) \ ToSet(ledger) PROVE e \in ToSet(Fresh(events))
    <3>1. PICK i \in 1..Len(events) : events[i] = e
      BY InSet
    <3>2. i \in fresh
      BY <1>1, <3>1 DEF fresh
    <3>3. rank[i] \in 1..size /\ \A j \in fresh : rank[j] = rank[i] => j = i
      BY <1>7, <3>2 DEF Injection, IsInjective
    <3>4. place(rank[i]) = i
      BY <1>8, <3>3
    <3>5. Fresh(events)[rank[i]] = e
      BY <1>11, <3>1, <3>3, <3>4
    <3> QED
      BY <1>11, <3>3, <3>5, InSet
  <2> QED
    BY <2>1
<1>14. ASSUME IsInjective(events), NEW m \in 1..size, NEW n \in 1..size,
              Fresh(events)[m] = Fresh(events)[n]
       PROVE  m = n
  <2>1. place(m) = place(n)
    <3>1. place(m) \in DOMAIN events /\ place(n) \in DOMAIN events
      BY <1>1, <1>8, <1>10
    <3>2. events[place(m)] = events[place(n)]
      BY <1>11, <1>14
    <3> QED
      BY <1>14, <3>1, <3>2 DEF IsInjective
  <2> QED
    BY <1>8, <2>1
<1> QED
  BY <1>11, <1>12, <1>13, <1>14 DEF IsInjective
-----------------------------------------------------------------------------
(* Every variable stays in its set. *)

\* The part of a sequence from one place to another.
LEMMA SubSeqEvents ==
    ASSUME NEW s \in Seq(Events), NEW m \in 1..Len(s) + 1, NEW n \in 0..Len(s)
    PROVE  /\ SubSeq(s, m, n) \in Seq(Events)
           /\ Len(SubSeq(s, m, n)) = IF m <= n THEN n - m + 1 ELSE 0
           /\ \A i \in 1..Len(SubSeq(s, m, n)) : SubSeq(s, m, n)[i] = s[m + i - 1]
<1>1. \A i \in m..n : s[i] \in Events
  BY ElementOfSeq, LenProperties
<1>2. m \in Int /\ n \in Int
  BY LenProperties
<1> QED
  BY <1>1, <1>2, SubSeqProperties

\* A full buffer gives up its oldest events for the new one.
LEMMA RotatedBuffer ==
    ASSUME NEW lines \in Seq(Events), Len(lines) <= Capacity, NEW e \in Events
    PROVE  LET new  == Rotated(lines, e)
               lost == Len(lines) + 1 - Len(new)
           IN  /\ new \in Seq(Events) /\ Len(new) \in 1..Len(lines) + 1 /\ Len(new) <= Capacity
               /\ \A i \in 1..Len(new) - 1 : new[i] = lines[lost + i]
               /\ new[Len(new)] = e
<1> DEFINE n == Len(lines)
           kept == SubSeq(lines, n + 2 - Capacity, n)
<1>1. n \in Nat /\ Capacity \in Nat \ {0}
  BY LenProperties, PipelineAssumption
<1>2. CASE n < Capacity
  BY <1>1, <1>2, AppendProperties DEF Rotated
<1>3. CASE n = Capacity
  <2>1. /\ kept \in Seq(Events) /\ Len(kept) = n - 1
        /\ \A i \in 1..n - 1 : kept[i] = lines[i + 1]
    <3>1. n + 2 - Capacity = 2 /\ 2 \in 1..n + 1 /\ n \in 0..n
      BY <1>1, <1>3
    <3>2. kept = SubSeq(lines, 2, n)
      BY <3>1
    <3> HIDE DEF kept
    <3>3. kept \in Seq(Events) /\ Len(kept) = IF 2 <= n THEN n - 2 + 1 ELSE 0
      BY <3>1, <3>2, SubSeqEvents
    <3>4. \A i \in 1..Len(kept) : kept[i] = lines[2 + i - 1]
      BY <3>1, <3>2, SubSeqEvents
    <3>5. Len(kept) = n - 1
      BY <1>1, <1>3, <3>3
    <3>6. ASSUME NEW i \in 1..n - 1
          PROVE  kept[i] = lines[i + 1]
      <4>1. 2 + i - 1 = i + 1
        OBVIOUS
      <4> QED
        BY <3>4, <3>5, <4>1
    <3> QED
      BY <3>3, <3>5, <3>6
  <2>2. Rotated(lines, e) = Append(kept, e)
    BY <1>1, <1>3 DEF Rotated
  <2> HIDE DEF kept
  <2> QED
    BY <1>1, <1>3, <2>1, <2>2, AppendProperties
<1> QED
  BY <1>1, <1>2, <1>3

LEMMA AuditTypeStep == AuditInv /\ AuditNext => AuditTypeOK'
<1> SUFFICES ASSUME AuditInv, AuditNext PROVE AuditTypeOK'
  OBVIOUS
<1> USE DEF AuditTypeOK, PCs
<1>t. AuditTypeOK /\ PhaseInv
  BY DEF AuditInv
<1>c. PipelineAssumption
  BY PipelineAssumption
<1>l. ASSUME NEW w \in Workers, Leave(w)
      PROVE  /\ auditPc' \in [Workers -> PCs] /\ job' \in [Workers -> {"write", "flush"}]
             /\ batch' \in [Workers -> Seq(Events)] /\ rest' \in [Workers -> Seq(Events)]
             /\ attempt' \in [Workers -> 0..MaxRetries] /\ delta' \in [Workers -> Nat]
  BY <1>l, <1>t, PipelineAssumption DEF Leave, AuditGoto
<1>1. ASSUME NEW w \in Workers, Write(w) PROVE AuditTypeOK'
  <2>1. written + 1 \in Events
    BY <1>1, <1>t, PipelineAssumption DEF Write, Events
  <2>2. <<written + 1>> \in Seq(Events)
    BY <2>1
  <2>3. /\ UNCHANGED <<ledger, net, evicted, buffer, lock, job, attempt, rest, delta, flushes,
                        crashes, appended, gone, returned>>
        /\ auditPc' = [auditPc EXCEPT ![w] = "post"]
        /\ batch' = [batch EXCEPT ![w] = <<written + 1>>] /\ written' = written + 1
    BY <1>1 DEF Write, AuditGoto, collector, file, history
  <2>4. auditPc' \in [Workers -> PCs]
    BY <1>t, <2>3
  <2>5. batch' \in [Workers -> Seq(Events)]
    BY <1>t, <2>2, <2>3
  <2>6. written' \in 0..MaxEvents
    BY <2>1, <2>3, PipelineAssumption DEF Events
  <2> QED
    BY <1>t, <2>3, <2>4, <2>5, <2>6
<1>2. ASSUME NEW w \in Workers, Flush(w) PROVE AuditTypeOK'
  <2>1. /\ UNCHANGED <<ledger, net, evicted, buffer, lock, batch, attempt, rest, delta, written,
                        crashes, appended, gone, returned>>
        /\ auditPc' = [auditPc EXCEPT ![w] = "lock"] /\ job' = [job EXCEPT ![w] = "flush"]
        /\ flushes < MaxFlushes /\ flushes' = flushes + 1
    BY <1>2 DEF Flush, AuditGoto, collector, file, history
  <2>2. auditPc' \in [Workers -> PCs] /\ job' \in [Workers -> {"write", "flush"}]
    BY <1>t, <2>1
  <2>3. flushes' \in 0..MaxFlushes
    BY <1>t, <2>1, PipelineAssumption
  <2> QED
    BY <1>t, <2>1, <2>2, <2>3
<1>3. ASSUME NEW w \in Workers, Send(w) PROVE AuditTypeOK'
  BY <1>3, <1>t DEF Send, AuditGoto, file, bounds, history
<1>4. ASSUME NEW w \in Workers, NoAnswer(w) PROVE AuditTypeOK'
  <2> DEFINE label == IF job[w] = "write" THEN "lock" ELSE "rewrite"
  <2>1. /\ UNCHANGED <<ledger, net, buffer, evicted, lock, job, batch, rest, delta, written,
                       flushes, crashes, appended, gone, returned>>
        /\ \/ attempt[w] < MaxRetries /\ attempt' = [attempt EXCEPT ![w] = @ + 1]
              /\ auditPc' = [auditPc EXCEPT ![w] = "post"]
           \/ UNCHANGED attempt /\ auditPc' = [auditPc EXCEPT ![w] = label]
    BY <1>4 DEF NoAnswer, AuditGoto, collector, file, bounds, history
  <2>2. label \in PCs /\ MaxRetries \in Nat
    BY PipelineAssumption
  <2> HIDE DEF label
  <2>3. attempt' \in [Workers -> 0..MaxRetries]
    <3>1. attempt \in [Workers -> 0..MaxRetries]
      BY <1>t
    <3>2. CASE attempt[w] < MaxRetries /\ attempt' = [attempt EXCEPT ![w] = @ + 1]
      BY <2>2, <3>1, <3>2
    <3> QED
      BY <2>1, <3>1, <3>2
  <2>4. auditPc' \in [Workers -> PCs]
    BY <1>t, <2>1, <2>2
  <2> QED
    BY <1>t, <2>1, <2>3, <2>4
<1>5. ASSUME NEW w \in Workers, PostAnswered(w) PROVE AuditTypeOK'
  <2>1. CASE job[w] = "write"
    <3>1. ToSet(batch[w]) \subseteq Events
      BY <1>t, InSet
    <3> QED
      BY <1>5, <1>l, <1>t, <2>1, <3>1 DEF PostAnswered, collector, file, bounds
  <2>2. CASE job[w] # "write"
    <3>1. Len(batch[w]) <= Len(rest[w])
      BY <1>5, <1>t, <2>2 DEF PostAnswered, AuditInv, RestInv, RestOf
    <3>2. SubSeq(rest[w], Len(batch[w]) + 1, Len(rest[w])) \in Seq(Events)
      BY <1>t, <3>1, SubSeqEvents, LenProperties
    <3> QED
      BY <1>5, <1>t, <2>2, <3>2 DEF PostAnswered, AuditGoto, collector, file, bounds
  <2> QED
    BY <2>1, <2>2
<1>6. ASSUME NEW w \in Workers, Lock(w) PROVE AuditTypeOK'
  BY <1>6, <1>t DEF Lock, AuditGoto, collector, bounds, history
<1>7. ASSUME NEW w \in Workers, Put(w) PROVE AuditTypeOK'
  <2> DEFINE event == batch[w][1]
             lost == ToSet(buffer) \ ToSet(Rotated(buffer, event))
  <2>1. event \in Events
    <3>1. Len(batch[w]) = 1 /\ batch[w] \in Seq(Events)
      BY <1>7, <1>t DEF Put, PhaseInv
    <3> QED
      BY <3>1, ElementOfSeq
  <2>2. Rotated(buffer, event) \in Seq(Events) /\ Len(Rotated(buffer, event)) <= Capacity
    BY <1>t, <2>1, RotatedBuffer
  <2>3. Append(appended, event) \in Seq(Events)
    BY <1>t, <2>1, AppendProperties
  <2>4. lost \subseteq Events
    BY <1>t, InSet
  <2>5. Cardinality(lost) \in Nat
    <3>1. IsFiniteSet(Events)
      BY PipelineAssumption, FS_Interval DEF Events
    <3>2. IsFiniteSet(lost)
      BY <2>4, <3>1, FS_Subset
    <3> QED
      BY <3>2, FS_CardinalityType
  <2>6. /\ buffer' = Rotated(buffer, event) /\ delta' = [delta EXCEPT ![w] = Cardinality(lost)]
        /\ appended' = Append(appended, event) /\ gone' = gone \union lost
        /\ auditPc' = [auditPc EXCEPT ![w] = "stats"]
        /\ UNCHANGED <<collector, evicted, lock, job, batch, attempt, rest, bounds, returned>>
    BY <1>7 DEF Put, AuditGoto
  <2> HIDE DEF event, lost
  <2> QED
    BY <1>t, <2>2, <2>3, <2>4, <2>5, <2>6 DEF collector, bounds
<1>8. ASSUME NEW w \in Workers, Stats(w) PROVE AuditTypeOK'
  <2>1. ToSet(batch[w]) \subseteq Events
    BY <1>t, InSet
  <2> QED
    <3>1. /\ evicted' = evicted + delta[w] /\ lock' = NoWorker /\ Leave(w)
          /\ returned' = returned \/ returned' = returned \union ToSet(batch[w])
          /\ UNCHANGED <<ledger, net, buffer, written, flushes, crashes, appended, gone>>
      BY <1>8 DEF Stats, Counted, collector, bounds
    <3>2. evicted' \in Nat
      <4>1. evicted \in Nat /\ delta[w] \in Nat
        BY <1>t
      <4> QED
        BY <3>1, <4>1
    <3>3. returned' \subseteq Events
      BY <1>t, <2>1, <3>1
    <3> QED
      BY <1>l, <1>t, <3>1, <3>2, <3>3
<1>9. ASSUME NEW w \in Workers, Load(w) PROVE AuditTypeOK'
  BY <1>9, <1>t DEF Load, AuditGoto, collector, file, bounds, history
<1>10. ASSUME NEW w \in Workers, NextBatch(w) PROVE AuditTypeOK'
  <2> DEFINE n == IF Len(rest[w]) < BatchSize THEN Len(rest[w]) ELSE BatchSize
  <2>1. 1 \in 1..Len(rest[w]) + 1 /\ n \in 0..Len(rest[w])
    BY <1>t, PipelineAssumption, LenProperties
  <2>2. SubSeq(rest[w], 1, n) \in Seq(Events)
    BY <1>t, <2>1, SubSeqEvents
  <2> QED
    <3>1. /\ attempt' = [attempt EXCEPT ![w] = 0]
          /\ batch' \in {batch, [batch EXCEPT ![w] = SubSeq(rest[w], 1, n)]}
          /\ auditPc' \in {[auditPc EXCEPT ![w] = "rewrite"], [auditPc EXCEPT ![w] = "post"]}
          /\ UNCHANGED <<ledger, net, buffer, evicted, lock, job, rest, delta, written,
                         flushes, crashes, appended, gone, returned>>
      BY <1>10 DEF NextBatch, AuditGoto, collector, file, bounds, history
    <3> HIDE DEF n
    <3>2. attempt' \in [Workers -> 0..MaxRetries]
      BY <1>t, <3>1, PipelineAssumption
    <3>3. batch' \in [Workers -> Seq(Events)]
      BY <1>t, <2>2, <3>1
    <3>4. auditPc' \in [Workers -> PCs]
      BY <1>t, <3>1
    <3> QED
      BY <1>t, <3>1, <3>2, <3>3, <3>4
<1>11. ASSUME NEW w \in Workers, Rewrite(w) PROVE AuditTypeOK'
  <2>1. Len(rest[w]) <= Len(buffer)
    BY <1>11 DEF Rewrite, AuditInv, RestInv, RestOf, Flushing, PhaseInv, AuditTypeOK
  <2> QED
    <3>1. /\ buffer' = rest[w] /\ auditPc' = [auditPc EXCEPT ![w] = "stats"]
          /\ UNCHANGED <<ledger, net, evicted, lock, job, batch, attempt, rest, delta, written,
                         flushes, crashes, appended, gone, returned>>
      BY <1>11 DEF Rewrite, Remainder, AuditGoto, collector, bounds, history
    <3>2. buffer' \in Seq(Events) /\ Len(buffer') <= Capacity
      BY <1>t, <2>1, <3>1, LenProperties, PipelineAssumption
    <3>3. auditPc' \in [Workers -> PCs]
      BY <1>t, <3>1
    <3> QED
      BY <1>t, <3>1, <3>2, <3>3
<1>12. ASSUME NEW w \in Workers, WorkerCrashes(w) PROVE AuditTypeOK'
  <2>1. lock' \in Workers \union {NoWorker}
    BY <1>12, <1>t DEF WorkerCrashes, Released
  <2>2. crashes' \in 0..MaxCrashes
    BY <1>12, <1>t, PipelineAssumption DEF WorkerCrashes
  <2>3. Leave(w) /\ UNCHANGED <<ledger, net, buffer, evicted, written, flushes, appended, gone,
                                returned>>
    BY <1>12 DEF WorkerCrashes, collector, history
  <2> QED
    BY <1>l, <1>t, <2>1, <2>2, <2>3
<1>13. ASSUME NEW events \in net, AcceptBatch(events) PROVE AuditTypeOK'
  <2>1. ledger \o Fresh(events) \in Seq(Events)
    BY <1>t, FreshEvents, ConcatProperties
  <2> QED
    BY <1>13, <1>t, <2>1 DEF AcceptBatch, AuditGoto, file, bounds, history
<1> QED
  BY <1>1, <1>2, <1>3, <1>4, <1>5, <1>6, <1>7, <1>8, <1>9, <1>10, <1>11, <1>12, <1>13
  DEF AuditNext, Step
-----------------------------------------------------------------------------
(* Where the workers are, and who has the lock. *)

LEMMA PhaseStep == AuditInv /\ AuditNext => PhaseInv'
<1> SUFFICES ASSUME AuditInv, AuditNext PROVE PhaseInv'
  OBVIOUS
<1> USE DEF PhaseInv, AuditGoto
<1>t. AuditTypeOK /\ PhaseInv
  BY DEF AuditInv
<1>1. ASSUME NEW w \in Workers, Write(w) PROVE PhaseInv'
  <2>1. Len(<<written + 1>>) = 1
    OBVIOUS
  <2> QED
    BY <1>1, <1>t, <2>1 DEF Write, AuditTypeOK
<1>2. ASSUME NEW w \in Workers, Flush(w) PROVE PhaseInv'
  BY <1>2, <1>t DEF Flush, AuditTypeOK
<1>3. ASSUME NEW w \in Workers, Send(w) PROVE PhaseInv'
  BY <1>3, <1>t DEF Send, AuditTypeOK
<1>4. ASSUME NEW w \in Workers, NoAnswer(w) PROVE PhaseInv'
  BY <1>4, <1>t DEF NoAnswer, AuditTypeOK
<1>5. ASSUME NEW w \in Workers, PostAnswered(w) PROVE PhaseInv'
  <2>1. CASE Leave(w)
    BY <2>1, <1>t DEF Leave, AuditTypeOK
  <2>2. CASE job[w] = "flush" /\ auditPc' = [auditPc EXCEPT ![w] = "batch"]
             /\ UNCHANGED <<job, batch, delta>>
    BY <2>2, <1>t DEF AuditTypeOK
  <2> QED
    BY <1>5, <1>t, <2>1, <2>2 DEF PostAnswered, AuditTypeOK
<1>6. ASSUME NEW w \in Workers, Lock(w) PROVE PhaseInv'
  BY <1>6, <1>t DEF Lock, AuditTypeOK
<1>7. ASSUME NEW w \in Workers, Put(w) PROVE PhaseInv'
  <2> DEFINE n == Cardinality(ToSet(buffer) \ ToSet(Rotated(buffer, batch[w][1])))
  <2>1. /\ auditPc[w] = "append" /\ auditPc' = [auditPc EXCEPT ![w] = "stats"]
        /\ delta' = [delta EXCEPT ![w] = n] /\ UNCHANGED <<job, batch>>
    BY <1>7 DEF Put
  <2> HIDE DEF n
  <2> QED
    BY <1>t, <2>1 DEF AuditTypeOK
<1>8. ASSUME NEW w \in Workers, Stats(w) PROVE PhaseInv'
  BY <1>8, <1>t DEF Stats, Leave, AuditTypeOK
<1>9. ASSUME NEW w \in Workers, Load(w) PROVE PhaseInv'
  BY <1>9, <1>t DEF Load, AuditTypeOK
<1>10. ASSUME NEW w \in Workers, NextBatch(w) PROVE PhaseInv'
  <2>1. /\ auditPc[w] = "batch" /\ UNCHANGED <<job, delta>>
        /\ \A v \in Workers \ {w} : batch'[v] = batch[v]
        /\ \/ auditPc' = [auditPc EXCEPT ![w] = "rewrite"]
           \/ auditPc' = [auditPc EXCEPT ![w] = "post"]
    BY <1>10, <1>t DEF NextBatch, AuditTypeOK
  <2> QED
    BY <1>t, <2>1 DEF AuditTypeOK
<1>11. ASSUME NEW w \in Workers, Rewrite(w) PROVE PhaseInv'
  BY <1>11, <1>t DEF Rewrite, AuditTypeOK
<1>12. ASSUME NEW w \in Workers, WorkerCrashes(w) PROVE PhaseInv'
  BY <1>12, <1>t DEF WorkerCrashes, Leave, AuditTypeOK
<1>13. ASSUME NEW events \in net, AcceptBatch(events) PROVE PhaseInv'
  BY <1>13, <1>t DEF AcceptBatch, AuditTypeOK
<1> QED
  BY <1>1, <1>2, <1>3, <1>4, <1>5, <1>6, <1>7, <1>8, <1>9, <1>10, <1>11, <1>12, <1>13
  DEF AuditNext, Step

LEMMA LockStep == AuditInv /\ AuditNext => LockInv'
<1> SUFFICES ASSUME AuditInv, AuditNext PROVE LockInv'
  OBVIOUS
<1> USE DEF LockInv, Holding, AuditGoto
<1>t. AuditTypeOK /\ PhaseInv /\ LockInv
  BY DEF AuditInv
<1>1. ASSUME NEW w \in Workers, Write(w) PROVE LockInv'
  BY <1>1, <1>t DEF Write, AuditTypeOK, PhaseInv, file
<1>2. ASSUME NEW w \in Workers, Flush(w) PROVE LockInv'
  BY <1>2, <1>t DEF Flush, AuditTypeOK, file
<1>3. ASSUME NEW w \in Workers, Send(w) PROVE LockInv'
  BY <1>3, <1>t DEF Send, AuditTypeOK, file
<1>4. ASSUME NEW w \in Workers, NoAnswer(w) PROVE LockInv'
  BY <1>4, <1>t DEF NoAnswer, AuditTypeOK, file
<1>5. ASSUME NEW w \in Workers, PostAnswered(w) PROVE LockInv'
  <2>1. lock' = lock /\ auditPc[w] = "answered"
    BY <1>5 DEF PostAnswered, file
  <2>2. CASE Leave(w)
    BY <1>t, <2>1, <2>2 DEF Leave, AuditTypeOK
  <2>3. CASE job[w] = "flush" /\ auditPc' = [auditPc EXCEPT ![w] = "batch"] /\ job' = job
    BY <1>t, <2>1, <2>3 DEF AuditTypeOK
  <2> QED
    BY <1>5, <1>t, <2>2, <2>3 DEF PostAnswered, AuditTypeOK
<1>6. ASSUME NEW w \in Workers, Lock(w) PROVE LockInv'
  BY <1>6, <1>t, PipelineAssumption DEF Lock, Free, AuditTypeOK, Workers
<1>7. ASSUME NEW w \in Workers, Put(w) PROVE LockInv'
  <2>1. /\ auditPc[w] = "append" /\ auditPc' = [auditPc EXCEPT ![w] = "stats"]
        /\ UNCHANGED <<job, lock>>
    BY <1>7 DEF Put
  <2> QED
    BY <1>t, <2>1 DEF AuditTypeOK
<1>8. ASSUME NEW w \in Workers, Stats(w) PROVE LockInv'
  BY <1>8, <1>t DEF Stats, Leave, AuditTypeOK
<1>9. ASSUME NEW w \in Workers, Load(w) PROVE LockInv'
  BY <1>9, <1>t DEF Load, AuditTypeOK, file
<1>10. ASSUME NEW w \in Workers, NextBatch(w) PROVE LockInv'
  BY <1>10, <1>t DEF NextBatch, AuditTypeOK, file
<1>11. ASSUME NEW w \in Workers, Rewrite(w) PROVE LockInv'
  BY <1>11, <1>t DEF Rewrite, AuditTypeOK
<1>12. ASSUME NEW w \in Workers, WorkerCrashes(w) PROVE LockInv'
  BY <1>12, <1>t DEF WorkerCrashes, Released, Leave, AuditTypeOK
<1>13. ASSUME NEW events \in net, AcceptBatch(events) PROVE LockInv'
  BY <1>13, <1>t DEF AcceptBatch, AuditTypeOK, file
<1> QED
  BY <1>1, <1>2, <1>3, <1>4, <1>5, <1>6, <1>7, <1>8, <1>9, <1>10, <1>11, <1>12, <1>13
  DEF AuditNext, Step
-----------------------------------------------------------------------------
(* What the steps that move events do. *)

LEMMA PutEffect ==
    ASSUME AuditInv, NEW w \in Workers, Put(w)
    PROVE  LET event == batch[w][1]
               lost  == ToSet(buffer) \ ToSet(buffer')
               shift == Len(buffer) + 1 - Len(buffer')
           IN  /\ job[w] = "write" /\ auditPc[w] = "append" /\ lock = w
               /\ event \in Events /\ event \notin ToSet(appended) /\ event <= written
               /\ buffer' \in Seq(Events) /\ Len(buffer') \in 1..Len(buffer) + 1
               /\ \A i \in 1..Len(buffer') - 1 : buffer'[i] = buffer[shift + i]
               /\ buffer'[Len(buffer')] = event
               /\ appended' = Append(appended, event)
               /\ appended' \in Seq(Events) /\ Len(appended') = Len(appended) + 1
               /\ \A i \in 1..Len(appended) : appended'[i] = appended[i]
               /\ appended'[Len(appended')] = event
               /\ ToSet(appended') = ToSet(appended) \union {event}
               /\ gone' = gone \union lost
               /\ delta' = [delta EXCEPT ![w] = Cardinality(lost)]
               /\ auditPc' = [auditPc EXCEPT ![w] = "stats"]
               /\ UNCHANGED <<ledger, net, evicted, lock, job, batch, attempt, rest, written,
                              flushes, crashes, returned>>
<1> DEFINE event == batch[w][1]
<1>1. /\ auditPc[w] = "append" /\ buffer' = Rotated(buffer, event)
      /\ delta' = [delta EXCEPT ![w] =
                       Cardinality(ToSet(buffer) \ ToSet(Rotated(buffer, event)))]
      /\ appended' = Append(appended, event)
      /\ gone' = gone \union (ToSet(buffer) \ ToSet(Rotated(buffer, event)))
      /\ auditPc' = [auditPc EXCEPT ![w] = "stats"]
      /\ UNCHANGED <<ledger, net, evicted, lock, job, batch, attempt, rest, written,
                     flushes, crashes, returned>>
  BY DEF Put, AuditGoto, collector, bounds
<1>2. job[w] = "write" /\ Len(batch[w]) = 1 /\ batch[w] \in Seq(Events) /\ lock = w
  BY <1>1 DEF AuditInv, PhaseInv, LockInv, Holding, AuditTypeOK
<1>3. event \in Events
  BY <1>2, ElementOfSeq
<1>4. event \notin ToSet(appended) /\ event <= written
  BY <1>1, <1>2 DEF AuditInv, EventInv, Carries
<1>5. buffer \in Seq(Events) /\ Len(buffer) <= Capacity /\ appended \in Seq(Events)
  BY DEF AuditInv, AuditTypeOK
<1>6. /\ buffer' \in Seq(Events) /\ Len(buffer') \in 1..Len(buffer) + 1
      /\ \A i \in 1..Len(buffer') - 1 : buffer'[i] = buffer[Len(buffer) + 1 - Len(buffer') + i]
      /\ buffer'[Len(buffer')] = event
  <2> HIDE DEF event
  <2>1. LET new  == Rotated(buffer, event)
            lost == Len(buffer) + 1 - Len(new)
        IN  /\ new \in Seq(Events) /\ Len(new) \in 1..Len(buffer) + 1
            /\ \A i \in 1..Len(new) - 1 : new[i] = buffer[lost + i]
            /\ new[Len(new)] = event
    BY ONLY <1>3, <1>5, RotatedBuffer
  <2> QED
    BY <1>1, <2>1
<1>7. /\ appended' \in Seq(Events) /\ Len(appended') = Len(appended) + 1
      /\ \A i \in 1..Len(appended) : appended'[i] = appended[i]
      /\ appended'[Len(appended')] = event
  BY <1>1, <1>3, <1>5, AppendProperties
<1>8. ToSet(appended') = ToSet(appended) \union {event}
  BY <1>1, <1>3, <1>5, AppendSet
<1> HIDE DEF event
<1> QED
  BY <1>1, <1>2, <1>3, <1>4, <1>6, <1>7, <1>8 DEF event

LEMMA AcceptEffect ==
    ASSUME AuditInv, NEW events \in net, AcceptBatch(events)
    PROVE  /\ ledger' \in Seq(Events) /\ IsInjective(ledger')
           /\ ToSet(ledger') \subseteq ToSet(ledger) \union ToSet(events)
           /\ ToSet(ledger) \subseteq ToSet(ledger')
           /\ Valid(events) => ToSet(events) \subseteq ToSet(ledger')
           /\ UNCHANGED <<net, buffer, evicted, lock, job, batch, attempt, rest, delta,
                          written, flushes, crashes, appended, gone, returned>>
<1>1. /\ ledger \in Seq(Events) /\ events \in Seq(Events)
      /\ IsInjective(ledger) /\ IsInjective(events)
  BY DEF AuditInv, AuditTypeOK, RecordedOnce, BatchInv
<1>2. /\ Fresh(events) \in Seq(Events) /\ IsInjective(Fresh(events))
      /\ ToSet(Fresh(events)) = ToSet(events) \ ToSet(ledger)
  BY <1>1, FreshEvents
<1>3. /\ ledger \o Fresh(events) \in Seq(Events) /\ IsInjective(ledger \o Fresh(events))
      /\ ToSet(ledger \o Fresh(events)) = ToSet(ledger) \union ToSet(events)
  BY <1>1, <1>2, ConcatSet, ConcatInjective
<1>4. /\ ledger' = IF Valid(events) THEN ledger \o Fresh(events) ELSE ledger
      /\ UNCHANGED <<net, buffer, evicted, lock, job, batch, attempt, rest, delta,
                     written, flushes, crashes, appended, gone, returned>>
  BY DEF AcceptBatch, file, bounds, history
<1> QED
  BY <1>1, <1>3, <1>4

\* A worker that leaves has no event and no request any more.
LEMMA LeaveEffect ==
    ASSUME AuditInv, NEW w \in Workers, Leave(w)
    PROVE  /\ auditPc'[w] = "idle" /\ job'[w] = "write" /\ delta'[w] = 0
           /\ \A v \in Workers \ {w} :
                  /\ auditPc'[v] = auditPc[v] /\ job'[v] = job[v] /\ batch'[v] = batch[v]
                  /\ rest'[v] = rest[v] /\ delta'[v] = delta[v]
  BY DEF AuditInv, AuditTypeOK, Leave, AuditGoto

-----------------------------------------------------------------------------
(* An event has one writer, and is put in the buffer once. *)

\* A step after which no worker carries an event it did not carry before.
LEMMA EventQuiet ==
    ASSUME AuditInv, UNCHANGED <<appended, written>>,
           \A w \in Workers : Carries(w)' => Carries(w) /\ batch'[w] = batch[w]
    PROVE  EventInv'
  BY DEF AuditInv, EventInv

LEMMA EventStep == AuditInv /\ AuditNext => EventInv'
<1> SUFFICES ASSUME AuditInv, AuditNext PROVE EventInv'
  OBVIOUS
<1> USE DEF AuditGoto, Carries
<1>t. AuditTypeOK /\ PhaseInv /\ EventInv
  BY DEF AuditInv
<1>1. ASSUME NEW w \in Workers, Write(w) PROVE EventInv'
  <2>1. /\ auditPc' = [auditPc EXCEPT ![w] = "post"] /\ written' = written + 1
        /\ batch' = [batch EXCEPT ![w] = <<written + 1>>] /\ UNCHANGED <<job, appended>>
    BY <1>1 DEF Write, history
  <2>2. <<written + 1>>[1] = written + 1 /\ written \in Nat
    BY <1>t DEF AuditTypeOK
  <2>3. ASSUME NEW v \in Workers, v # w
        PROVE  /\ Carries(v)' <=> Carries(v)
               /\ batch'[v] = batch[v]
    BY <1>t, <2>1, <2>3 DEF AuditTypeOK
  <2>4. batch'[w][1] = written + 1
    BY <1>t, <2>1, <2>2 DEF AuditTypeOK
  <2>5. \A e \in ToSet(appended) : e <= written
    BY <1>t DEF EventInv, ToSet
  <2>6. appended \in Seq(Events) /\ \A i \in DOMAIN appended : appended[i] \in Nat
    <3>1. appended \in Seq(Events) /\ Events \subseteq Nat
      BY <1>t, PipelineAssumption DEF AuditTypeOK, Events
    <3> QED
      BY <3>1, ElementOfSeq, LenProperties
  <2>7. \A v \in Workers : Carries(v) => batch[v][1] <= written /\ batch[v][1] # written + 1
    BY <1>t, <2>2 DEF EventInv
  <2>8. \A v \in Workers : Carries(v) =>
           /\ batch[v][1] \notin ToSet(appended)
           /\ \A u \in Workers : Carries(u) /\ batch[u][1] = batch[v][1] => u = v
    BY <1>t DEF EventInv
  <2>9. /\ written + 1 \notin ToSet(appended)
        /\ \A v \in Workers : Carries(v) => batch[v][1] <= written + 1
        /\ \A i \in DOMAIN appended : appended[i] <= written + 1
    <3>1. ~(written + 1 <= written)
      BY <2>2
    <3>2. \A v \in Workers : Carries(v) => batch[v][1] <= written + 1
      <4>1. ASSUME NEW v \in Workers, Carries(v) PROVE batch[v][1] \in Nat
        <5>1. Len(batch[v]) = 1 /\ batch[v] \in Seq(Events)
          BY <1>t, <4>1 DEF PhaseInv, AuditTypeOK
        <5>2. batch[v][1] \in Events
          BY <5>1, ElementOfSeq
        <5> QED
          BY <5>2, PipelineAssumption DEF Events
      <4> QED
        BY <2>2, <2>7, <4>1
    <3>3. \A i \in DOMAIN appended : appended[i] <= written + 1
      BY <1>t, <2>2, <2>6 DEF EventInv
    <3> QED
      BY <2>5, <3>1, <3>2, <3>3
  <2> HIDE DEF Carries
  <2>10. IsInjective(appended')
    BY <1>t, <2>1 DEF EventInv
  <2>11. ASSUME NEW v \in Workers, Carries(v)'
         PROVE  /\ batch'[v][1] <= written'
                /\ batch'[v][1] \notin ToSet(appended')
                /\ \A u \in Workers : Carries(u)' /\ batch'[u][1] = batch'[v][1] => u = v
    <3>1. CASE v = w
      <4>1. ASSUME NEW u \in Workers, Carries(u)', batch'[u][1] = batch'[v][1], u # w
            PROVE  FALSE
        BY <2>3, <2>4, <2>7, <3>1, <4>1
      <4> QED
        BY <2>1, <2>2, <2>4, <2>9, <3>1, <4>1
    <3>2. CASE v # w
      <4>1. Carries(v) /\ batch'[v] = batch[v]
        BY <2>3, <2>11, <3>2
      <4>2. ASSUME NEW u \in Workers, Carries(u)', batch'[u][1] = batch'[v][1]
            PROVE  u = v
        BY <2>3, <2>4, <2>7, <2>8, <4>1, <4>2
      <4> QED
        BY <2>1, <2>8, <2>9, <4>1, <4>2
    <3> QED
      BY <3>1, <3>2
  <2> QED
    BY <2>1, <2>9, <2>10, <2>11 DEF EventInv
<1>2. ASSUME NEW w \in Workers, Flush(w) PROVE EventInv'
  BY <1>2, <1>t, EventQuiet DEF Flush, AuditTypeOK, history
<1>3. ASSUME NEW w \in Workers, Send(w) PROVE EventInv'
  BY <1>3, <1>t, EventQuiet DEF Send, AuditTypeOK, bounds, history
<1>4. ASSUME NEW w \in Workers, NoAnswer(w) PROVE EventInv'
  BY <1>4, <1>t, EventQuiet DEF NoAnswer, AuditTypeOK, bounds, history
<1>5. ASSUME NEW w \in Workers, PostAnswered(w) PROVE EventInv'
  <2>1. \A v \in Workers : Carries(v)' => Carries(v) /\ batch'[v] = batch[v]
    <3>1. CASE job[w] = "write"
      BY <1>5, <3>1, LeaveEffect DEF PostAnswered
    <3>2. CASE job[w] # "write"
      BY <1>5, <1>t, <3>2 DEF PostAnswered, AuditTypeOK
    <3> QED
      BY <3>1, <3>2
  <2>2. UNCHANGED <<appended, written>>
    BY <1>5 DEF PostAnswered, bounds
  <2> QED
    BY <2>1, <2>2, EventQuiet
<1>6. ASSUME NEW w \in Workers, Lock(w) PROVE EventInv'
  BY <1>6, <1>t, EventQuiet DEF Lock, AuditTypeOK, bounds, history
<1>7. ASSUME NEW w \in Workers, Put(w) PROVE EventInv'
  <2> DEFINE event == batch[w][1]
             n == Len(appended)
  <2>1. /\ event \notin ToSet(appended) /\ event <= written /\ UNCHANGED <<batch, written, job>>
        /\ appended' \in Seq(Events) /\ Len(appended') = n + 1
        /\ \A i \in 1..n : appended'[i] = appended[i]
        /\ appended'[n + 1] = event
        /\ ToSet(appended') = ToSet(appended) \union {event}
        /\ auditPc[w] = "append" /\ job[w] = "write"
        /\ auditPc' = [auditPc EXCEPT ![w] = "stats"]
    BY <1>7, PutEffect
  <2>2. appended \in Seq(Events) /\ n \in Nat /\ DOMAIN appended = 1..n
        /\ DOMAIN appended' = 1..n + 1
    BY <1>t, <2>1, LenProperties DEF AuditTypeOK
  <2>3. \A v \in Workers : Carries(v)' => Carries(v) /\ v # w
    BY <1>t, <2>1 DEF AuditTypeOK
  <2>4. Carries(w)
    BY <2>1
  <2> HIDE DEF Carries, event, n
  <2>5. \A v \in Workers : Carries(v)' =>
           /\ batch'[v][1] <= written' /\ batch'[v][1] \notin ToSet(appended')
           /\ \A u \in Workers : Carries(u)' /\ batch'[u][1] = batch'[v][1] => u = v
    BY <1>t, <2>1, <2>3, <2>4 DEF EventInv, event
  <2>6. \A i \in 1..n : appended[i] # event
    BY <2>1, <2>2 DEF ToSet
  <2>7. IsInjective(appended')
    <3>1. ASSUME NEW i \in 1..n + 1, NEW j \in 1..n + 1, appended'[i] = appended'[j]
          PROVE  i = j
      BY <1>t, <2>1, <2>2, <2>6, <3>1 DEF EventInv, IsInjective
    <3> QED
      BY <2>2, <3>1 DEF IsInjective
  <2>8. \A i \in DOMAIN appended' : appended'[i] <= written'
    BY <1>t, <2>1, <2>2 DEF EventInv
  <2> QED
    BY <2>5, <2>7, <2>8 DEF EventInv
<1>8. ASSUME NEW w \in Workers, Stats(w) PROVE EventInv'
  BY <1>8, LeaveEffect, EventQuiet DEF Stats, bounds
<1>9. ASSUME NEW w \in Workers, Load(w) PROVE EventInv'
  BY <1>9, <1>t, EventQuiet DEF Load, AuditTypeOK, bounds, history
<1>10. ASSUME NEW w \in Workers, NextBatch(w) PROVE EventInv'
  <2>1. job[w] = "flush" /\ job' = job
    BY <1>10, <1>t DEF NextBatch, PhaseInv, AuditTypeOK
  <2>2. \A v \in Workers \ {w} : auditPc'[v] = auditPc[v] /\ batch'[v] = batch[v]
    BY <1>10, <1>t DEF NextBatch, AuditTypeOK
  <2> QED
    BY <1>10, <2>1, <2>2, EventQuiet DEF NextBatch, bounds, history
<1>11. ASSUME NEW w \in Workers, Rewrite(w) PROVE EventInv'
  BY <1>11, <1>t, EventQuiet DEF Rewrite, AuditTypeOK, bounds, history
<1>12. ASSUME NEW w \in Workers, WorkerCrashes(w) PROVE EventInv'
  BY <1>12, LeaveEffect, EventQuiet DEF WorkerCrashes, history
<1>13. ASSUME NEW events \in net, AcceptBatch(events) PROVE EventInv'
  BY <1>13, <1>t, EventQuiet DEF AcceptBatch, AuditTypeOK, bounds, history
<1> QED
  BY <1>1, <1>2, <1>3, <1>4, <1>5, <1>6, <1>7, <1>8, <1>9, <1>10, <1>11, <1>12, <1>13
  DEF AuditNext, Step

LEMMA PutStep == AuditInv /\ AuditNext => PutInv'
<1> SUFFICES ASSUME AuditInv, AuditNext PROVE PutInv'
  OBVIOUS
<1>t. AuditTypeOK /\ PhaseInv /\ PutInv
  BY DEF AuditInv
<1> DEFINE Counting(w) == job[w] = "write" /\ auditPc[w] = "stats"
\* No step but Put brings a write there, and none takes an event from the history.
<1>1. ASSUME ToSet(appended) \subseteq ToSet(appended'),
             \A w \in Workers : Counting(w)' => Counting(w) /\ batch'[w] = batch[w]
      PROVE  PutInv'
  BY <1>1, <1>t DEF PutInv
<1>2. ASSUME NEW w \in Workers, Put(w) PROVE PutInv'
  <2>1. /\ ToSet(appended') = ToSet(appended) \union {batch[w][1]} /\ UNCHANGED <<batch, job>>
        /\ auditPc' = [auditPc EXCEPT ![w] = "stats"]
    BY <1>2, PutEffect
  <2> QED
    BY <1>t, <2>1 DEF PutInv, AuditTypeOK
<1>3. ASSUME NEW w \in Workers,
             Write(w) \/ Flush(w) \/ Send(w) \/ NoAnswer(w) \/ Lock(w) \/ Load(w)
      PROVE  PutInv'
  BY <1>1, <1>3, <1>t DEF Write, Flush, Send, NoAnswer, Lock, Load, AuditGoto, AuditTypeOK, history
<1>4. ASSUME NEW w \in Workers, PostAnswered(w) PROVE PutInv'
  <2>1. \A v \in Workers : Counting(v)' => Counting(v) /\ batch'[v] = batch[v]
    <3>1. CASE job[w] = "write"
      BY <1>4, <3>1, LeaveEffect DEF PostAnswered
    <3>2. CASE job[w] # "write"
      BY <1>4, <1>t, <3>2 DEF PostAnswered, AuditTypeOK, AuditGoto
    <3> QED
      BY <3>1, <3>2
  <2> QED
    BY <1>1, <1>4, <2>1 DEF PostAnswered
<1>5. ASSUME NEW w \in Workers, Stats(w) \/ WorkerCrashes(w) PROVE PutInv'
  BY <1>1, <1>5, LeaveEffect DEF Stats, WorkerCrashes, history
<1>6. ASSUME NEW w \in Workers, NextBatch(w) PROVE PutInv'
  <2>1. job[w] = "flush" /\ job' = job
    BY <1>6, <1>t DEF NextBatch, PhaseInv, AuditTypeOK
  <2>2. \A v \in Workers \ {w} : auditPc'[v] = auditPc[v] /\ batch'[v] = batch[v]
    BY <1>6, <1>t DEF NextBatch, AuditTypeOK, AuditGoto
  <2> QED
    BY <1>1, <1>6, <2>1, <2>2 DEF NextBatch, history
<1>7. ASSUME NEW w \in Workers, Rewrite(w) PROVE PutInv'
  <2>1. job[w] = "flush"
    BY <1>7, <1>t DEF Rewrite, PhaseInv, AuditTypeOK
  <2> QED
    BY <1>1, <1>7, <1>t, <2>1 DEF Rewrite, AuditGoto, AuditTypeOK, history
<1>8. ASSUME NEW events \in net, AcceptBatch(events) PROVE PutInv'
  BY <1>1, <1>8, <1>t DEF AcceptBatch, AuditTypeOK, AuditGoto, history
<1> QED
  BY <1>2, <1>3, <1>4, <1>5, <1>6, <1>7, <1>8 DEF AuditNext, Step
-----------------------------------------------------------------------------
(* What a flush has delivered, and what it has still to deliver. *)

\* A worker that a step leaves where it was, with its part of the buffer.
LEMMA RestQuiet ==
    ASSUME RestInv, NEW w \in Workers, buffer' = buffer, ToSet(ledger) \subseteq ToSet(ledger'),
           rest'[w] = rest[w], batch'[w] = batch[w], job'[w] = job[w],
           \/ auditPc'[w] = auditPc[w]
           \/ auditPc[w] \in {"post", "wait"} /\ auditPc'[w] \in {"post", "wait", "answered", "rewrite"}
    PROVE  RestOf(w)'
  BY DEF RestInv, RestOf, Flushing, Delivered

\* Only the holder of the lock is in a flush.
LEMMA OneFlush ==
    ASSUME AuditInv, NEW w \in Workers, NEW v \in Workers, lock = w, v # w
    PROVE  ~Flushing(v)
  BY DEF AuditInv, LockInv, Holding, Flushing

LEMMA RestStep == AuditInv /\ AuditNext => RestInv'
<1> SUFFICES ASSUME AuditInv, AuditNext PROVE RestInv'
  OBVIOUS
<1> USE DEF AuditGoto
<1>t. AuditTypeOK /\ PhaseInv /\ RestInv /\ LockInv
  BY DEF AuditInv
\* A step of w that changes neither the buffer nor the record.
<1>q. ASSUME NEW w \in Workers, UNCHANGED <<buffer, ledger>>, RestOf(w)',
             \A v \in Workers \ {w} :
                 /\ rest'[v] = rest[v] /\ batch'[v] = batch[v] /\ job'[v] = job[v]
                 /\ auditPc'[v] = auditPc[v]
      PROVE  RestInv'
  BY <1>q, <1>t, RestQuiet DEF RestInv
<1>1. ASSUME NEW w \in Workers, Leave(w), UNCHANGED <<buffer, ledger>> PROVE RestInv'
  <2>1. RestOf(w)'
    BY <1>1, LeaveEffect DEF RestOf, Flushing
  <2> QED
    BY <1>1, <1>q, <2>1, LeaveEffect
<1>2. ASSUME NEW w \in Workers, Write(w) PROVE RestInv'
  <2>1. RestOf(w)'
    BY <1>2, <1>t DEF Write, RestOf, Flushing, PhaseInv, AuditTypeOK
  <2> QED
    BY <1>2, <1>q, <1>t, <2>1 DEF Write, collector, file, AuditTypeOK
<1>3. ASSUME NEW w \in Workers, Flush(w) PROVE RestInv'
  <2>1. RestOf(w)'
    BY <1>3, <1>t DEF Flush, RestOf, Flushing, AuditTypeOK
  <2> QED
    BY <1>3, <1>q, <1>t, <2>1 DEF Flush, collector, file, AuditTypeOK
<1>4. ASSUME NEW w \in Workers, Send(w) PROVE RestInv'
  <2>1. RestOf(w)'
    BY <1>4, <1>t, RestQuiet DEF Send, file, AuditTypeOK
  <2> QED
    BY <1>4, <1>q, <1>t, <2>1 DEF Send, file, AuditTypeOK
<1>5. ASSUME NEW w \in Workers, NoAnswer(w) PROVE RestInv'
  <2>1. RestOf(w)'
    <3>1. CASE job[w] = "write"
      BY <1>5, <1>t, <3>1 DEF NoAnswer, RestOf, Flushing, AuditTypeOK
    <3>2. CASE job[w] # "write"
      BY <1>5, <1>t, <3>2, RestQuiet DEF NoAnswer, collector, file, AuditTypeOK
    <3> QED
      BY <3>1, <3>2
  <2> QED
    BY <1>5, <1>q, <1>t, <2>1 DEF NoAnswer, collector, file, AuditTypeOK
<1>6. ASSUME NEW w \in Workers, PostAnswered(w) PROVE RestInv'
  <2>1. CASE job[w] = "write"
    BY <1>1, <1>6, <2>1 DEF PostAnswered, collector, file
  <2>2. CASE job[w] # "write"
    <3> DEFINE n == Len(rest[w])
               k == Len(batch[w])
               d == Delivered(w)
               left == SubSeq(rest[w], k + 1, n)
    <3>1. /\ auditPc[w] = "answered" /\ job[w] = "flush"
          /\ rest' = [rest EXCEPT ![w] = left] /\ auditPc' = [auditPc EXCEPT ![w] = "batch"]
          /\ UNCHANGED <<buffer, ledger, job, batch>>
      BY <1>6, <1>t, <2>2 DEF PostAnswered, AuditTypeOK, collector, file
    <3>2. /\ rest[w] \in Seq(Events) /\ batch[w] \in Seq(Events) /\ buffer \in Seq(Events)
          /\ n \in Nat /\ k \in Nat /\ Len(buffer) \in Nat /\ k <= n
          /\ n <= Len(buffer) /\ d = Len(buffer) - n
      BY <1>t, <3>1, LenProperties DEF AuditTypeOK, RestInv, RestOf, Flushing, Delivered
    <3>3. /\ \A i \in 1..n : rest[w][i] = buffer[d + i]
          /\ \A i \in 1..d : buffer[i] \in ToSet(ledger)
          /\ \A i \in 1..k : batch[w][i] = rest[w][i]
      BY <1>t, <3>1 DEF RestInv, RestOf, Flushing
    <3>4. ToSet(batch[w]) \subseteq ToSet(ledger)
      BY <3>1 DEF AuditInv, BatchInv
    <3>5. /\ left \in Seq(Events) /\ Len(left) = n - k
          /\ \A i \in 1..n - k : left[i] = rest[w][k + i]
      <4>1. k + 1 \in 1..n + 1 /\ n \in 0..n
        BY <3>2
      <4>2. /\ left \in Seq(Events)
            /\ Len(left) = IF k + 1 <= n THEN n - (k + 1) + 1 ELSE 0
            /\ \A i \in 1..Len(left) : left[i] = rest[w][k + 1 + i - 1]
        BY <3>2, <4>1, SubSeqEvents
      <4>3. \A i \in 1..n - k : k + 1 + i - 1 = k + i
        BY <3>2
      <4> HIDE DEF left, n, k
      <4>4. (IF k + 1 <= n THEN n - (k + 1) + 1 ELSE 0) = n - k
        BY <3>2
      <4>5. left \in Seq(Events) /\ Len(left) = n - k
        BY <4>2, <4>4
      <4>6. ASSUME NEW i \in 1..n - k PROVE left[i] = rest[w][k + i]
        BY <4>2, <4>3, <4>5
      <4> QED
        BY <4>5, <4>6
    <3>6. rest'[w] = left /\ auditPc'[w] = "batch"
      BY <1>t, <3>1 DEF AuditTypeOK
    <3> HIDE DEF left, n, k, d
    <3>7. Delivered(w)' = d + k
      <4>1. Delivered(w)' = Len(buffer) - Len(left)
        BY <3>1, <3>6 DEF Delivered
      <4> QED
        BY <3>2, <3>5, <4>1
    <3>8. \A i \in 1..n - k : rest'[w][i] = buffer[d + k + i]
      <4> TAKE i \in 1..n - k
      <4>1. k + i \in 1..n /\ d + (k + i) = d + k + i
        BY <3>2
      <4> QED
        BY <3>3, <3>5, <3>6, <4>1
    <3>9. \A i \in 1..d + k : buffer[i] \in ToSet(ledger)
      <4>1. ASSUME NEW i \in 1..d + k, ~(i <= d) PROVE buffer[i] \in ToSet(ledger)
        <5>1. i - d \in 1..k /\ i - d \in 1..n /\ d + (i - d) = i
          BY <3>2, <4>1
        <5>2. buffer[i] = batch[w][i - d]
          BY <3>3, <5>1
        <5>3. buffer[i] \in ToSet(batch[w])
          BY <3>2, <5>1, <5>2, InSet DEF k
        <5> QED
          BY <3>4, <5>3
      <4>2. ASSUME NEW i \in 1..d + k, i <= d PROVE buffer[i] \in ToSet(ledger)
        <5>1. i \in 1..d
          BY <3>2, <4>2
        <5> QED
          BY <3>3, <5>1
      <4> QED
        BY <4>1, <4>2
    <3>10. RestOf(w)'
      <4>1. Len(rest'[w]) = n - k /\ n - k <= Len(buffer)
        BY <3>2, <3>5, <3>6
      <4> QED
        BY <3>1, <3>6, <3>7, <3>8, <3>9, <4>1 DEF RestOf
    <3> QED
      BY <1>q, <1>t, <3>1, <3>10 DEF AuditTypeOK
  <2> QED
    BY <2>1, <2>2
<1>7. ASSUME NEW w \in Workers, Lock(w) PROVE RestInv'
  <2>1. RestOf(w)'
    BY <1>7, <1>t DEF Lock, RestOf, Flushing, AuditTypeOK
  <2> QED
    BY <1>7, <1>q, <1>t, <2>1 DEF Lock, collector, AuditTypeOK
<1>8. ASSUME NEW w \in Workers, Put(w) PROVE RestInv'
  <2>1. /\ job[w] = "write" /\ lock = w /\ job' = job
        /\ auditPc' = [auditPc EXCEPT ![w] = "stats"]
    BY <1>8, PutEffect
  <2> QED
    BY <1>t, <2>1, OneFlush DEF RestInv, RestOf, Flushing, AuditTypeOK
<1>9. ASSUME NEW w \in Workers, Stats(w) PROVE RestInv'
  BY <1>1, <1>9 DEF Stats, collector
<1>10. ASSUME NEW w \in Workers, Load(w) PROVE RestInv'
  <2>1. /\ rest'[w] = buffer /\ auditPc'[w] = "batch" /\ UNCHANGED <<buffer, ledger>>
        /\ \A v \in Workers \ {w} :
                 /\ rest'[v] = rest[v] /\ batch'[v] = batch[v] /\ job'[v] = job[v]
                 /\ auditPc'[v] = auditPc[v]
    BY <1>10, <1>t DEF Load, collector, file, AuditTypeOK
  <2>2. Delivered(w)' = 0 /\ Len(buffer) \in Nat
    BY <1>t, <2>1, LenProperties DEF Delivered, AuditTypeOK
  <2>3. RestOf(w)'
    BY <2>1, <2>2 DEF RestOf
  <2> QED
    BY <1>q, <2>1, <2>3
<1>11. ASSUME NEW w \in Workers, NextBatch(w) PROVE RestInv'
  <2> DEFINE n == IF Len(rest[w]) < BatchSize THEN Len(rest[w]) ELSE BatchSize
             first == SubSeq(rest[w], 1, n)
  <2>1. /\ auditPc[w] = "batch" /\ UNCHANGED <<buffer, ledger, rest, job>>
        /\ \A v \in Workers \ {w} : batch'[v] = batch[v] /\ auditPc'[v] = auditPc[v]
        /\ \/ auditPc'[w] = "rewrite"
           \/ auditPc'[w] = "post" /\ batch'[w] = first
    BY <1>11, <1>t DEF NextBatch, collector, file, AuditTypeOK
  <2>2. 1 \in 1..Len(rest[w]) + 1 /\ n \in 0..Len(rest[w]) /\ rest[w] \in Seq(Events)
    BY <1>t, PipelineAssumption, LenProperties DEF AuditTypeOK
  <2> HIDE DEF n
  <2>3. /\ Len(first) <= Len(rest[w])
        /\ \A i \in 1..Len(first) : first[i] = rest[w][i]
    <3>1. /\ Len(first) = IF 1 <= n THEN n - 1 + 1 ELSE 0
          /\ \A i \in 1..Len(first) : first[i] = rest[w][1 + i - 1]
      BY <2>2, SubSeqEvents
    <3> HIDE DEF first
    <3> QED
      BY <2>2, <3>1
  <2> HIDE DEF first
  <2>4. job[w] = "flush"
    BY <1>t, <2>1 DEF PhaseInv, AuditTypeOK
  <2>5. RestOf(w)'
    BY <1>t, <2>1, <2>3, <2>4 DEF RestInv, RestOf, Flushing, Delivered
  <2> QED
    BY <1>q, <2>1, <2>5
<1>12. ASSUME NEW w \in Workers, Rewrite(w) PROVE RestInv'
  <2>1. lock = w /\ job' = job /\ auditPc' = [auditPc EXCEPT ![w] = "stats"]
    BY <1>12, <1>t DEF Rewrite, LockInv, Holding
  <2> QED
    BY <1>t, <2>1, OneFlush DEF RestInv, RestOf, Flushing, AuditTypeOK
<1>13. ASSUME NEW w \in Workers, WorkerCrashes(w) PROVE RestInv'
  BY <1>1, <1>13 DEF WorkerCrashes, collector
<1>14. ASSUME NEW events \in net, AcceptBatch(events) PROVE RestInv'
  <2>1. ToSet(ledger) \subseteq ToSet(ledger') /\ UNCHANGED <<buffer, rest, batch, job>>
    BY <1>14, AcceptEffect
  <2>2. ASSUME NEW w \in Workers
        PROVE  \/ auditPc'[w] = auditPc[w]
               \/ auditPc[w] = "wait" /\ auditPc'[w] = "answered"
    BY <1>14, <1>t DEF AcceptBatch, AuditTypeOK
  <2> QED
    BY <1>t, <2>1, <2>2, RestQuiet DEF RestInv
<1> QED
  BY <1>2, <1>3, <1>4, <1>5, <1>6, <1>7, <1>8, <1>9, <1>10, <1>11, <1>12, <1>13, <1>14
  DEF AuditNext, Step
-----------------------------------------------------------------------------
(* No request holds an event twice. *)

\* A flush's batch is a part of the buffer, and that of what was put in it.
LEMMA BufferInjective ==
    ASSUME AuditInv
    PROVE  \A i, j \in 1..Len(buffer) : buffer[i] = buffer[j] => i = j
<1>1. /\ appended \in Seq(Events) /\ buffer \in Seq(Events) /\ IsInjective(appended)
      /\ Len(buffer) <= Len(appended)
      /\ \A i \in 1..Len(buffer) : buffer[i] = appended[Len(appended) - Len(buffer) + i]
  BY DEF AuditInv, AuditTypeOK, EventInv, SuffixInv
<1> DEFINE d == Len(appended) - Len(buffer)
<1>2. Len(appended) \in Nat /\ Len(buffer) \in Nat /\ d \in Nat
      /\ DOMAIN appended = 1..Len(appended)
  BY <1>1, LenProperties
<1> TAKE i, j \in 1..Len(buffer)
<1> HAVE buffer[i] = buffer[j]
<1>3. d + i \in DOMAIN appended /\ d + j \in DOMAIN appended
  BY <1>2
<1>4. appended[d + i] = appended[d + j]
  BY <1>1
<1>5. d + i = d + j
  BY <1>1, <1>3, <1>4 DEF IsInjective
<1> QED
  BY <1>2, <1>5

LEMMA BatchStep == AuditInv /\ AuditNext => BatchInv'
<1> SUFFICES ASSUME AuditInv, AuditNext PROVE BatchInv'
  OBVIOUS
<1> USE DEF AuditGoto
<1>t. AuditTypeOK /\ PhaseInv /\ BatchInv
  BY DEF AuditInv
<1> DEFINE Posting(w) == auditPc[w] \in {"post", "wait", "answered"}
           Sound(w) == Posting(w) =>
                          /\ IsInjective(batch[w])
                          /\ auditPc[w] = "answered" => ToSet(batch[w]) \subseteq ToSet(ledger)
\* A step of w that sends nothing and records nothing.
<1>q. ASSUME NEW w \in Workers, UNCHANGED <<net, ledger>>, Sound(w)',
             \A v \in Workers \ {w} : batch'[v] = batch[v] /\ auditPc'[v] = auditPc[v]
      PROVE  BatchInv'
  BY <1>q, <1>t DEF BatchInv
<1>l. ASSUME NEW w \in Workers, Leave(w), UNCHANGED <<net, ledger>> PROVE BatchInv'
  BY <1>l, <1>q, LeaveEffect
<1>1. ASSUME NEW w \in Workers, Write(w) PROVE BatchInv'
  <2>1. batch'[w] = <<written + 1>> /\ auditPc'[w] = "post"
    BY <1>1, <1>t DEF Write, AuditTypeOK
  <2>2. IsInjective(<<written + 1>>)
    BY DEF IsInjective
  <2>3. Sound(w)'
    BY <2>1, <2>2
  <2> QED
    BY <1>1, <1>q, <1>t, <2>3 DEF Write, collector, AuditTypeOK
<1>2. ASSUME NEW w \in Workers, Flush(w) \/ Lock(w) \/ Load(w) PROVE BatchInv'
  <2>1. Sound(w)'
    BY <1>2, <1>t DEF Flush, Lock, Load, AuditTypeOK
  <2> QED
    BY <1>2, <1>q, <1>t, <2>1 DEF Flush, Lock, Load, collector, AuditTypeOK
<1>3. ASSUME NEW w \in Workers, Send(w) PROVE BatchInv'
  <2>1. /\ auditPc[w] = "post" /\ net' = net \union {batch[w]} /\ UNCHANGED <<ledger, batch>>
        /\ auditPc' = [auditPc EXCEPT ![w] = "wait"]
    BY <1>3 DEF Send
  <2>2. \A events \in net' : IsInjective(events)
    BY <1>t, <2>1 DEF BatchInv
  <2>3. ASSUME NEW v \in Workers PROVE Sound(v)'
    BY <1>t, <2>1 DEF BatchInv, AuditTypeOK
  <2> QED
    BY <2>2, <2>3 DEF BatchInv
<1>4. ASSUME NEW w \in Workers, NoAnswer(w) PROVE BatchInv'
  <2>1. Sound(w)'
    BY <1>4, <1>t DEF NoAnswer, BatchInv, AuditTypeOK
  <2> QED
    BY <1>4, <1>q, <1>t, <2>1 DEF NoAnswer, collector, AuditTypeOK
<1>5. ASSUME NEW w \in Workers, PostAnswered(w) PROVE BatchInv'
  <2>1. CASE job[w] = "write"
    BY <1>5, <1>l, <2>1 DEF PostAnswered, collector
  <2>2. CASE job[w] # "write"
    <3>1. Sound(w)'
      BY <1>5, <1>t, <2>2 DEF PostAnswered, AuditTypeOK
    <3> QED
      BY <1>5, <1>q, <1>t, <2>2, <3>1 DEF PostAnswered, collector, AuditTypeOK
  <2> QED
    BY <2>1, <2>2
<1>6. ASSUME NEW w \in Workers, Put(w) PROVE BatchInv'
  <2>1. /\ auditPc' = [auditPc EXCEPT ![w] = "stats"] /\ UNCHANGED <<net, ledger, batch>>
    BY <1>6, PutEffect
  <2> QED
    BY <1>q, <1>t, <2>1 DEF AuditTypeOK
<1>7. ASSUME NEW w \in Workers, Stats(w) \/ WorkerCrashes(w) PROVE BatchInv'
  BY <1>7, <1>l DEF Stats, WorkerCrashes, collector
<1>8. ASSUME NEW w \in Workers, NextBatch(w) PROVE BatchInv'
  <2>1. /\ auditPc[w] = "batch" /\ UNCHANGED <<net, ledger, buffer, rest, job>>
        /\ \A v \in Workers \ {w} : batch'[v] = batch[v] /\ auditPc'[v] = auditPc[v]
        /\ auditPc'[w] \in {"rewrite", "post"}
    BY <1>8, <1>t DEF NextBatch, collector, file, AuditTypeOK
  <2>2. CASE auditPc'[w] = "rewrite"
    BY <1>q, <2>1, <2>2
  <2>3. CASE auditPc'[w] = "post"
    <3>1. RestOf(w)' /\ RestOf(w) /\ job[w] = "flush" /\ batch'[w] \in Seq(Events)
      BY <1>8, <1>t, <2>1, RestStep, AuditTypeStep
      DEF AuditInv, AuditTypeOK, PhaseInv, RestInv, AuditNext, Step
    <3>2. /\ Len(batch'[w]) <= Len(rest[w]) /\ Len(rest[w]) <= Len(buffer)
          /\ \A i \in 1..Len(batch'[w]) : batch'[w][i] = rest[w][i]
          /\ \A i \in 1..Len(rest[w]) : rest[w][i] = buffer[Delivered(w) + i]
      BY <2>1, <2>3, <3>1 DEF RestOf, Flushing
    <3>3. /\ Len(batch'[w]) \in Nat /\ Len(rest[w]) \in Nat /\ Len(buffer) \in Nat
          /\ DOMAIN batch'[w] = 1..Len(batch'[w]) /\ Delivered(w) = Len(buffer) - Len(rest[w])
      BY <1>t, <3>1, LenProperties DEF AuditTypeOK, Delivered
    <3>4. ASSUME NEW i \in 1..Len(batch'[w]), NEW j \in 1..Len(batch'[w]),
                 batch'[w][i] = batch'[w][j]
          PROVE  i = j
      <4>1. /\ i \in 1..Len(rest[w]) /\ j \in 1..Len(rest[w])
            /\ Delivered(w) + i \in 1..Len(buffer) /\ Delivered(w) + j \in 1..Len(buffer)
        BY <3>2, <3>3
      <4>2. buffer[Delivered(w) + i] = buffer[Delivered(w) + j]
        BY <3>2, <3>4, <4>1
      <4>3. Delivered(w) + i = Delivered(w) + j
        BY <4>1, <4>2, BufferInjective
      <4> QED
        BY <3>3, <4>3
    <3>5. IsInjective(batch'[w])
      BY <3>3, <3>4 DEF IsInjective
    <3> QED
      BY <1>q, <2>1, <2>3, <3>5
  <2> QED
    BY <2>1, <2>2, <2>3
<1>9. ASSUME NEW w \in Workers, Rewrite(w) PROVE BatchInv'
  BY <1>9, <1>q, <1>t DEF Rewrite, collector, AuditTypeOK
<1>10. ASSUME NEW events \in net, AcceptBatch(events) PROVE BatchInv'
  <2>1. /\ ToSet(ledger) \subseteq ToSet(ledger') /\ UNCHANGED <<net, batch>>
        /\ Valid(events) => ToSet(events) \subseteq ToSet(ledger')
    BY <1>10, AcceptEffect
  <2>2. ASSUME NEW v \in Workers
        PROVE  \/ auditPc'[v] = auditPc[v]
               \/ /\ auditPc[v] = "wait" /\ auditPc'[v] = "answered"
                  /\ Valid(events) /\ batch[v] = events
    BY <1>10, <1>t DEF AcceptBatch, AuditTypeOK
  <2>3. ASSUME NEW v \in Workers PROVE Sound(v)'
    BY <1>t, <2>1, <2>2 DEF BatchInv
  <2> QED
    BY <1>t, <2>1, <2>3 DEF BatchInv
<1> QED
  BY <1>1, <1>2, <1>3, <1>4, <1>5, <1>6, <1>7, <1>8, <1>9, <1>10 DEF AuditNext, Step
-----------------------------------------------------------------------------
(* What the buffer holds of all that was put in it. *)

\* The only steps that change the buffer or its histories.
LEMMA FileQuiet ==
    ASSUME AuditNext,
           ~\E w \in Workers : Put(w) \/ Rewrite(w)
    PROVE  UNCHANGED <<buffer, appended, gone>>
  BY DEF AuditNext, Step, Write, Flush, Send, NoAnswer, PostAnswered, Lock, Stats, Load,
         NextBatch, WorkerCrashes, AcceptBatch, file, history

LEMMA RewriteEffect ==
    ASSUME AuditInv, NEW w \in Workers, Rewrite(w)
    PROVE  /\ job[w] = "flush" /\ Flushing(w) /\ lock = w /\ auditPc[w] = "rewrite"
           /\ buffer' = rest[w] /\ Len(buffer') <= Len(buffer)
           /\ \A i \in 1..Len(buffer') : buffer'[i] = buffer[Delivered(w) + i]
           /\ \A i \in 1..Delivered(w) : buffer[i] \in ToSet(ledger)
           /\ auditPc' = [auditPc EXCEPT ![w] = "stats"]
           /\ UNCHANGED <<ledger, net, evicted, lock, job, batch, attempt, rest, delta,
                          written, flushes, crashes, appended, gone, returned>>
<1>1. job[w] = "flush" /\ auditPc[w] = "rewrite" /\ lock = w /\ RestOf(w)
  BY DEF Rewrite, AuditInv, PhaseInv, LockInv, Holding, RestInv, AuditTypeOK
<1> QED
  BY <1>1 DEF Rewrite, Remainder, RestOf, Flushing, AuditGoto, collector, bounds, history

LEMMA SuffixStep == AuditInv /\ AuditNext => SuffixInv'
<1> SUFFICES ASSUME AuditInv, AuditNext PROVE SuffixInv'
  OBVIOUS
<1> DEFINE m == Len(buffer)
           n == Len(appended)
<1>t. /\ buffer \in Seq(Events) /\ appended \in Seq(Events) /\ m \in Nat /\ n \in Nat
      /\ m <= n /\ \A i \in 1..m : buffer[i] = appended[n - m + i]
  BY LenProperties DEF AuditInv, AuditTypeOK, SuffixInv
<1>1. ASSUME NEW w \in Workers, Put(w) PROVE SuffixInv'
  <2> DEFINE k == Len(buffer')
  <2>1. /\ k \in 1..m + 1 /\ Len(appended') = n + 1
        /\ \A i \in 1..k - 1 : buffer'[i] = buffer[m + 1 - k + i]
        /\ \A i \in 1..n : appended'[i] = appended[i]
        /\ buffer'[k] = appended'[n + 1]
    BY <1>1, PutEffect
  <2> HIDE DEF k, m, n
  <2>2. \A i \in 1..k : buffer'[i] = appended'[n + 1 - k + i]
    <3> TAKE i \in 1..k
    <3>1. CASE i = k
      <4>1. n + 1 - k + i = n + 1
        BY <1>t, <2>1, <3>1
      <4> QED
        BY <2>1, <3>1, <4>1
    <3>2. CASE i # k
      <4>1. /\ i \in 1..k - 1 /\ m + 1 - k + i \in 1..m /\ n + 1 - k + i \in 1..n
            /\ n - m + (m + 1 - k + i) = n + 1 - k + i
        BY <1>t, <2>1, <3>2
      <4> QED
        BY <1>t, <2>1, <4>1
    <3> QED
      BY <3>1, <3>2
  <2>3. k <= Len(appended') /\ Len(appended') - k = n + 1 - k
    BY <1>t, <2>1
  <2> QED
    BY <2>2, <2>3 DEF SuffixInv, k
<1>2. ASSUME NEW w \in Workers, Rewrite(w) PROVE SuffixInv'
  <2> DEFINE k == Len(buffer')
  <2>1. /\ k <= m /\ \A i \in 1..k : buffer'[i] = buffer[m - k + i]
        /\ appended' = appended /\ k \in Nat
    <3>1. Delivered(w) = m - k /\ rest[w] \in Seq(Events)
      BY <1>2, RewriteEffect DEF Delivered, AuditInv, AuditTypeOK
    <3> QED
      BY <1>2, <3>1, RewriteEffect, LenProperties
  <2> HIDE DEF k, m, n
  <2>2. \A i \in 1..k : buffer'[i] = appended[n - k + i]
    <3> TAKE i \in 1..k
    <3>1. m - k + i \in 1..m /\ n - m + (m - k + i) = n - k + i
      BY <1>t, <2>1
    <3> QED
      BY <1>t, <2>1, <3>1
  <2> QED
    BY <1>t, <2>1, <2>2 DEF SuffixInv, k, n
<1>3. CASE ~\E w \in Workers : Put(w) \/ Rewrite(w)
  BY <1>3, FileQuiet DEF AuditInv, SuffixInv
<1> QED
  BY <1>1, <1>2, <1>3

LEMMA BufferOfAppended ==
    ASSUME AuditInv PROVE ToSet(buffer) \subseteq ToSet(appended)
<1>1. /\ buffer \in Seq(Events) /\ appended \in Seq(Events) /\ Len(buffer) <= Len(appended)
      /\ \A i \in 1..Len(buffer) : buffer[i] = appended[Len(appended) - Len(buffer) + i]
  BY DEF AuditInv, AuditTypeOK, SuffixInv
<1>2. ASSUME NEW e \in ToSet(buffer) PROVE e \in ToSet(appended)
  <2>1. PICK i \in 1..Len(buffer) : buffer[i] = e
    BY <1>1, InSet
  <2>2. Len(appended) - Len(buffer) + i \in 1..Len(appended)
    BY <1>1, LenProperties
  <2> QED
    BY <1>1, <2>1, <2>2, InSet
<1> QED
  BY <1>2

\* The events of a buffer after a put: its own, less what went, and the new one.
LEMMA PutSets ==
    ASSUME AuditInv, NEW w \in Workers, Put(w)
    PROVE  /\ ToSet(buffer') \subseteq ToSet(buffer) \union {batch[w][1]}
           /\ batch[w][1] \in ToSet(buffer')
           /\ ToSet(buffer) \subseteq ToSet(buffer') \union (ToSet(buffer) \ ToSet(buffer'))
<1> DEFINE m == Len(buffer)
           k == Len(buffer')
<1>1. /\ buffer' \in Seq(Events) /\ k \in 1..m + 1 /\ buffer'[k] = batch[w][1]
      /\ \A i \in 1..k - 1 : buffer'[i] = buffer[m + 1 - k + i]
  BY PutEffect
<1>2. buffer \in Seq(Events) /\ m \in Nat
  BY LenProperties DEF AuditInv, AuditTypeOK
<1>3. ASSUME NEW i \in 1..k PROVE buffer'[i] \in ToSet(buffer) \union {batch[w][1]}
  <2>1. CASE i = k
    BY <1>1, <2>1
  <2>2. CASE i # k
    <3>1. i \in 1..k - 1 /\ m + 1 - k + i \in 1..m
      BY <1>1, <1>2, <2>2
    <3> QED
      BY <1>1, <1>2, <3>1, InSet
  <2> QED
    BY <2>1, <2>2
<1>4. \A e : e \in ToSet(buffer') <=> \E i \in 1..k : buffer'[i] = e
  BY <1>1, InSet
<1> HIDE DEF k, m
<1>5. k \in 1..k
  BY <1>1, <1>2
<1>6. batch[w][1] \in ToSet(buffer')
  BY <1>1, <1>4, <1>5
<1>7. ASSUME NEW e \in ToSet(buffer') PROVE e \in ToSet(buffer) \union {batch[w][1]}
  BY <1>3, <1>4
<1> QED
  BY <1>6, <1>7

LEMMA RewriteSets ==
    ASSUME AuditInv, NEW w \in Workers, Rewrite(w)
    PROVE  /\ ToSet(buffer') \subseteq ToSet(buffer)
           /\ ToSet(buffer) \subseteq ToSet(buffer') \union ToSet(ledger)
<1> DEFINE m == Len(buffer)
           k == Len(buffer')
<1>1. /\ buffer' \in Seq(Events) /\ buffer \in Seq(Events) /\ m \in Nat /\ k \in Nat
      /\ k <= m /\ Delivered(w) = m - k
      /\ \A i \in 1..k : buffer'[i] = buffer[m - k + i]
      /\ \A i \in 1..m - k : buffer[i] \in ToSet(ledger)
  <2>1. /\ buffer' = rest[w] /\ k <= m
        /\ \A i \in 1..k : buffer'[i] = buffer[Delivered(w) + i]
        /\ \A i \in 1..Delivered(w) : buffer[i] \in ToSet(ledger)
    BY RewriteEffect
  <2>2. rest[w] \in Seq(Events) /\ buffer \in Seq(Events)
    BY DEF AuditInv, AuditTypeOK
  <2>3. Delivered(w) = m - k /\ m \in Nat /\ k \in Nat
    BY <2>1, <2>2, LenProperties DEF Delivered
  <2> HIDE DEF m, k
  <2> QED
    BY <2>1, <2>2, <2>3
<1>2. /\ \A e : e \in ToSet(buffer) <=> \E i \in 1..m : buffer[i] = e
      /\ \A e : e \in ToSet(buffer') <=> \E i \in 1..k : buffer'[i] = e
  BY <1>1, InSet
<1> HIDE DEF m, k
<1>3. ASSUME NEW e \in ToSet(buffer') PROVE e \in ToSet(buffer)
  <2>1. PICK i \in 1..k : buffer'[i] = e
    BY <1>2
  <2>2. m - k + i \in 1..m
    BY <1>1
  <2> QED
    BY <1>1, <1>2, <2>1, <2>2
<1>4. ASSUME NEW e \in ToSet(buffer) PROVE e \in ToSet(buffer') \union ToSet(ledger)
  <2>1. PICK i \in 1..m : buffer[i] = e
    BY <1>2
  <2>2. CASE i <= m - k
    BY <1>1, <2>1, <2>2
  <2>3. CASE ~(i <= m - k)
    <3>1. i - (m - k) \in 1..k /\ m - k + (i - (m - k)) = i
      BY <1>1, <2>3
    <3> QED
      BY <1>1, <1>2, <2>1, <3>1
  <2> QED
    BY <2>2, <2>3
<1> QED
  BY <1>3, <1>4

LEMMA KeptStep == AuditInv /\ AuditNext => KeptInv'
<1> SUFFICES ASSUME AuditInv, AuditNext PROVE KeptInv'
  OBVIOUS
<1>t. AuditTypeOK /\ PhaseInv /\ KeptInv /\ BatchInv /\ PutInv
  BY DEF AuditInv
<1>1. ASSUME NEW w \in Workers, Put(w) PROVE KeptInv'
  <2> DEFINE event == batch[w][1]
  <2>1. /\ event \notin ToSet(appended) /\ UNCHANGED <<ledger, returned>>
        /\ ToSet(appended') = ToSet(appended) \union {event}
        /\ gone' = gone \union (ToSet(buffer) \ ToSet(buffer'))
    BY <1>1, PutEffect
  <2>2. /\ ToSet(buffer') \subseteq ToSet(buffer) \union {event} /\ event \in ToSet(buffer')
        /\ ToSet(buffer) \subseteq ToSet(appended)
    BY <1>1, PutSets, BufferOfAppended
  <2> HIDE DEF event
  <2> QED
    BY <1>t, <2>1, <2>2 DEF KeptInv
<1>2. ASSUME NEW w \in Workers, Rewrite(w) PROVE KeptInv'
  <2>1. UNCHANGED <<ledger, returned, appended, gone>>
    BY <1>2, RewriteEffect
  <2> QED
    BY <1>2, <1>t, <2>1, RewriteSets DEF KeptInv
<1>3. ASSUME NEW events \in net, AcceptBatch(events) PROVE KeptInv'
  <2>1. ToSet(ledger) \subseteq ToSet(ledger') /\ UNCHANGED <<buffer, appended, gone, returned>>
    BY <1>3, AcceptEffect
  <2> QED
    BY <1>t, <2>1 DEF KeptInv
<1>4. ASSUME NEW w \in Workers, PostAnswered(w) PROVE KeptInv'
  <2>1. UNCHANGED <<ledger, buffer, appended, gone>> /\ auditPc[w] = "answered"
        /\ returned' \subseteq returned \union ToSet(batch[w])
    BY <1>4 DEF PostAnswered, collector, file
  <2>2. ToSet(batch[w]) \subseteq ToSet(ledger)
    BY <1>t, <2>1 DEF BatchInv
  <2> QED
    BY <1>t, <2>1, <2>2 DEF KeptInv
<1>5. ASSUME NEW w \in Workers, Stats(w) PROVE KeptInv'
  <2>1. UNCHANGED <<ledger, buffer, appended, gone>> /\ auditPc[w] = "stats"
        /\ returned' = IF job[w] = "write" THEN returned \union ToSet(batch[w]) ELSE returned
    BY <1>5 DEF Stats, collector
  <2>2. ASSUME job[w] = "write" PROVE ToSet(batch[w]) \subseteq ToSet(appended)
    <3>1. batch[w] \in Seq(Events) /\ Len(batch[w]) = 1 /\ batch[w][1] \in ToSet(appended)
      BY <1>t, <2>1, <2>2 DEF AuditTypeOK, PhaseInv, PutInv
    <3> QED
      BY <3>1, InSet
  <2> QED
    BY <1>t, <2>1, <2>2 DEF KeptInv
<1>6. ASSUME NEW w \in Workers,
             \/ Write(w) \/ Flush(w) \/ Send(w) \/ NoAnswer(w) \/ Lock(w) \/ Load(w)
             \/ NextBatch(w) \/ WorkerCrashes(w)
      PROVE  KeptInv'
  <2>1. UNCHANGED <<ledger, buffer, appended, gone, returned>>
    BY <1>6 DEF Write, Flush, Send, NoAnswer, Lock, Load, NextBatch, WorkerCrashes,
                collector, file, history
  <2> QED
    BY <1>t, <2>1 DEF KeptInv
<1> QED
  BY <1>1, <1>2, <1>3, <1>4, <1>5, <1>6 DEF AuditNext, Step

LEMMA CountStep == AuditInv /\ AuditNext => CountInv'
<1> SUFFICES ASSUME AuditInv, AuditNext, crashes' = 0 PROVE CountInv'
  BY DEF CountInv
<1>t. AuditTypeOK /\ PhaseInv /\ LockInv /\ CountInv
  BY DEF AuditInv
<1> DEFINE Counting(w) == auditPc[w] = "stats"
\* A step that neither puts nor counts.
<1>q. ASSUME UNCHANGED <<evicted, gone, crashes>>,
             \A w \in Workers : /\ auditPc'[w] = "stats" <=> auditPc[w] = "stats"
                                /\ auditPc[w] = "stats" => delta'[w] = delta[w]
      PROVE  CountInv'
  BY <1>q, <1>t DEF CountInv
\* A step that begins to count, of the worker that has the lock.
<1>b. ASSUME NEW w \in Workers, lock = w, auditPc[w] # "stats", crashes = 0
      PROVE  evicted = Cardinality(gone) /\ \A v \in Workers : auditPc[v] # "stats"
  <2>1. \A v \in Workers : auditPc[v] # "stats"
    BY <1>b, <1>t DEF LockInv, Holding
  <2> QED
    BY <1>b, <1>t, <2>1 DEF CountInv
<1>1. ASSUME NEW w \in Workers, Put(w) PROVE CountInv'
  <2> DEFINE lost == ToSet(buffer) \ ToSet(buffer')
  <2>1. /\ lock = w /\ auditPc[w] = "append" /\ UNCHANGED <<evicted, crashes>>
        /\ gone' = gone \union lost /\ delta' = [delta EXCEPT ![w] = Cardinality(lost)]
        /\ auditPc' = [auditPc EXCEPT ![w] = "stats"]
    BY <1>1, PutEffect
  <2>2. evicted = Cardinality(gone) /\ \A v \in Workers : auditPc[v] # "stats"
    BY <1>b, <2>1
  <2>3. IsFiniteSet(gone) /\ IsFiniteSet(lost) /\ gone \intersect lost = {}
    <3>1. IsFiniteSet(Events)
      BY PipelineAssumption, FS_Interval DEF Events
    <3>2. gone \in SUBSET Events /\ lost \in SUBSET Events
      BY <1>t, InSet DEF AuditTypeOK
    <3>3. gone \intersect lost = {}
      BY DEF AuditInv, KeptInv
    <3> QED
      BY <3>1, <3>2, <3>3, FS_Subset
  <2> HIDE DEF lost
  <2>4. Cardinality(gone') = Cardinality(gone) + Cardinality(lost)
        /\ Cardinality(gone) \in Nat /\ Cardinality(lost) \in Nat
    <3>1. Cardinality(gone \intersect lost) = 0
      BY <2>3, FS_EmptySet
    <3>2. Cardinality(gone \union lost) =
             Cardinality(gone) + Cardinality(lost) - Cardinality(gone \intersect lost)
      BY <2>3, FS_Union
    <3>3. Cardinality(gone) \in Nat /\ Cardinality(lost) \in Nat
      BY <2>3, FS_CardinalityType
    <3> QED
      BY <2>1, <3>1, <3>2, <3>3
  <2>5. /\ delta'[w] = Cardinality(lost) /\ auditPc'[w] = "stats"
        /\ \A v \in Workers \ {w} : auditPc'[v] # "stats"
    BY <1>t, <2>1, <2>2 DEF AuditTypeOK
  <2> QED
    BY <2>1, <2>2, <2>4, <2>5 DEF CountInv
<1>2. ASSUME NEW w \in Workers, Rewrite(w) PROVE CountInv'
  <2>1. /\ lock = w /\ auditPc[w] = "rewrite" /\ UNCHANGED <<evicted, crashes, gone, delta>>
        /\ auditPc' = [auditPc EXCEPT ![w] = "stats"]
    BY <1>2, RewriteEffect
  <2>2. evicted = Cardinality(gone) /\ \A v \in Workers : auditPc[v] # "stats"
    BY <1>b, <2>1
  <2>3. delta[w] = 0 /\ evicted \in Nat
    BY <1>t, <2>1 DEF PhaseInv, AuditTypeOK
  <2>4. auditPc'[w] = "stats" /\ \A v \in Workers \ {w} : auditPc'[v] # "stats"
    BY <1>t, <2>1, <2>2 DEF AuditTypeOK
  <2> QED
    BY <2>1, <2>2, <2>3, <2>4 DEF CountInv
<1>3. ASSUME NEW w \in Workers, Stats(w) PROVE CountInv'
  <2>1. /\ auditPc[w] = "stats" /\ evicted' = evicted + delta[w] /\ UNCHANGED <<crashes, gone>>
        /\ lock = w
    BY <1>3, <1>t DEF Stats, Counted, bounds, LockInv, Holding
  <2>2. \A v \in Workers : auditPc'[v] # "stats"
    BY <1>3, <1>t, <2>1, LeaveEffect DEF Stats, LockInv, Holding
  <2> QED
    BY <1>t, <2>1, <2>2 DEF CountInv
<1>4. ASSUME NEW w \in Workers, PostAnswered(w) PROVE CountInv'
  <2>1. UNCHANGED <<evicted, gone, crashes>> /\ auditPc[w] = "answered"
    BY <1>4 DEF PostAnswered, file, bounds
  <2>2. CASE job[w] = "write"
    BY <1>4, <1>q, <2>1, <2>2, LeaveEffect DEF PostAnswered
  <2>3. CASE job[w] # "write"
    BY <1>4, <1>q, <1>t, <2>1, <2>3 DEF PostAnswered, AuditGoto, AuditTypeOK
  <2> QED
    BY <2>2, <2>3
<1>5. ASSUME NEW w \in Workers, WorkerCrashes(w) PROVE CountInv'
  <2>1. crashes' = crashes + 1 /\ crashes \in Nat
    BY <1>5, <1>t, PipelineAssumption DEF WorkerCrashes, AuditTypeOK
  <2> QED
    BY <2>1
<1>6. ASSUME NEW w \in Workers,
             Write(w) \/ Flush(w) \/ Send(w) \/ NoAnswer(w) \/ Lock(w) \/ Load(w) \/ NextBatch(w)
      PROVE  CountInv'
  <2>1. UNCHANGED <<evicted, gone, crashes, delta>>
    BY <1>6 DEF Write, Flush, Send, NoAnswer, Lock, Load, NextBatch, file, bounds, history
  <2>2. /\ auditPc[w] # "stats" /\ auditPc'[w] # "stats"
        /\ \A v \in Workers \ {w} : auditPc'[v] = auditPc[v]
    BY <1>6, <1>t DEF Write, Flush, Send, NoAnswer, Lock, Load, NextBatch, AuditGoto, AuditTypeOK
  <2> QED
    BY <1>q, <2>1, <2>2
<1>7. ASSUME NEW events \in net, AcceptBatch(events) PROVE CountInv'
  <2>1. UNCHANGED <<evicted, gone, crashes, delta>>
    BY <1>7, AcceptEffect
  <2>2. \A w \in Workers : auditPc'[w] = "stats" <=> auditPc[w] = "stats"
    BY <1>7, <1>t DEF AcceptBatch, AuditGoto, AuditTypeOK
  <2> QED
    BY <1>q, <2>1, <2>2
<1> QED
  BY <1>1, <1>2, <1>3, <1>4, <1>5, <1>6, <1>7 DEF AuditNext, Step
-----------------------------------------------------------------------------
(* The invariant, and what follows from it. *)

LEMMA InitAuditInv == AuditInit => AuditInv
<1> SUFFICES ASSUME AuditInit PROVE AuditInv
  OBVIOUS
<1>1. /\ <<>> \in Seq(Events) /\ Len(<<>>) = 0 /\ DOMAIN <<>> = {} /\ ToSet(<<>>) = {}
  BY DEF ToSet
<1>2. AuditTypeOK
  BY <1>1, PipelineAssumption DEF AuditInit, AuditTypeOK, PCs
<1>3. RecordedOnce /\ EventInv
  BY <1>1 DEF AuditInit, RecordedOnce, EventInv, IsInjective, Carries
<1>4. PhaseInv /\ LockInv /\ PutInv /\ BatchInv
  BY DEF AuditInit, PhaseInv, LockInv, Holding, PutInv, BatchInv
<1>5. RestInv /\ SuffixInv /\ KeptInv
  BY <1>1 DEF AuditInit, RestInv, RestOf, Flushing, SuffixInv, KeptInv
<1>6. CountInv
  BY FS_EmptySet DEF AuditInit, CountInv
<1> QED
  BY <1>2, <1>3, <1>4, <1>5, <1>6 DEF AuditInv

LEMMA RecordStep == AuditInv /\ AuditNext => RecordedOnce'
<1> SUFFICES ASSUME AuditInv, AuditNext PROVE RecordedOnce'
  OBVIOUS
<1>1. ASSUME NEW events \in net, AcceptBatch(events) PROVE RecordedOnce'
  BY <1>1, AcceptEffect DEF RecordedOnce
<1>2. CASE UNCHANGED ledger
  BY <1>2 DEF AuditInv, RecordedOnce
<1>3. ASSUME NEW w \in Workers, Write(w) \/ Flush(w) \/ Step(w) \/ WorkerCrashes(w)
      PROVE  UNCHANGED ledger
  BY <1>3 DEF Write, Flush, Step, Send, NoAnswer, PostAnswered, Lock, Put, Stats, Load,
              NextBatch, Rewrite, WorkerCrashes, collector
<1> QED
  BY <1>1, <1>2, <1>3 DEF AuditNext

LEMMA AuditInvStep == AuditInv /\ [AuditNext]_auditVars => AuditInv'
<1> SUFFICES ASSUME AuditInv, [AuditNext]_auditVars PROVE AuditInv'
  OBVIOUS
<1>1. CASE AuditNext
  BY <1>1, AuditTypeStep, RecordStep, PhaseStep, LockStep, EventStep, PutStep, RestStep,
     BatchStep, SuffixStep, KeptStep, CountStep DEF AuditInv
<1>2. CASE UNCHANGED auditVars
  BY <1>2 DEF AuditInv, auditVars, collector, file, local, bounds, history, AuditTypeOK,
     RecordedOnce, PhaseInv, LockInv, Holding, EventInv, Carries, PutInv, RestInv, RestOf,
     Flushing, Delivered, BatchInv, SuffixInv, KeptInv, CountInv
<1> QED
  BY <1>1, <1>2

LEMMA AuditInvHolds == AuditSpec => []AuditInv
  BY InitAuditInv, AuditInvStep, PTL DEF AuditSpec

\* A flush's batch begins where the recorded part of the buffer ends.
LEMMA InvFlushInOrder == AuditInv => FlushInOrder
<1> SUFFICES ASSUME AuditInv, NEW w \in Workers, job[w] = "flush",
                    auditPc[w] \in {"post", "wait"},
                    NEW i \in DOMAIN appended, NEW j \in DOMAIN appended,
                    appended[j] \in ToSet(batch[w]), i < j
             PROVE  appended[i] \in ToSet(ledger) \union gone \union ToSet(batch[w])
  BY DEF FlushInOrder
<1> DEFINE m == Len(buffer)
           n == Len(appended)
           d == Delivered(w)
           b == Len(batch[w])
<1>1. /\ appended \in Seq(Events) /\ buffer \in Seq(Events) /\ batch[w] \in Seq(Events)
      /\ rest[w] \in Seq(Events) /\ IsInjective(appended)
      /\ m <= n /\ \A k \in 1..m : buffer[k] = appended[n - m + k]
      /\ ToSet(appended) \subseteq ToSet(ledger) \union ToSet(buffer) \union gone
  BY DEF AuditInv, AuditTypeOK, EventInv, SuffixInv, KeptInv
<1>2. /\ d = m - Len(rest[w]) /\ Len(rest[w]) <= m /\ b <= Len(rest[w])
      /\ \A k \in 1..Len(rest[w]) : rest[w][k] = buffer[d + k]
      /\ \A k \in 1..d : buffer[k] \in ToSet(ledger)
      /\ \A k \in 1..b : batch[w][k] = rest[w][k]
  BY DEF AuditInv, RestInv, RestOf, Flushing, Delivered
<1>3. /\ m \in Nat /\ n \in Nat /\ b \in Nat /\ Len(rest[w]) \in Nat /\ DOMAIN appended = 1..n
  BY <1>1, LenProperties
<1>4. PICK k \in 1..b : batch[w][k] = appended[j]
  <2>1. appended[j] \in ToSet(batch[w])
    OBVIOUS
  <2>2. \A e : e \in ToSet(batch[w]) <=> \E i2 \in 1..Len(batch[w]) : batch[w][i2] = e
    BY ONLY <1>1, InSet
  <2> QED
    BY <2>1, <2>2
<1> DEFINE p == n - m + (d + k)
<1> HIDE DEF m, n, d, b
<1>5. /\ k \in 1..Len(rest[w]) /\ d + k \in 1..m /\ p \in 1..n
      /\ batch[w][k] = appended[p] /\ d \in Nat
  <2>1. k \in 1..Len(rest[w]) /\ d + k \in 1..m /\ n - m + (d + k) \in 1..n /\ d \in Nat
    <3>1. d = m - Len(rest[w]) /\ Len(rest[w]) <= m /\ b <= Len(rest[w]) /\ m <= n
      BY <1>1, <1>2
    <3>2. k \in Nat /\ 1 <= k /\ k <= b
      BY <1>3, <1>4
    <3> DEFINE r == Len(rest[w])
    <3>3. m \in Nat /\ n \in Nat /\ b \in Nat /\ r \in Nat /\ d = m - r /\ r <= m /\ b <= r /\ m <= n
      BY <1>3, <3>1
    <3> HIDE DEF r
    <3>4. d \in Nat /\ k \in 1..r
      BY <3>2, <3>3
    <3>5. d + k \in 1..m
      BY <3>2, <3>3
    <3>6. n - m + (d + k) \in 1..n
      BY <3>2, <3>3
    <3> QED
      BY <3>4, <3>5, <3>6 DEF r
  <2>2. batch[w][k] = buffer[d + k]
    BY <1>2, <2>1
  <2>3. buffer[d + k] = appended[n - m + (d + k)]
    BY <1>1, <2>1
  <2> QED
    BY <2>1, <2>2, <2>3
<1>6. j = p
  BY <1>1, <1>3, <1>4, <1>5 DEF IsInjective
<1>7. appended[i] \in ToSet(ledger) \union ToSet(buffer) \union gone
  BY <1>1, InSet DEF n, m
<1>8. CASE appended[i] \in ToSet(buffer)
  <2>1. PICK l \in 1..m : buffer[l] = appended[i]
    BY <1>1, <1>8, InSet DEF m
  <2>2. n - m + l \in 1..n /\ appended[n - m + l] = appended[i]
    BY <1>1, <1>3, <2>1
  <2>3. n - m + l = i
    BY <1>1, <1>3, <2>2 DEF IsInjective
  <2>4. l < d + k
    BY <1>1, <1>3, <1>5, <1>6, <2>3
  <2>5. CASE l <= d
    <3>1. l \in 1..d
      BY <1>3, <1>5, <2>1, <2>5
    <3> QED
      BY <1>2, <2>1, <3>1
  <2>6. CASE ~(l <= d)
    <3>1. l - d \in 1..b /\ l - d \in 1..Len(rest[w]) /\ d + (l - d) = l
      <4>1. /\ l \in Nat /\ k \in Nat /\ k <= b /\ b <= Len(rest[w]) /\ b \in Nat
            /\ Len(rest[w]) \in Nat /\ d \in Nat
        BY <1>2, <1>3, <1>4, <1>5, <2>1
      <4>2. l - d \in Nat \ {0} /\ l - d < k /\ d + (l - d) = l
        BY <2>4, <2>6, <4>1
      <4> QED
        BY <4>1, <4>2
    <3>2. batch[w][l - d] = appended[i]
      BY <1>2, <2>1, <3>1
    <3> QED
      BY <1>1, <3>1, <3>2, InSet DEF b
  <2> QED
    BY <2>5, <2>6
<1> QED
  BY <1>7, <1>8

\* What AuditKept says of a state follows from the invariant.
LEMMA InvKept == AuditInv => AuditKept
<1> SUFFICES ASSUME AuditInv PROVE AuditKept
  OBVIOUS
<1>1. AuditTypeOK /\ RecordedOnce /\ FlushInOrder
  BY InvFlushInOrder DEF AuditInv
<1>2. NothingLost
  BY DEF AuditInv, KeptInv, NothingLost
<1>3. BufferKeepsNewest
  BY SuffixByIndex DEF AuditInv, AuditTypeOK, SuffixInv, BufferKeepsNewest
<1>4. EvictionsCounted
  BY DEF AuditInv, CountInv, EvictionsCounted
<1> QED
  BY <1>1, <1>2, <1>3, <1>4 DEF AuditKept

\* For any number of writers and flushers, any capacity and batch size, and any lost,
\* repeated or late requests and crashes: an event whose write returned is recorded,
\* buffered or evicted; none is recorded twice; a flush posts in order; the newest
\* stay; and every eviction is counted unless a process died while counting.
THEOREM AuditKeptHolds == AuditSpec => []AuditKept
<1>1. AuditInv => AuditKept
  BY InvKept
<1> QED
  BY <1>1, AuditInvHolds, PTL
-----------------------------------------------------------------------------
(* The pipeline implements AuditLedger. *)

\* The collector grows the record at its end, or leaves it.
LEMMA AcceptRecords ==
    ASSUME AuditInv, NEW events \in net, AcceptBatch(events)
    PROVE  Ledger!Record \/ UNCHANGED Ledger!vars
<1> DEFINE m == Len(ledger)
           n == Len(ledger')
<1>1. /\ ledger' \in Seq(Events) /\ IsInjective(ledger')
      /\ UNCHANGED <<buffer, gone, returned>>
  BY AcceptEffect
<1>2. ledger \in Seq(Events) /\ events \in Seq(Events) /\ Fresh(events) \in Seq(Events)
  BY FreshEvents DEF AuditInv, AuditTypeOK
<1>3. CASE ledger' = ledger
  BY <1>1, <1>3 DEF Ledger!vars
<1>4. CASE ledger' = ledger \o Fresh(events) /\ ledger' # ledger
  <2>1. /\ n = m + Len(Fresh(events)) /\ m \in Nat /\ n \in Nat
        /\ \A i \in 1..m : ledger'[i] = ledger[i]
        /\ DOMAIN ledger = 1..m /\ DOMAIN ledger' = 1..n
    <3>1. /\ n = m + Len(Fresh(events))
          /\ \A i \in 1..m + Len(Fresh(events)) :
                ledger'[i] = IF i <= m THEN ledger[i] ELSE Fresh(events)[i - m]
      BY <1>2, <1>4, ConcatProperties
    <3>2. m \in Nat /\ n \in Nat /\ Len(Fresh(events)) \in Nat
      BY <1>1, <1>2, LenProperties
    <3> HIDE DEF m, n
    <3>3. \A i \in 1..m : ledger'[i] = ledger[i]
      BY <3>1, <3>2
    <3> QED
      BY <1>1, <1>2, <3>1, <3>2, <3>3, LenProperties DEF m, n
  <2>2. n > m
    <3>1. ASSUME n = m PROVE FALSE
      <4>1. ledger' = ledger
        BY <1>1, <1>2, <2>1, <3>1, SeqEqual
      <4> QED
        BY <1>4, <4>1
    <3>2. Len(Fresh(events)) \in Nat
      BY <1>2, LenProperties
    <3> HIDE DEF m, n
    <3> QED
      BY <2>1, <3>1, <3>2
  <2>3. ASSUME NEW i \in DOMAIN ledger' \ DOMAIN ledger
        PROVE  /\ ledger'[i] \in Events /\ ledger'[i] \notin Ledger!Listed
               /\ \A j \in DOMAIN ledger' : ledger'[j] = ledger'[i] => j = i
    <3>1. ledger'[i] \in Events
      BY <1>1, <2>1, ElementOfSeq
    <3>2. \A j \in DOMAIN ledger' : ledger'[j] = ledger'[i] => j = i
      BY <1>1 DEF IsInjective
    <3>3. \A j \in DOMAIN ledger : ledger'[j] # ledger'[i] /\ ledger'[j] = ledger[j]
      <4> HIDE DEF m, n
      <4>1. \A j \in 1..m : j \in 1..n
        BY <2>1, <2>2
      <4> QED
        BY <2>1, <3>2, <4>1
    <3> QED
      BY <3>1, <3>2, <3>3 DEF Ledger!Listed
  <2> QED
    BY <1>1, <2>1, <2>2, <2>3 DEF Ledger!Record
<1> QED
  BY <1>3, <1>4 DEF AcceptBatch

\* Every step of the pipeline is one of the ledger's, or changes nothing it promises.
LEMMA LedgerStep ==
    ASSUME AuditInv, [AuditNext]_auditVars PROVE [Ledger!Next]_Ledger!vars
<1>k. Ledger!Listed = ToSet(ledger)
  BY DEF Ledger!Listed, ToSet
<1>1. ASSUME NEW events \in net, AcceptBatch(events) PROVE [Ledger!Next]_Ledger!vars
  BY <1>1, AcceptRecords DEF Ledger!Next
<1>2. ASSUME NEW w \in Workers, Put(w) PROVE [Ledger!Next]_Ledger!vars
  <2> DEFINE event == batch[w][1]
             lost == ToSet(buffer) \ ToSet(buffer')
  <2>1. event \in Events /\ gone' = gone \union lost /\ UNCHANGED <<ledger, returned>>
    BY <1>2, PutEffect
  <2>2. ToSet(buffer') = (ToSet(buffer) \ lost) \union {event}
    BY <1>2, PutSets
  <2>3. lost \in SUBSET ToSet(buffer) /\ ToSet(buffer)' = ToSet(buffer')
    BY DEF ToSet
  <2> HIDE DEF event, lost
  <2>4. Ledger!Keep(event)
    BY <2>1, <2>2, <2>3 DEF Ledger!Keep
  <2> QED
    BY <2>1, <2>4 DEF Ledger!Next
<1>3. ASSUME NEW w \in Workers, Rewrite(w) PROVE [Ledger!Next]_Ledger!vars
  <2> DEFINE out == ToSet(buffer) \ ToSet(buffer')
  <2>1. out \in SUBSET (ToSet(buffer) \intersect ToSet(ledger)) /\ ToSet(buffer') = ToSet(buffer) \ out
    BY <1>3, RewriteSets
  <2>2. UNCHANGED <<ledger, gone, returned>> /\ ToSet(buffer)' = ToSet(buffer')
    BY <1>3, RewriteEffect DEF ToSet
  <2> HIDE DEF out
  <2>3. Ledger!Release
    BY <1>k, <2>1, <2>2 DEF Ledger!Release
  <2> QED
    BY <2>3 DEF Ledger!Next
\* A write that returns promises its one event, which is recorded or was put.
<1>4. ASSUME NEW w \in Workers, job[w] = "write", auditPc[w] \in {"answered", "stats"},
             UNCHANGED <<ledger, buffer, gone>>, returned' = returned \union ToSet(batch[w])
      PROVE  [Ledger!Next]_Ledger!vars
  <2>1. batch[w] \in Seq(Events) /\ Len(batch[w]) = 1
    BY <1>4 DEF AuditInv, AuditTypeOK, PhaseInv
  <2>2. batch[w][1] \in Events /\ ToSet(batch[w]) = {batch[w][1]}
    BY <2>1, InSet, ElementOfSeq
  <2>3. batch[w][1] \in ToSet(ledger) \union ToSet(appended)
    BY <1>4, <2>2 DEF AuditInv, BatchInv, PutInv
  <2>4. batch[w][1] \in ToSet(ledger) \union ToSet(buffer) \union gone
    BY <2>3 DEF AuditInv, KeptInv
  <2>5. ToSet(buffer)' = ToSet(buffer)
    BY <1>4
  <2>6. Ledger!Promise(batch[w][1])
    BY <1>4, <1>k, <2>2, <2>4, <2>5 DEF Ledger!Promise
  <2> QED
    BY <2>2, <2>6 DEF Ledger!Next
<1>5. CASE UNCHANGED <<ledger, buffer, gone, returned>>
  BY <1>5 DEF Ledger!vars
<1>6. ASSUME NEW w \in Workers, PostAnswered(w) PROVE [Ledger!Next]_Ledger!vars
  BY <1>4, <1>5, <1>6 DEF PostAnswered, collector, file
<1>7. ASSUME NEW w \in Workers, Stats(w) PROVE [Ledger!Next]_Ledger!vars
  BY <1>4, <1>5, <1>7 DEF Stats, collector
<1>8. ASSUME NEW w \in Workers,
             \/ Write(w) \/ Flush(w) \/ Send(w) \/ NoAnswer(w) \/ Lock(w) \/ Load(w)
             \/ NextBatch(w) \/ WorkerCrashes(w)
      PROVE  [Ledger!Next]_Ledger!vars
  BY <1>5, <1>8 DEF Write, Flush, Send, NoAnswer, Lock, Load, NextBatch, WorkerCrashes,
     collector, file, history
<1>9. CASE UNCHANGED auditVars
  BY <1>5, <1>9 DEF auditVars, collector, file, history
<1> QED
  BY <1>1, <1>2, <1>3, <1>6, <1>7, <1>8, <1>9 DEF AuditNext, Step

\* The pipeline, with its network, retries, buffer file, locks and crashes, implements
\* AuditLedger: what was promised is recorded, kept or evicted, the record only grows
\* at its end and holds nothing twice, and only recorded events are released.
THEOREM PipelineImplementsLedger == AuditSpec => ImplementsLedger
<1>1. AuditInit => Ledger!Init
  BY DEF AuditInit, Ledger!Init, ToSet
<1>2. AuditInv /\ [AuditNext]_auditVars => [Ledger!Next]_Ledger!vars
  BY LedgerStep
<1> QED
  BY <1>1, <1>2, AuditInvHolds, PTL DEF AuditSpec, ImplementsLedger, Ledger!Spec
-----------------------------------------------------------------------------
(* SandboxRuns: the output a call reports, and the container it leaves. *)

SandboxTypes ==
    /\ backend \in {"process", "bubblewrap", "container"}
    /\ runPhase \in {"prepare", "waiting", "cleanup", "joining", "over"}
    /\ command \in {"none", "running", "exited", "killed"}
    /\ spawned \in {"none", "running", "gone"}
    /\ client \in BOOLEAN /\ truncated \in BOOLEAN
    /\ wrote \in Nat /\ captured \in Nat
    /\ piped \in [Streams -> Nat] /\ held \in [Streams -> Nat]
    /\ drained \in [Streams -> BOOLEAN]
    /\ removed \in {"no", "ran", "failed"}
    /\ verdict \in {"none", "ok", "failed", "timeout", "refused"}

\* Until the limit is crossed a chunk is in a pipe, in a thread's hand or stored.
ChunksInv ==
    /\ captured <= OutputLimit
    /\ ~truncated =>
          wrote = captured + piped["stdout"] + piped["stderr"] + held["stdout"] + held["stderr"]

\* A thread that returned found its pipe empty and closed; no pipe opens again.
DrainedInv ==
    /\ \A s \in Streams : drained[s] => piped[s] = 0 /\ held[s] = 0 /\ ~PipesOpen
    /\ runPhase = "prepare" =>
          command = "none" /\ spawned = "none" /\ ~client /\ \A s \in Streams : ~drained[s]
    /\ runPhase \in {"prepare", "waiting"} => verdict = "none"
    /\ runPhase = "over" /\ verdict = "ok" => AllDrained /\ ~truncated
    /\ runPhase = "joining" => verdict \in {"none", "timeout"}
    /\ runPhase = "cleanup" => verdict \in {"failed", "timeout"}

\* The container of a call whose client ended of itself is gone; any other waits for
\* the cleanup command.
ContainerInv ==
    backend = "container" =>
        /\ command # "running" => spawned # "running"
        /\ ~client /\ ~truncated /\ verdict \notin {"timeout", "refused"} => ~Alive
        /\ removed = "ran" => ~Alive
        /\ runPhase \in {"joining", "over"} /\ verdict = "timeout" => removed # "no"
        /\ runPhase \in {"cleanup", "joining"} => ~client
        /\ runPhase = "prepare" => removed = "no"
        /\ runPhase \in {"cleanup", "over"} => verdict # "none"
        /\ runPhase = "over" => ~Alive \/ removed = "failed"

SandboxInv == SandboxTypes /\ ChunksInv /\ DrainedInv /\ ContainerInv

LEMMA LeastChunks ==
    ASSUME NEW a \in Nat, NEW b \in Nat
    PROVE  /\ Min({a, b}) \in Nat /\ Min({a, b}) <= b
           /\ a <= b => Min({a, b}) = a
<1>1. CASE a <= b
  <2>1. \E x \in {a, b} : \A y \in {a, b} : x <= y
    BY <1>1
  <2> QED
    BY <1>1, <2>1 DEF Min
<1>2. CASE b <= a
  <2>1. \E x \in {a, b} : \A y \in {a, b} : x <= y
    BY <1>2
  <2> QED
    BY <1>2, <2>1 DEF Min
<1> QED
  BY <1>1, <1>2

LEMMA StoreEffect ==
    ASSUME SandboxTypes, ChunksInv, NEW s \in Streams, StoreChunk(s)
    PROVE  /\ captured' \in Nat /\ captured' <= OutputLimit /\ held' = [held EXCEPT ![s] = 0]
           /\ truncated => truncated'
           /\ ~truncated' => captured' = captured + held[s]
           /\ truncated' \in BOOLEAN /\ held[s] > 0
           /\ client' \in BOOLEAN /\ command' \in {command, "killed"}
           /\ (command' # command => command = "running")
           /\ (spawned' = spawned \/ (spawned = "running" /\ spawned' = "gone"))
           /\ ~client => ~client'
           /\ truncated' = truncated => UNCHANGED <<client, command, spawned>>
           /\ backend = "container" => UNCHANGED <<command, spawned>>
           /\ UNCHANGED <<backend, executable, runPhase, wrote, piped, drained, removed, verdict>>
<1> DEFINE remaining == OutputLimit - captured
           stored == Min({held[s], remaining})
<1>1. held[s] \in Nat /\ remaining \in Nat /\ captured \in Nat /\ OutputLimit \in Nat
  BY SandboxAssumption DEF SandboxTypes, ChunksInv
<1>2. stored \in Nat /\ stored <= remaining /\ (held[s] <= remaining => stored = held[s])
  BY <1>1, LeastChunks
<1>3. /\ captured' = captured + stored /\ held[s] > 0 /\ held' = [held EXCEPT ![s] = 0]
      /\ \/ /\ held[s] > remaining /\ ~truncated /\ truncated' = TRUE /\ Kill
         \/ /\ ~(held[s] > remaining /\ ~truncated)
            /\ UNCHANGED <<truncated, client, command, spawned>>
      /\ UNCHANGED <<backend, executable, runPhase, wrote, piped, drained, removed, verdict>>
  BY DEF StoreChunk
<1> HIDE DEF stored
<1>4. captured' \in Nat /\ captured' <= OutputLimit
  BY <1>1, <1>2, <1>3
<1>5. CASE held[s] > remaining /\ ~truncated /\ truncated' = TRUE /\ Kill
  <2>1. /\ client' = FALSE /\ command' \in {command, "killed"}
        /\ command' # command => command = "running"
        /\ (spawned' = spawned \/ (spawned = "running" /\ spawned' = "gone"))
        /\ backend = "container" => UNCHANGED <<command, spawned>>
    BY <1>5 DEF Kill, DiesWithParent
  <2> QED
    BY <1>3, <1>4, <1>5, <2>1
<1>6. CASE /\ ~(held[s] > remaining /\ ~truncated)
           /\ UNCHANGED <<truncated, client, command, spawned>>
  <2>1. ~truncated => captured' = captured + held[s]
    BY <1>1, <1>2, <1>3, <1>6
  <2>2. truncated \in BOOLEAN /\ client \in BOOLEAN
    BY DEF SandboxTypes
  <2> HIDE DEF remaining
  <2> QED
    BY <1>3, <1>4, <1>6, <2>1, <2>2
<1> QED
  BY <1>3, <1>5, <1>6

LEMMA SandboxTypeStep == SandboxInv /\ SandboxNext => SandboxTypes'
<1> SUFFICES ASSUME SandboxInv, SandboxNext PROVE SandboxTypes'
  OBVIOUS
<1> USE DEF SandboxTypes
<1>t. SandboxTypes
  BY DEF SandboxInv
<1>1. CASE Prepare
  <2>1. /\ runPhase' \in {"waiting", "over"}
        /\ \/ command' = "running" /\ client' = TRUE /\ verdict' = verdict
           \/ command' = command /\ client' = client /\ verdict' = "refused"
        /\ UNCHANGED <<backend, spawned, wrote, piped, held, drained, captured, truncated, removed>>
    BY <1>1 DEF Prepare
  <2>2. client' \in BOOLEAN
    BY <1>t, <2>1
  <2> QED
    BY <1>t, <2>1, <2>2
<1>2. ASSUME NEW s \in Streams, WriteOutput(s) PROVE SandboxTypes'
  BY <1>2, <1>t DEF WriteOutput
<1>3. CASE LeaveBehind
  BY <1>3, <1>t DEF LeaveBehind
<1>4. CASE CommandExits
  BY <1>4, <1>t DEF CommandExits
<1>5. CASE SpawnedExits
  BY <1>5, <1>t DEF SpawnedExits
<1>6. ASSUME NEW s \in Streams, ReadChunk(s) PROVE SandboxTypes'
  BY <1>6, <1>t DEF ReadChunk
<1>7. ASSUME NEW s \in Streams, StoreChunk(s) PROVE SandboxTypes'
  BY <1>7, <1>t, StoreEffect DEF SandboxInv
<1>8. ASSUME NEW s \in Streams, EndOfStream(s) PROVE SandboxTypes'
  BY <1>8, <1>t DEF EndOfStream
<1>9. CASE WaitReturns
  BY <1>9, <1>t DEF WaitReturns
<1>10. CASE WaitTimesOut
  BY <1>10, <1>t DEF WaitTimesOut, Kill
<1>11. CASE CleanUp
  BY <1>11, <1>t DEF CleanUp, RemoveContainer
<1>12. CASE JoinThreads
  BY <1>12, <1>t DEF JoinThreads, Result, SandboxInv, DrainedInv
<1>13. CASE CallOver
  BY <1>13, <1>t DEF CallOver, sandboxVars
<1> QED
  BY <1>1, <1>2, <1>3, <1>4, <1>5, <1>6, <1>7, <1>8, <1>9, <1>10, <1>11, <1>12, <1>13
  DEF SandboxNext, CallThread, DrainThread

LEMMA ChunksStep == SandboxInv /\ SandboxNext => ChunksInv'
<1> SUFFICES ASSUME SandboxInv, SandboxNext PROVE ChunksInv'
  OBVIOUS
<1>t. /\ wrote \in Nat /\ captured \in Nat /\ piped \in [Streams -> Nat]
      /\ held \in [Streams -> Nat] /\ ChunksInv
  BY DEF SandboxInv, SandboxTypes
<1> USE DEF ChunksInv, Streams
<1>1. ASSUME NEW s \in Streams, WriteOutput(s) PROVE ChunksInv'
  <2>1. CASE s = "stdout"
    BY <1>1, <1>t, <2>1 DEF WriteOutput
  <2>2. CASE s = "stderr"
    BY <1>1, <1>t, <2>2 DEF WriteOutput
  <2> QED
    BY <2>1, <2>2
<1>2. ASSUME NEW s \in Streams, ReadChunk(s) PROVE ChunksInv'
  <2>1. CASE s = "stdout"
    BY <1>2, <1>t, <2>1 DEF ReadChunk
  <2>2. CASE s = "stderr"
    BY <1>2, <1>t, <2>2 DEF ReadChunk
  <2> QED
    BY <2>1, <2>2
<1>3. ASSUME NEW s \in Streams, StoreChunk(s) PROVE ChunksInv'
  <2>1. /\ captured' \in Nat /\ captured' <= OutputLimit /\ held' = [held EXCEPT ![s] = 0]
        /\ ~truncated' => captured' = captured + held[s] /\ ~truncated
        /\ UNCHANGED <<wrote, piped>>
    BY <1>3, StoreEffect DEF SandboxInv
  <2>2. CASE s = "stdout"
    BY <1>t, <2>1, <2>2
  <2>3. CASE s = "stderr"
    BY <1>t, <2>1, <2>3
  <2> QED
    BY <2>2, <2>3
<1>4. CASE UNCHANGED <<captured, wrote, piped, held, truncated>>
  BY <1>4, <1>t
<1> QED
  BY <1>1, <1>2, <1>3, <1>4
  DEF SandboxNext, CallThread, DrainThread, Prepare, WaitReturns, WaitTimesOut, CleanUp,
      JoinThreads, CommandExits, SpawnedExits, LeaveBehind, EndOfStream, CallOver, sandboxVars

\* No process starts in a step that is not the preparation.
LEMMA StaysClosed ==
    ASSUME SandboxInv, SandboxNext
    PROVE  /\ backend' = backend
           /\ runPhase # "prepare" => runPhase' # "prepare" /\ (client' => client)
           /\ runPhase # "prepare" /\ ~Alive => ~Alive'
           /\ runPhase # "prepare" /\ ~PipesOpen => ~PipesOpen'
<1>1. ASSUME NEW s \in Streams, StoreChunk(s)
      PROVE  /\ UNCHANGED <<backend, runPhase>> /\ (client' => client) /\ (~Alive => ~Alive')
  BY <1>1, StoreEffect DEF SandboxInv, Alive
<1>2. ASSUME ~\E s \in Streams : StoreChunk(s)
      PROVE  /\ backend' = backend
             /\ runPhase # "prepare" => runPhase' # "prepare" /\ (client' => client)
             /\ runPhase # "prepare" /\ ~Alive => ~Alive'
  BY <1>2 DEF SandboxNext, CallThread, DrainThread, Prepare, WaitReturns, WaitTimesOut, Kill,
     CleanUp, RemoveContainer, JoinThreads, CommandExits, SpawnedExits, LeaveBehind,
     WriteOutput, ReadChunk, EndOfStream, CallOver, sandboxVars, Alive
<1>3. /\ backend' = backend
      /\ runPhase # "prepare" => runPhase' # "prepare" /\ (client' => client)
      /\ runPhase # "prepare" /\ ~Alive => ~Alive'
  BY <1>1, <1>2
<1> QED
  BY <1>3 DEF PipesOpen

LEMMA DrainedStep == SandboxInv /\ SandboxNext => DrainedInv'
<1> SUFFICES ASSUME SandboxInv, SandboxNext PROVE DrainedInv'
  OBVIOUS
<1>t. SandboxTypes /\ DrainedInv
  BY DEF SandboxInv
<1> DEFINE Closed == \A s \in Streams : drained[s] => piped[s] = 0 /\ held[s] = 0 /\ ~PipesOpen
\* A thread that has returned stays returned, with nothing to read or store.
<1>c. Closed'
  <2> SUFFICES ASSUME NEW s \in Streams, drained'[s]
               PROVE  piped'[s] = 0 /\ held'[s] = 0 /\ ~PipesOpen'
    OBVIOUS
  <2>1. runPhase # "prepare" /\ runPhase \in {"prepare", "waiting", "cleanup", "joining", "over"}
    <3>1. CASE runPhase = "prepare"
      <4>1. ~drained[s] /\ ~(\E r \in Streams : EndOfStream(r))
        BY <1>t, <3>1 DEF DrainedInv, EndOfStream
      <4>2. drained' = drained
        BY <4>1 DEF SandboxNext, CallThread, DrainThread, Prepare, WaitReturns, WaitTimesOut,
           CleanUp, JoinThreads, CommandExits, SpawnedExits, LeaveBehind, WriteOutput,
           ReadChunk, StoreChunk, CallOver, sandboxVars
      <4> QED
        BY <4>1, <4>2
    <3> QED
      BY <1>t, <3>1 DEF SandboxTypes
  <2>2. CASE drained[s]
    <3>1. piped[s] = 0 /\ held[s] = 0 /\ ~PipesOpen
      BY <1>t, <2>2 DEF DrainedInv
    <3>2. piped \in [Streams -> Nat] /\ held \in [Streams -> Nat]
      BY <1>t DEF SandboxTypes
    <3>3. piped'[s] = 0 /\ held'[s] = 0
      <4>1. ASSUME NEW r \in Streams, ReadChunk(r) \/ StoreChunk(r) \/ WriteOutput(r)
            PROVE  piped'[s] = 0 /\ held'[s] = 0
        BY <3>1, <3>2, <4>1 DEF ReadChunk, StoreChunk, WriteOutput
      <4>2. CASE UNCHANGED <<piped, held>>
        BY <3>1, <4>2
      <4> QED
        BY <4>1, <4>2 DEF SandboxNext, CallThread, DrainThread, Prepare, WaitReturns,
           WaitTimesOut, CleanUp, JoinThreads, CommandExits, SpawnedExits, LeaveBehind,
           EndOfStream, CallOver, sandboxVars
    <3> QED
      BY <2>1, <3>1, <3>3, StaysClosed
  <2>3. CASE ~drained[s]
    <3>1. PICK r \in Streams : EndOfStream(r)
      <4>1. CASE UNCHANGED drained
        BY <2>3, <4>1
      <4> QED
        BY <4>1 DEF SandboxNext, CallThread, DrainThread, Prepare, WaitReturns, WaitTimesOut,
           CleanUp, JoinThreads, CommandExits, SpawnedExits, LeaveBehind, WriteOutput,
           ReadChunk, StoreChunk, CallOver, sandboxVars
    <3>2. r = s
      BY <1>t, <2>3, <3>1 DEF EndOfStream, SandboxTypes
    <3> QED
      BY <2>1, <3>1, <3>2, StaysClosed DEF EndOfStream
  <2> QED
    BY <2>2, <2>3
<1>1. (runPhase = "prepare" =>
          command = "none" /\ spawned = "none" /\ ~client /\ \A s \in Streams : ~drained[s])'
  <2>1. CASE runPhase' = "prepare"
    <3>1. runPhase = "prepare"
      BY <2>1, StaysClosed
    <3>2. command = "none" /\ spawned = "none" /\ ~client /\ \A s \in Streams : ~drained[s]
      BY <1>t, <3>1 DEF DrainedInv
    <3>3. ~(\E s \in Streams : StoreChunk(s)) \/ UNCHANGED <<client, command, spawned, drained>>
      <4>1. ASSUME NEW s \in Streams, StoreChunk(s)
            PROVE  UNCHANGED <<client, command, spawned, drained>>
        BY <1>t, <3>2, <4>1 DEF StoreChunk, Kill, SandboxTypes
      <4> QED
        BY <4>1
    <3>4. UNCHANGED <<client, command, spawned, drained>>
      BY <2>1, <3>1, <3>2, <3>3 DEF SandboxNext, CallThread, DrainThread, Prepare, WaitReturns,
         WaitTimesOut, CleanUp, JoinThreads, CommandExits, SpawnedExits, LeaveBehind,
         WriteOutput, ReadChunk, EndOfStream, CallOver, sandboxVars
    <3> QED
      BY <3>2, <3>4
  <2> QED
    BY <2>1
<1>2. (/\ runPhase \in {"prepare", "waiting"} => verdict = "none"
       /\ runPhase = "joining" => verdict \in {"none", "timeout"}
       /\ runPhase = "cleanup" => verdict \in {"failed", "timeout"})'
  <2>1. ASSUME NEW s \in Streams, StoreChunk(s) PROVE UNCHANGED <<runPhase, verdict>>
    BY <2>1 DEF StoreChunk
  <2> QED
    BY <1>t, <2>1 DEF DrainedInv, SandboxTypes, SandboxNext, CallThread, DrainThread, Prepare,
       WaitReturns, WaitTimesOut, CleanUp, JoinThreads, Result, NeedsCleanup, CommandExits, SpawnedExits,
       LeaveBehind, WriteOutput, ReadChunk, EndOfStream, CallOver, sandboxVars
<1>3. (runPhase = "over" /\ verdict = "ok" => AllDrained /\ ~truncated)'
  <2> SUFFICES ASSUME runPhase' = "over", verdict' = "ok" PROVE AllDrained' /\ ~truncated'
    OBVIOUS
  <2>1. CASE JoinThreads
    BY <1>t, <2>1 DEF JoinThreads, Result, AllDrained, DrainedInv
  <2>2. CASE ~JoinThreads
    <3>1. runPhase = "over" /\ verdict = "ok"
      <4>1. ASSUME NEW s \in Streams, StoreChunk(s) PROVE UNCHANGED <<runPhase, verdict>>
        BY <4>1 DEF StoreChunk
      <4> QED
        BY <1>t, <2>2, <4>1 DEF DrainedInv, SandboxTypes, SandboxNext, CallThread, DrainThread,
           Prepare, WaitReturns, WaitTimesOut, CleanUp, CommandExits, SpawnedExits,
           LeaveBehind, WriteOutput, ReadChunk, EndOfStream, CallOver, sandboxVars
    <3>2. AllDrained /\ ~truncated
      BY <1>t, <3>1 DEF DrainedInv
    <3>3. \A s \in Streams : ~StoreChunk(s)
      BY <1>t, <3>2 DEF DrainedInv, AllDrained, StoreChunk, SandboxTypes
    <3>4. truncated' = truncated /\ drained' = drained
      BY <3>1, <3>3 DEF SandboxNext, CallThread, DrainThread, Prepare, WaitReturns, WaitTimesOut,
         CleanUp, JoinThreads, CommandExits, SpawnedExits, LeaveBehind, WriteOutput,
         ReadChunk, EndOfStream, CallOver, sandboxVars
    <3> QED
      BY <3>2, <3>4 DEF AllDrained
  <2> QED
    BY <2>1, <2>2
<1> HIDE DEF Closed
<1> QED
  BY <1>c, <1>1, <1>2, <1>3 DEF DrainedInv, Closed

LEMMA ContainerStep == SandboxInv /\ SandboxNext => ContainerInv'
<1> SUFFICES ASSUME SandboxInv, SandboxNext, backend' = "container" PROVE ContainerInv'
  BY DEF ContainerInv
<1>t. SandboxTypes /\ ContainerInv /\ DrainedInv /\ backend = "container"
  BY StaysClosed DEF SandboxInv
<1> USE DEF ContainerInv, Alive
<1>1. CASE Prepare
  BY <1>1, <1>t DEF Prepare, SandboxTypes, DrainedInv
<1>2. ASSUME NEW s \in Streams, WriteOutput(s) \/ ReadChunk(s) \/ EndOfStream(s)
      PROVE  ContainerInv'
  BY <1>2, <1>t DEF WriteOutput, ReadChunk, EndOfStream
<1>3. CASE LeaveBehind
  BY <1>3, <1>t DEF LeaveBehind
<1>4. CASE CommandExits
  BY <1>4, <1>t DEF CommandExits, Isolated
<1>5. CASE SpawnedExits
  BY <1>5, <1>t DEF SpawnedExits
<1>6. ASSUME NEW s \in Streams, StoreChunk(s) PROVE ContainerInv'
  <2>1. /\ UNCHANGED <<command, spawned, runPhase, removed, verdict>>
        /\ ~client => ~client'
        /\ truncated' = truncated => client' = client
        /\ truncated => truncated'
        /\ truncated' \in BOOLEAN
    BY <1>6, <1>t, StoreEffect DEF SandboxInv
  <2> QED
    BY <1>t, <2>1 DEF SandboxTypes
<1>7. CASE WaitReturns
  BY <1>7, <1>t DEF WaitReturns, DrainedInv
<1>8. CASE WaitTimesOut
  BY <1>8, <1>t DEF WaitTimesOut, Kill, DiesWithParent, DrainedInv
<1>9. CASE CleanUp
  BY <1>9, <1>t DEF CleanUp, RemoveContainer, SandboxTypes
<1>10. CASE JoinThreads
  BY <1>10, <1>t DEF JoinThreads, Result, NeedsCleanup, SandboxTypes, DrainedInv
<1>11. CASE CallOver
  BY <1>11, <1>t DEF CallOver, sandboxVars
<1> QED
  BY <1>1, <1>2, <1>3, <1>4, <1>5, <1>6, <1>7, <1>8, <1>9, <1>10, <1>11
  DEF SandboxNext, CallThread, DrainThread

LEMMA SandboxInvHolds == SandboxSpec => []SandboxInv
<1>1. SandboxInit => SandboxInv
  <2> SUFFICES ASSUME SandboxInit PROVE SandboxInv
    OBVIOUS
  <2>1. SandboxTypes
    BY SandboxAssumption DEF SandboxInit, SandboxTypes
  <2>2. ChunksInv
    BY SandboxAssumption DEF SandboxInit, ChunksInv, Streams
  <2>3. DrainedInv
    BY DEF SandboxInit, DrainedInv
  <2>4. ContainerInv
    BY DEF SandboxInit, ContainerInv, Alive
  <2> QED
    BY <2>1, <2>2, <2>3, <2>4 DEF SandboxInv
<1>2. SandboxInv /\ [SandboxNext]_sandboxVars => SandboxInv'
  <2>1. CASE SandboxNext
    BY <2>1, SandboxTypeStep, ChunksStep, DrainedStep, ContainerStep DEF SandboxInv
  <2>2. CASE UNCHANGED sandboxVars
    BY <2>2 DEF sandboxVars, SandboxInv, SandboxTypes, ChunksInv, DrainedInv, ContainerInv,
       PipesOpen, Alive, AllDrained
  <2> QED
    BY <2>1, <2>2
<1> QED
  BY <1>1, <1>2, PTL DEF SandboxSpec

\* For any output limit, backend and interleaving of the command, what it leaves behind,
\* the two threads and the timeout: a call that reports success returns all that was
\* written, none keeps more than the limit, and no container outlives its call unless
\* the engine failed to remove it.
THEOREM SandboxSoundHolds == SandboxSpec => []SandboxSound
<1>1. SandboxInv => SandboxSound
  <2> SUFFICES ASSUME SandboxInv PROVE SandboxSound
    OBVIOUS
  <2>1. ContainerRemoved
    BY DEF SandboxInv, ContainerInv, ContainerRemoved
  <2>2. ASSUME runPhase = "over", verdict = "ok" PROVE captured = wrote /\ ~truncated
    <3>1. /\ ~truncated /\ \A s \in Streams : piped[s] = 0 /\ held[s] = 0
      BY <2>2 DEF SandboxInv, DrainedInv, AllDrained
    <3> QED
      BY <3>1 DEF SandboxInv, ChunksInv, SandboxTypes, Streams
  <2> QED
    BY <2>1, <2>2 DEF SandboxInv, ChunksInv, SandboxSound, OutputAccounted
<1> QED
  BY <1>1, SandboxInvHolds, PTL

-----------------------------------------------------------------------------

\* GatewayDispatch.

\* Two processes do not hold each other's keys in memory: the invariant below
\* does not hold of them.
OneProcess == \A p, q \in Processes : p = q

Shape ==
    /\ disk \in Seq(Messages)
    /\ seen \in [Processes -> Seq(Messages)]
    /\ status \in [Processes -> {"up", "closing", "down"}]
    /\ pc \in [Requests -> Labels]
    /\ task \in [Requests -> {"none", "queued", "running", "done", "lost"}]
    /\ msg \in [Requests -> Messages]
    /\ host \in [Requests -> Processes]

\* The labels from _remember's success to submit: the key is there, the task is not.
Marking == {"accept", "submit", "forget", "stranded"}

\* A request whose key _remember wrote, and did not take back.
Owner(r) == pc[r] \in Marking \/ task[r] # "none"

\* Until it is submitted a request has no task.
TaskInv == \A r \in Requests : pc[r] \notin {"hook"} \union Answered => task[r] = "none"

DiskInv == \A r \in Requests : Owner(r) => msg[r] \in ToSet(disk) \union aged

MemoryInv ==
    \A r \in Requests :
        Owner(r) /\ status[host[r]] # "down" => msg[r] \in ToSet(seen[host[r]]) \union aged

SingleInv ==
    \A q, r \in Requests : Owner(q) /\ Owner(r) /\ msg[q] = msg[r] /\ msg[r] \notin aged => q = r

-----------------------------------------------------------------------------
(* Sequences of keys. *)

LEMMA InRange ==
    ASSUME NEW s \in Seq(Messages), NEW m
    PROVE  m \in ToSet(s) <=> \E i \in 1..Len(s) : s[i] = m
BY DEF ToSet

LEMMA AppendRange ==
    ASSUME NEW s \in Seq(Messages), NEW m \in Messages
    PROVE  /\ Append(s, m) \in Seq(Messages)
           /\ m \in ToSet(Append(s, m))
           /\ ToSet(s) \subseteq ToSet(Append(s, m))
<1> DEFINE t == Append(s, m)
<1>1. /\ t \in Seq(Messages) /\ Len(t) = Len(s) + 1 /\ t[Len(s) + 1] = m
      /\ Len(s) \in Nat /\ \A i \in 1..Len(s) : t[i] = s[i]
  OBVIOUS
<1> HIDE DEF t
<1>2. m \in ToSet(t)
  BY <1>1, InRange
<1>3. ASSUME NEW k \in ToSet(s)
      PROVE  k \in ToSet(t)
  <2>1. PICK i \in 1..Len(s) : s[i] = k
    BY InRange
  <2>2. i \in 1..Len(t) /\ t[i] = k
    BY <1>1, <2>1
  <2> QED
    BY <1>1, <2>2, InRange
<1> QED
  BY <1>1, <1>2, <1>3 DEF t

\* Dropping the first key keeps the others.
LEMMA TailRange ==
    ASSUME NEW s \in Seq(Messages), Len(s) > 0
    PROVE  Tail(s) \in Seq(Messages) /\ ToSet(s) \subseteq ToSet(Tail(s)) \union {Head(s)}
<1> DEFINE t == Tail(s)
<1>1. /\ t \in Seq(Messages) /\ Len(t) = Len(s) - 1 /\ Head(s) = s[1]
      /\ Len(s) \in Nat /\ \A i \in 1..Len(t) : t[i] = s[i + 1]
  OBVIOUS
<1> HIDE DEF t
<1>2. ASSUME NEW k \in ToSet(s)
      PROVE  k \in ToSet(t) \union {Head(s)}
  <2>1. PICK i \in 1..Len(s) : s[i] = k
    BY InRange
  <2>2. CASE i = 1
    BY <1>1, <2>1, <2>2
  <2>3. CASE i # 1
    <3>1. i - 1 \in 1..Len(t) /\ t[i - 1] = k
      BY <1>1, <2>1, <2>3
    <3> QED
      BY <1>1, <3>1, InRange
  <2> QED
    BY <2>2, <2>3
<1> QED
  BY <1>1, <1>2 DEF t

\* A push drops at most the oldest key.
LEMMA PushKeeps ==
    ASSUME Shape, NEW p \in Processes, NEW m \in Messages
    PROVE  /\ Push(p, m) \in Seq(Messages)
           /\ m \in ToSet(Push(p, m))
           /\ ToSet(seen[p]) \subseteq ToSet(Push(p, m)) \union Oldest(p)
<1>1. seen[p] \in Seq(Messages)
  BY DEF Shape
<1>2. CASE Len(seen[p]) = Window
  <2>1. Len(seen[p]) > 0
    BY <1>2, GatewayAssumption
  <2>2. /\ Tail(seen[p]) \in Seq(Messages)
        /\ ToSet(seen[p]) \subseteq ToSet(Tail(seen[p])) \union {Head(seen[p])}
    BY <1>1, <2>1, TailRange
  <2>3. Oldest(p) = {Head(seen[p])} /\ Push(p, m) = Append(Tail(seen[p]), m)
    BY <1>2 DEF Oldest, Push
  <2>4. /\ Append(Tail(seen[p]), m) \in Seq(Messages)
        /\ m \in ToSet(Append(Tail(seen[p]), m))
        /\ ToSet(Tail(seen[p])) \subseteq ToSet(Append(Tail(seen[p]), m))
    BY <2>2, AppendRange
  <2> QED
    BY <2>2, <2>3, <2>4, Zenon
<1>3. CASE Len(seen[p]) # Window
  <2>1. Oldest(p) = {} /\ Push(p, m) = Append(seen[p], m)
    BY <1>3 DEF Oldest, Push
  <2> QED
    BY <1>1, <2>1, AppendRange
<1> QED
  BY <1>2, <1>3

LEMMA ConcatShape ==
    ASSUME NEW a \in Seq(Messages), NEW b \in Seq(Messages)
    PROVE  /\ a \o b \in Seq(Messages)
           /\ Len(a \o b) = Len(a) + Len(b)
           /\ \A x \in 1..(Len(a) + Len(b)) :
                 (a \o b)[x] = IF x <= Len(a) THEN a[x] ELSE b[x - Len(a)]
OBVIOUS

LEMMA RemoveShape ==
    ASSUME NEW s \in Seq(Messages), NEW i \in 1..Len(s)
    PROVE  /\ RemoveAt(s, i) \in Seq(Messages)
           /\ Len(RemoveAt(s, i)) = Len(s) - 1
           /\ \A x \in 1..Len(RemoveAt(s, i)) :
                  RemoveAt(s, i)[x] = IF x < i THEN s[x] ELSE s[x + 1]
<1> DEFINE a == SubSeq(s, 1, i - 1)
           b == SubSeq(s, i + 1, Len(s))
<1>1. i \in Nat /\ Len(s) \in Nat /\ i >= 1 /\ i <= Len(s)
  OBVIOUS
<1>2. a \in Seq(Messages) /\ Len(a) = i - 1 /\ \A x \in 1..(i - 1) : a[x] = s[x]
  BY <1>1
<1>3. /\ b \in Seq(Messages) /\ Len(b) = Len(s) - i
      /\ \A x \in 1..(Len(s) - i) : b[x] = s[i + x]
  BY <1>1
<1> HIDE DEF a, b
<1>4. /\ a \o b \in Seq(Messages) /\ Len(a \o b) = Len(a) + Len(b)
      /\ \A x \in 1..(Len(a) + Len(b)) :
            (a \o b)[x] = IF x <= Len(a) THEN a[x] ELSE b[x - Len(a)]
  BY <1>2, <1>3, ConcatShape
<1>5. Len(a \o b) = Len(s) - 1
  BY <1>1, <1>2, <1>3, <1>4
<1>6. ASSUME NEW x \in 1..(Len(s) - 1)
      PROVE  (a \o b)[x] = IF x < i THEN s[x] ELSE s[x + 1]
  BY <1>1, <1>2, <1>3, <1>4
<1>7. RemoveAt(s, i) = a \o b
  BY DEF RemoveAt, a, b
<1> QED
  BY <1>4, <1>5, <1>6, <1>7

\* Removing one occurrence of a key keeps the others.
LEMMA RemoveKeeps ==
    ASSUME NEW s \in Seq(Messages), NEW i \in 1..Len(s), NEW k \in ToSet(s), k # s[i]
    PROVE  k \in ToSet(RemoveAt(s, i))
<1> DEFINE t == RemoveAt(s, i)
<1>1. PICK j \in 1..Len(s) : s[j] = k
  BY InRange
<1>2. /\ t \in Seq(Messages) /\ Len(t) = Len(s) - 1
      /\ \A x \in 1..Len(t) : t[x] = IF x < i THEN s[x] ELSE s[x + 1]
  BY RemoveShape
<1> HIDE DEF t
<1>3. j # i /\ i \in Nat /\ j \in Nat /\ Len(s) \in Nat
  BY <1>1
<1>4. CASE j < i
  <2>1. j \in 1..Len(t) /\ t[j] = k
    BY <1>1, <1>2, <1>3, <1>4
  <2> QED
    BY <1>2, <2>1, InRange DEF t
<1>5. CASE j > i
  <2>1. j - 1 \in 1..Len(t) /\ t[j - 1] = k
    BY <1>1, <1>2, <1>3, <1>5
  <2> QED
    BY <1>2, <2>1, InRange DEF t
<1> QED
  BY <1>3, <1>4, <1>5


-----------------------------------------------------------------------------
(* The shape of the state, and that a request has no task until it is submitted. *)

LEMMA ShapePreserved ==
    ASSUME Shape, [Next]_vars
    PROVE  Shape'
<1>1. CASE UNCHANGED vars
  BY <1>1 DEF vars, process, Shape
<1>2. ASSUME NEW r \in Requests, Admit(r) \/ Release(r) \/ Accept(r) \/ Submit(r) \/ Hook(r)
      PROVE  Shape'
  BY <1>2 DEF Shape, Admit, Release, Accept, Submit, Hook, Permit, Goto, process, Labels, Answered
<1>3. ASSUME NEW r \in Requests, Run(r) \/ Finish(r)
      PROVE  Shape'
  BY <1>3 DEF Shape, Run, Finish, Permit
<1>4. ASSUME NEW r \in Requests, Remember(r)
      PROVE  Shape'
  <2>1. host[r] \in Processes /\ msg[r] \in Messages
    BY DEF Shape
  <2>2. Push(host[r], msg[r]) \in Seq(Messages)
    BY <2>1, PushKeeps
  <2>3. pc' \in [Requests -> Labels]
    BY <1>4 DEF Shape, Remember, Goto, Labels, Answered
  <2>4. disk' = disk \/ disk' = Push(host[r], msg[r])
    BY <1>4 DEF Remember, Save, SaveRaises
  <2>5. \/ seen' = seen
        \/ \E s \in Seq(Messages) : seen' = [seen EXCEPT ![host[r]] = s]
    BY <1>4, <2>1, <2>2 DEF Shape, Remember, Save, SaveRaises, RolledBack
  <2>6. seen' \in [Processes -> Seq(Messages)]
    BY <2>5 DEF Shape
  <2> QED
    BY <1>4, <2>2, <2>3, <2>4, <2>6 DEF Shape, Remember
<1>5. ASSUME NEW r \in Requests, Forget(r)
      PROVE  Shape'
  <2>1. host[r] \in Processes /\ seen[host[r]] \in Seq(Messages)
    BY DEF Shape
  <2>2. pc' \in [Requests -> Labels]
    BY <1>5 DEF Shape, Forget, Goto, Labels, Answered
  <2>3. CASE UNCHANGED <<seen, disk>>
    BY <1>5, <2>2, <2>3 DEF Shape, Forget
  <2>4. ASSUME NEW i \in 1..Len(seen[host[r]]),
               seen' = [seen EXCEPT ![host[r]] = RemoveAt(seen[host[r]], i)],
               disk' \in {RemoveAt(seen[host[r]], i), disk}
        PROVE  Shape'
    <3>1. RemoveAt(seen[host[r]], i) \in Seq(Messages)
      BY <2>1, RemoveShape
    <3>2. disk' \in Seq(Messages)
      BY <2>4, <3>1 DEF Shape
    <3>3. seen' \in [Processes -> Seq(Messages)]
      BY <2>4, <3>1 DEF Shape
    <3> QED
      BY <1>5, <2>2, <3>2, <3>3 DEF Shape, Forget
  <2> QED
    BY <1>5, <2>3, <2>4 DEF Forget
<1>6. ASSUME NEW p \in Processes, Close(p) \/ Start(p)
      PROVE  Shape'
  <2>1. status' \in [Processes -> {"up", "closing", "down"}]
    BY <1>6 DEF Shape, Close, Start
  <2>2. seen' = seen \/ seen' = [seen EXCEPT ![p] = disk]
    BY <1>6 DEF Close, Start
  <2>3. seen' \in [Processes -> Seq(Messages)]
    BY <2>2 DEF Shape
  <2> QED
    BY <1>6, <2>1, <2>3 DEF Shape, Close, Start
<1>7. ASSUME NEW p \in Processes, Down(p)
      PROVE  Shape'
  <2>1. <<>> \in Seq(Messages)
    OBVIOUS
  <2>2. seen' \in [Processes -> Seq(Messages)]
    BY <1>7, <2>1 DEF Shape, Down
  <2>3. pc' \in [Requests -> Labels]
    BY <1>7 DEF Shape, Down, Labels, Answered
  <2>4. /\ task' \in [Requests -> {"none", "queued", "running", "done", "lost"}]
        /\ status' \in [Processes -> {"up", "closing", "down"}]
    BY <1>7 DEF Shape, Down
  <2> QED
    BY <1>7, <2>2, <2>3, <2>4 DEF Shape, Down
<1> QED
  BY <1>1, <1>2, <1>3, <1>4, <1>5, <1>6, <1>7 DEF Next, Handle, Exit, Crash

LEMMA TaskPreserved ==
    ASSUME Shape, TaskInv, [Next]_vars
    PROVE  TaskInv'
<1>1. CASE UNCHANGED vars
  BY <1>1 DEF vars, TaskInv, Answered
<1>2. ASSUME NEW r \in Requests, Handle(r) \/ Run(r) \/ Finish(r)
      PROVE  TaskInv'
  <2>1. ASSUME NEW q \in Requests, q # r
        PROVE  pc'[q] = pc[q] /\ task'[q] = task[q]
    BY <1>2, <2>1 DEF Shape, Handle, Admit, Remember, Release, Accept, Submit, Forget, Hook,
       Run, Finish, Goto, process
  <2>2. pc'[r] \notin {"hook"} \union Answered => task'[r] = "none"
    <3>1. CASE Submit(r)
      BY <3>1 DEF Shape, TaskInv, Submit, At, Goto, Answered
    <3>2. CASE Hook(r)
      BY <3>2 DEF Shape, Hook, Goto, Answered
    <3>3. CASE Admit(r) \/ Remember(r) \/ Release(r) \/ Accept(r) \/ Forget(r)
      <4>1. task' = task /\ task[r] = "none"
        BY <3>3 DEF TaskInv, Admit, Remember, Release, Accept, Forget, At, Answered
      <4> QED
        BY <4>1
    <3>4. CASE Run(r) \/ Finish(r)
      BY <3>4 DEF Shape, TaskInv, Run, Finish
    <3> QED
      BY <1>2, <3>1, <3>2, <3>3, <3>4 DEF Handle
  <2> QED
    BY <2>1, <2>2 DEF TaskInv, Answered
<1>3. ASSUME NEW p \in Processes, Close(p) \/ Start(p)
      PROVE  TaskInv'
  BY <1>3 DEF TaskInv, Close, Start, Answered
<1>4. ASSUME NEW p \in Processes, Down(p)
      PROVE  TaskInv'
  <2>1. ASSUME NEW q \in Requests, pc'[q] \notin {"hook"} \union Answered
        PROVE  task'[q] = "none"
    <3>1. task[q] = "none" => task'[q] = "none"
      BY <1>4 DEF Shape, Down
    <3>2. pc'[q] = pc[q]
      BY <1>4, <2>1 DEF Shape, Down, Answered
    <3> QED
      BY <2>1, <3>1, <3>2 DEF TaskInv
  <2> QED
    BY <2>1 DEF TaskInv, Answered
<1> QED
  BY <1>1, <1>2, <1>3, <1>4 DEF Next, Exit, Crash

-----------------------------------------------------------------------------
(* The owners' keys. *)

Keys == DiskInv /\ MemoryInv /\ SingleInv

\* A step that touches no key, makes no owner and starts no process keeps them.
LEMMA QuietStep ==
    ASSUME Keys, UNCHANGED <<disk, msg, host, aged>>,
           \A r \in Requests : Owner(r)' => Owner(r),
           \A r \in Requests : status'[host[r]] # "down" =>
               status[host[r]] # "down" /\ seen'[host[r]] = seen[host[r]]
    PROVE  Keys'
<1>1. DiskInv'
  BY DEF Keys, DiskInv
<1>2. MemoryInv'
  BY DEF Keys, MemoryInv
<1>3. SingleInv'
  BY DEF Keys, SingleInv
<1> QED
  BY <1>1, <1>2, <1>3 DEF Keys

LEMMA RememberKeeps ==
    ASSUME Shape, TaskInv, Keys, OneProcess, NEW r \in Requests, Remember(r)
    PROVE  Keys'
<1> DEFINE p == host[r]
           m == msg[r]
<1>1. /\ p \in Processes /\ m \in Messages /\ task[r] = "none" /\ pc[r] = "remember"
      /\ status[p] # "down" /\ UNCHANGED <<status, task, msg, host>>
      /\ \A q \in Requests : host[q] = p
  BY DEF Shape, TaskInv, Remember, At, Answered, OneProcess
<1>2. \A q \in Requests : q # r => Owner(q)' = Owner(q)
  BY <1>1 DEF Shape, Remember, Goto, Owner
<1>3. /\ ToSet(seen[p]) \subseteq ToSet(Push(p, m)) \union Oldest(p)
      /\ m \in ToSet(Push(p, m))
  BY <1>1, PushKeeps
<1>4. CASE m \notin ToSet(seen[p]) /\ Goto(r, "accept") /\ Save(p, m)
  <2>1. /\ seen'[p] = Push(p, m) /\ disk' = Push(p, m) /\ aged' = aged \union Oldest(p)
    BY <1>1, <1>4 DEF Save, Shape
  <2>2. \A q \in Requests : q # r /\ Owner(q) => msg[q] \in ToSet(seen[p]) \union aged
    BY <1>1 DEF Keys, MemoryInv
  <2>3. \A q \in Requests : Owner(q)' => msg[q] \in ToSet(Push(p, m)) \union aged'
    BY <1>2, <1>3, <2>1, <2>2
  <2>4. DiskInv' /\ MemoryInv'
    BY <1>1, <2>1, <2>3 DEF DiskInv, MemoryInv
  <2>5. SingleInv'
    <3>1. \A q \in Requests : q # r /\ Owner(q) /\ msg[q] = m => m \in aged
      BY <1>4, <2>2
    <3> QED
      BY <1>1, <1>2, <2>1, <3>1 DEF Keys, SingleInv
  <2> QED
    BY <2>4, <2>5 DEF Keys
<1>5. CASE \/ Goto(r, "duplicate") /\ UNCHANGED <<seen, disk, aged>>
           \/ Goto(r, "release") /\ SaveRaises(p, m)
  <2>1. ~ Owner(r)'
    BY <1>1, <1>5 DEF Shape, Goto, Owner, Marking
  <2>2. \A q \in Requests : Owner(q)' => Owner(q)
    BY <1>2, <2>1
  <2>3. seen'[p] = seen[p]
    BY <1>1, <1>5 DEF SaveRaises, RolledBack, Shape
  <2>4. CASE UNCHANGED <<disk, aged>>
    BY <1>1, <2>2, <2>3, <2>4, QuietStep
  <2>5. CASE disk' = Push(p, m) /\ aged' = aged \union Oldest(p)
    <3>1. \A q \in Requests : Owner(q)' => msg[q] \in ToSet(seen[p]) \union aged
      BY <1>1, <2>2 DEF Keys, MemoryInv
    <3>2. DiskInv' /\ MemoryInv'
      BY <1>1, <1>3, <2>3, <2>5, <3>1 DEF DiskInv, MemoryInv
    <3>3. SingleInv'
      BY <1>1, <2>2, <2>5 DEF Keys, SingleInv
    <3> QED
      BY <3>2, <3>3 DEF Keys
  <2> QED
    BY <1>5, <2>4, <2>5 DEF SaveRaises
<1> QED
  BY <1>4, <1>5 DEF Remember

LEMMA ForgetKeeps ==
    ASSUME Shape, TaskInv, Keys, OneProcess, NEW r \in Requests, Forget(r)
    PROVE  Keys'
<1> DEFINE p == host[r]
<1>1. /\ p \in Processes /\ seen[p] \in Seq(Messages)
      /\ task[r] = "none" /\ pc[r] = "forget" /\ status[p] # "down"
      /\ UNCHANGED <<status, task, msg, host, aged>>
      /\ \A q \in Requests : host[q] = p
  BY DEF Shape, TaskInv, Forget, At, Answered, OneProcess
<1>2. ~ Owner(r)' /\ \A q \in Requests : q # r => Owner(q)' = Owner(q)
  BY <1>1 DEF Shape, Forget, Goto, Owner, Marking
<1>3. \A q \in Requests : Owner(q)' => Owner(q) /\ q # r
  BY <1>2
<1>4. CASE UNCHANGED <<seen, disk>>
  BY <1>1, <1>3, <1>4, QuietStep
<1>5. ASSUME NEW i \in 1..Len(seen[p]),
             seen[p][i] = msg[r],
             seen' = [seen EXCEPT ![p] = RemoveAt(seen[p], i)],
             disk' \in {RemoveAt(seen[p], i), disk}
      PROVE  Keys'
  <2>1. seen'[p] = RemoveAt(seen[p], i)
    BY <1>1, <1>5 DEF Shape
  <2>2. Owner(r)
    BY <1>1 DEF Owner, Marking
  <2>3. ASSUME NEW q \in Requests, Owner(q)', msg[q] \notin aged
        PROVE  msg[q] \in ToSet(RemoveAt(seen[p], i)) /\ msg[q] \in ToSet(disk)
    <3>1. Owner(q) /\ q # r
      BY <1>3, <2>3
    <3>2. msg[q] \in ToSet(seen[p]) /\ msg[q] \in ToSet(disk)
      BY <1>1, <2>3, <3>1 DEF Keys, MemoryInv, DiskInv
    <3>3. msg[q] # msg[r]
      BY <2>2, <2>3, <3>1 DEF Keys, SingleInv
    <3> QED
      BY <1>1, <1>5, <3>2, <3>3, RemoveKeeps
  <2>4. DiskInv' /\ MemoryInv'
    BY <1>1, <1>5, <2>1, <2>3 DEF DiskInv, MemoryInv
  <2>5. SingleInv'
    BY <1>1, <1>3 DEF Keys, SingleInv
  <2> QED
    BY <2>4, <2>5 DEF Keys
<1> QED
  BY <1>4, <1>5 DEF Forget

LEMMA KeysPreserved ==
    ASSUME Shape, TaskInv, Keys, OneProcess, [Next]_vars
    PROVE  Keys'
<1>1. CASE UNCHANGED vars
  <2>1. \A r \in Requests : Owner(r)' => Owner(r)
    BY <1>1 DEF vars, Owner, Marking
  <2> QED
    BY <1>1, <2>1, QuietStep DEF vars, process
<1>2. ASSUME NEW r \in Requests,
             Admit(r) \/ Release(r) \/ Accept(r) \/ Submit(r) \/ Hook(r) \/ Run(r) \/ Finish(r)
      PROVE  Keys'
  <2>1. UNCHANGED <<disk, status, seen, msg, host, aged>>
    BY <1>2 DEF Admit, Release, Accept, Submit, Hook, Run, Finish, process
  <2>2. ASSUME NEW q \in Requests, q # r
        PROVE  Owner(q)' = Owner(q)
    BY <1>2, <2>2 DEF Shape, Admit, Release, Accept, Submit, Hook, Run, Finish, process, Goto,
       Owner
  <2>3. CASE Admit(r) \/ Release(r)
    <3>1. ~ Owner(r)'
      BY <2>3 DEF Shape, TaskInv, Admit, Release, At, Goto, Owner, Marking, Answered
    <3> QED
      BY <2>1, <2>2, <3>1, QuietStep
  <2>4. CASE Accept(r) \/ Submit(r)
    <3>1. Owner(r)
      BY <2>4 DEF Accept, Submit, At, Owner, Marking
    <3> QED
      BY <2>1, <2>2, <3>1, QuietStep
  <2>5. CASE Hook(r)
    <3>1. task' = task /\ pc'[r] = "accepted"
      BY <2>5 DEF Hook, Goto, Shape
    <3>2. Owner(r)' => Owner(r)
      BY <3>1 DEF Owner, Marking
    <3> QED
      BY <2>1, <2>2, <3>2, QuietStep
  <2>6. CASE Run(r) \/ Finish(r)
    <3>1. Owner(r)
      BY <2>6 DEF Run, Finish, Owner
    <3> QED
      BY <2>1, <2>2, <3>1, QuietStep
  <2> QED
    BY <1>2, <2>3, <2>4, <2>5, <2>6
<1>3. ASSUME NEW r \in Requests, Remember(r)
      PROVE  Keys'
  BY <1>3, RememberKeeps
<1>4. ASSUME NEW r \in Requests, Forget(r)
      PROVE  Keys'
  BY <1>4, ForgetKeeps
<1>5. ASSUME NEW p \in Processes, Close(p)
      PROVE  Keys'
  <2>1. \A r \in Requests : Owner(r)' => Owner(r)
    BY <1>5 DEF Close, Owner, Marking
  <2>2. \A r \in Requests : status'[host[r]] # "down" => status[host[r]] # "down"
    BY <1>5 DEF Shape, Close
  <2> QED
    BY <1>5, <2>1, <2>2, QuietStep DEF Close
<1>6. ASSUME NEW p \in Processes, Down(p)
      PROVE  Keys'
  <2>1. \A r \in Requests : Owner(r)' => Owner(r)
    BY <1>6 DEF Shape, Down, Owner, Marking, Answered
  <2>2. ASSUME NEW r \in Requests, status'[host[r]] # "down"
        PROVE  status[host[r]] # "down" /\ seen'[host[r]] = seen[host[r]]
    BY <1>6, <2>2 DEF Shape, Down
  <2> QED
    BY <1>6, <2>1, <2>2, QuietStep DEF Down
<1>7. ASSUME NEW p \in Processes, Start(p)
      PROVE  Keys'
  <2>1. /\ UNCHANGED <<disk, pc, task, msg, host, aged>>
        /\ \A r \in Requests : host[r] = p
        /\ seen'[p] = disk
    BY <1>7 DEF Shape, Start, OneProcess
  <2>2. \A r \in Requests : Owner(r)' = Owner(r)
    BY <2>1 DEF Owner, Marking
  <2>3. DiskInv' /\ SingleInv'
    BY <2>1, <2>2 DEF Keys, DiskInv, SingleInv
  <2>4. MemoryInv'
    BY <2>1, <2>2 DEF Keys, DiskInv, MemoryInv
  <2> QED
    BY <2>3, <2>4 DEF Keys
<1> QED
  BY <1>1, <1>2, <1>3, <1>4, <1>5, <1>6, <1>7 DEF Next, Handle, Exit, Crash

LEMMA InitKeys == Init => Shape /\ TaskInv /\ Keys
<1> SUFFICES ASSUME Init
             PROVE  Shape /\ TaskInv /\ Keys
  OBVIOUS
<1>1. <<>> \in Seq(Messages)
  OBVIOUS
<1>2. Shape /\ TaskInv
  BY <1>1 DEF Init, Shape, TaskInv, Labels
<1>3. \A r \in Requests : ~ Owner(r)
  BY DEF Init, Owner, Marking
<1> QED
  BY <1>2, <1>3 DEF Keys, DiskInv, MemoryInv, SingleInv

-----------------------------------------------------------------------------
(* The permits. *)

\* A queued or running task is the task of a thread about to hook it, or that did.
CallInv ==
    \A r \in Requests :
        /\ task[r] \in {"queued", "running"} => pc[r] \in {"hook", "accepted"}
        /\ pc[r] = "hook" => task[r] \in {"queued", "running", "done"}

Permits == free \in [Processes -> Int] /\ CallInv /\ PermitsAccounted

LEMMA CallPreserved ==
    ASSUME Shape, TaskInv, CallInv, [Next]_vars
    PROVE  CallInv'
<1>1. CASE UNCHANGED vars
  BY <1>1 DEF vars, CallInv
<1>2. ASSUME NEW r \in Requests, Handle(r) \/ Run(r) \/ Finish(r)
      PROVE  CallInv'
  <2>1. ASSUME NEW q \in Requests, q # r
        PROVE  pc'[q] = pc[q] /\ task'[q] = task[q]
    BY <1>2, <2>1 DEF Shape, Handle, Admit, Remember, Release, Accept, Submit, Forget, Hook,
       Run, Finish, Goto, process
  <2>2. /\ task'[r] \in {"queued", "running"} => pc'[r] \in {"hook", "accepted"}
        /\ pc'[r] = "hook" => task'[r] \in {"queued", "running", "done"}
    <3>1. CASE Submit(r)
      BY <3>1 DEF Shape, TaskInv, Submit, At, Goto, Answered
    <3>2. CASE Hook(r)
      BY <3>2 DEF Shape, Hook, Goto
    <3>3. CASE Admit(r) \/ Remember(r) \/ Release(r) \/ Accept(r) \/ Forget(r)
      <4>1. task' = task /\ task[r] = "none"
        BY <3>3 DEF TaskInv, Admit, Remember, Release, Accept, Forget, At, Answered
      <4>2. pc'[r] # "hook"
        BY <3>3 DEF Shape, Admit, Remember, Release, Accept, Forget, Goto
      <4> QED
        BY <4>1, <4>2
    <3>4. CASE Run(r) \/ Finish(r)
      BY <3>4 DEF Shape, CallInv, Run, Finish
    <3> QED
      BY <1>2, <3>1, <3>2, <3>3, <3>4 DEF Handle
  <2> QED
    BY <2>1, <2>2 DEF CallInv
<1>3. ASSUME NEW p \in Processes, Close(p) \/ Start(p)
      PROVE  CallInv'
  BY <1>3 DEF CallInv, Close, Start
<1>4. ASSUME NEW p \in Processes, Down(p)
      PROVE  CallInv'
  BY <1>4 DEF Shape, CallInv, Down, Answered
<1> QED
  BY <1>1, <1>2, <1>3, <1>4 DEF Next, Exit, Crash

\* A step of one request keeps the account if it takes a permit as it becomes a
\* holder, gives it back as it ceases to be one, and else leaves both alone.
LEMMA PermitStep ==
    ASSUME IsFiniteSet(Requests), Shape, Permits, NEW r \in Requests,
           host' = host,
           \A q \in Requests : q # r => pc'[q] = pc[q] /\ task'[q] = task[q],
           \/ ~ Holds(r) /\ Holds(r)' /\ free' = [free EXCEPT ![host[r]] = @ - 1]
           \/ Holds(r) /\ ~ Holds(r)' /\ free' = [free EXCEPT ![host[r]] = @ + 1]
           \/ Holds(r)' = Holds(r) /\ free' = free
    PROVE  free' \in [Processes -> Int] /\ PermitsAccounted'
<1>1. \A q \in Requests : q # r => Holds(q)' = Holds(q)
  BY DEF Holds
<1>2. free \in [Processes -> Int] /\ host[r] \in Processes /\ MaxPending \in Nat
  BY GatewayAssumption DEF Permits, Shape
<1>3. free' \in [Processes -> Int]
  BY <1>2
<1>4. ASSUME NEW p \in Processes
      PROVE  free'[p] + Cardinality(Holders(p)') = MaxPending
  <2>1. /\ free[p] + Cardinality(Holders(p)) = MaxPending
        /\ IsFiniteSet(Holders(p)) /\ Cardinality(Holders(p)) \in Nat
    <3>1. Holders(p) \subseteq Requests
      BY DEF Holders
    <3> QED
      BY <3>1, FS_Subset, FS_CardinalityType DEF Permits, PermitsAccounted
  <2>2. CASE host[r] # p
    <3>1. Holders(p)' = Holders(p)
      BY <1>1, <2>2 DEF Holders
    <3> QED
      BY <1>2, <2>1, <2>2, <3>1
  <2>3. CASE host[r] = p /\ Holds(r)' = Holds(r) /\ free' = free
    <3>1. Holders(p)' = Holders(p)
      BY <1>1, <2>3 DEF Holders
    <3> QED
      BY <2>1, <2>3, <3>1
  <2>4. CASE host[r] = p /\ ~ Holds(r) /\ Holds(r)' /\ free' = [free EXCEPT ![host[r]] = @ - 1]
    <3>1. Holders(p)' = Holders(p) \union {r} /\ r \notin Holders(p)
      BY <1>1, <2>4 DEF Holders
    <3>2. Cardinality(Holders(p)') = Cardinality(Holders(p)) + 1
      BY <2>1, <3>1, FS_AddElement
    <3> QED
      BY <1>2, <2>1, <2>4, <3>2
  <2>5. CASE host[r] = p /\ Holds(r) /\ ~ Holds(r)' /\ free' = [free EXCEPT ![host[r]] = @ + 1]
    <3>1. Holders(p)' = Holders(p) \ {r} /\ r \in Holders(p)
      BY <1>1, <2>5 DEF Holders
    <3>2. Cardinality(Holders(p)') = Cardinality(Holders(p)) - 1
      BY <2>1, <3>1, FS_RemoveElement
    <3> QED
      BY <1>2, <2>1, <2>5, <3>2
  <2> QED
    BY <2>2, <2>3, <2>4, <2>5
<1> QED
  BY <1>3, <1>4 DEF PermitsAccounted

LEMMA PermitsPreserved ==
    ASSUME IsFiniteSet(Requests), Shape, TaskInv, Permits, [Next]_vars
    PROVE  Permits'
<1>1. CallInv'
  BY CallPreserved DEF Permits
<1>2. CASE UNCHANGED vars
  BY <1>1, <1>2 DEF vars, process, Permits, PermitsAccounted, Holders, Holds
<1>3. ASSUME NEW r \in Requests, Handle(r) \/ Run(r) \/ Finish(r)
      PROVE  Permits'
  <2>1. /\ host' = host
        /\ \A q \in Requests : q # r => pc'[q] = pc[q] /\ task'[q] = task[q]
    BY <1>3 DEF Shape, Handle, Admit, Remember, Release, Accept, Submit, Forget, Hook,
       Run, Finish, Goto, process
  <2>2. \/ ~ Holds(r) /\ Holds(r)' /\ free' = [free EXCEPT ![host[r]] = @ - 1]
        \/ Holds(r) /\ ~ Holds(r)' /\ free' = [free EXCEPT ![host[r]] = @ + 1]
        \/ Holds(r)' = Holds(r) /\ free' = free
    <3>1. CASE Admit(r)
      BY <3>1 DEF Shape, Admit, At, Goto, Holds
    <3>2. CASE Remember(r)
      BY <3>2 DEF Shape, Remember, At, Goto, Holds
    <3>3. CASE Release(r)
      BY <3>3 DEF Shape, Release, At, Goto, Holds, Permit
    <3>4. CASE Accept(r)
      BY <3>4 DEF Shape, Accept, At, Goto, Holds, process
    <3>5. CASE Submit(r) \/ Forget(r)
      BY <3>5 DEF Shape, Submit, Forget, At, Goto, Holds
    <3>6. CASE Hook(r)
      <4>1. task[r] \in {"queued", "running", "done"} /\ pc[r] = "hook" /\ task' = task
            /\ pc'[r] = "accepted" /\ Holds(r)
        BY <3>6 DEF Shape, Permits, CallInv, Hook, At, Goto, Holds
      <4> QED
        BY <3>6, <4>1 DEF Hook, Holds, Permit
    <3>7. CASE Run(r)
      BY <3>7 DEF Shape, Run, Holds
    <3>8. CASE Finish(r)
      <4>1. pc[r] \in {"hook", "accepted"} /\ Holds(r) /\ task'[r] = "done" /\ pc' = pc
        BY <3>8 DEF Shape, Permits, CallInv, Finish, Holds
      <4> QED
        BY <3>8, <4>1 DEF Finish, Holds, Permit
    <3> QED
      BY <1>3, <3>1, <3>2, <3>3, <3>4, <3>5, <3>6, <3>7, <3>8 DEF Handle
  <2>3. free' \in [Processes -> Int] /\ PermitsAccounted'
    BY <2>1, <2>2, PermitStep
  <2> QED
    BY <1>1, <2>3 DEF Permits
<1>4. ASSUME NEW p \in Processes, Close(p) \/ Start(p)
      PROVE  Permits'
  <2>1. UNCHANGED <<free, host, pc, task>>
    BY <1>4 DEF Close, Start
  <2> QED
    BY <1>1, <2>1 DEF Permits, PermitsAccounted, Holders, Holds
<1>5. ASSUME NEW p \in Processes, Down(p)
      PROVE  Permits'
  <2>1. free' \in [Processes -> Int] /\ free'[p] = MaxPending
    BY <1>5, GatewayAssumption DEF Permits, Down
  <2>2. ASSUME NEW q \in Processes, q # p
        PROVE  free'[q] = free[q] /\ Holders(q)' = Holders(q)
    BY <1>5, <2>2 DEF Shape, Permits, Down, Holders, Holds
  <2>3. Holders(p)' = {}
    BY <1>5 DEF Shape, Down, Holders, Holds, Answered
  <2>4. ASSUME NEW q \in Processes
        PROVE  free'[q] + Cardinality(Holders(q)') = MaxPending
    <3>1. CASE q = p
      <4>1. Cardinality(Holders(q)') = 0
        BY <2>3, <3>1, FS_EmptySet
      <4> QED
        BY <2>1, <3>1, <4>1, GatewayAssumption
    <3>2. CASE q # p
      BY <2>2, <3>2 DEF Permits, PermitsAccounted
    <3> QED
      BY <3>1, <3>2
  <2> QED
    BY <1>1, <2>1, <2>4 DEF Permits, PermitsAccounted
<1> QED
  BY <1>2, <1>3, <1>4, <1>5 DEF Next, Exit, Crash

LEMMA InitPermits == Init => Shape /\ TaskInv /\ Permits
<1> SUFFICES ASSUME Init
             PROVE  Shape /\ TaskInv /\ Permits
  OBVIOUS
<1>1. Shape /\ TaskInv
  BY InitKeys
<1>2. free \in [Processes -> Int] /\ CallInv
  BY GatewayAssumption DEF Init, CallInv
<1>3. ASSUME NEW p \in Processes
      PROVE  free[p] + Cardinality(Holders(p)) = MaxPending
  <2>1. Holders(p) = {} /\ free[p] = MaxPending
    BY DEF Init, Holders, Holds
  <2> QED
    BY <2>1, FS_EmptySet, GatewayAssumption
<1> QED
  BY <1>1, <1>2, <1>3 DEF Permits, PermitsAccounted

-----------------------------------------------------------------------------
(* The theorems. *)

\* The inductive invariant: a request whose key _remember wrote has it on disk and in
\* the memory of a running process, or it aged out; no two requests own one key.
THEOREM KeysInvariant ==
    ASSUME OneProcess
    PROVE  Spec => [](Shape /\ TaskInv /\ Keys)
<1>1. Init => Shape /\ TaskInv /\ Keys
  BY InitKeys
<1>2. Shape /\ TaskInv /\ Keys /\ [Next]_vars => (Shape /\ TaskInv /\ Keys)'
  BY ShapePreserved, TaskPreserved, KeysPreserved
<1> QED
  BY <1>1, <1>2, PTL DEF Spec

\* With one process a message is given to the workers at most once while its key is
\* in the window, over any number of retries, failed saves, crashes and restarts.
THEOREM RunOnceHolds ==
    ASSUME OneProcess
    PROVE  Spec => []RunOnce
<1>1. Keys => RunOnce
  BY DEF Keys, SingleInv, RunOnce, Owner
<1> QED
  BY <1>1, KeysInvariant, PTL

\* With one process a message that was given to the workers has its key in the state
\* file, or it aged out of the window.
THEOREM WorkIsRememberedHolds ==
    ASSUME OneProcess
    PROVE  Spec => []WorkIsRemembered
<1>1. Keys => WorkIsRemembered
  BY DEF Keys, DiskInv, WorkIsRemembered, Owner
<1> QED
  BY <1>1, KeysInvariant, PTL

\* Any number of processes may share the file: every permit is free or held by a
\* request in flight, by its task, or by one an audit event stranded.
THEOREM PermitsAccountedHolds ==
    ASSUME IsFiniteSet(Requests)
    PROVE  Spec => []PermitsAccounted
<1>1. Init => Shape /\ TaskInv /\ Permits
  BY InitPermits
<1>2. Shape /\ TaskInv /\ Permits /\ [Next]_vars => (Shape /\ TaskInv /\ Permits)'
  BY ShapePreserved, TaskPreserved, PermitsPreserved
<1>3. Permits => PermitsAccounted
  BY DEF Permits
<1> QED
  BY <1>1, <1>2, <1>3, PTL DEF Spec

\* The three together, as the run checks them on a small instance.
THEOREM DispatchSoundHolds ==
    ASSUME OneProcess, IsFiniteSet(Requests)
    PROVE  Spec => []DispatchSound
<1>1. RunOnce /\ WorkIsRemembered /\ PermitsAccounted => DispatchSound
  BY DEF DispatchSound
<1> QED
  BY <1>1, RunOnceHolds, WorkIsRememberedHolds, PermitsAccountedHolds, PTL
=============================================================================
