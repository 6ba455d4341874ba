---------------------------- MODULE ApprovalsProofs ----------------------------
(***************************************************************************)
(* Proofs about Approvals, for any number of workers, identifiers and      *)
(* requests and for both stores: type correctness, that a one-time         *)
(* approval is consumed once, and the refinement of ApprovalAuthority.     *)
(***************************************************************************)
EXTENDS Approvals, TLAPS

\* The worker's variable `held` names a record that exists.
HoldsRecord == {"granted", "sample", "check", "commit", "used", "expire", "lapsed"}

HeldInv ==
    \A w \in Workers :
        /\ pc[w] = "lookup" => held[w] \in Ids
        /\ pc[w] \in HoldsRecord => held[w] \in Stored

\* A copy agrees with the stored record on what an update never changes, and a
\* copy about to be published as used was open when it was read.
CopyInv ==
    \A w \in Workers :
        ~SharedRecords /\ pc[w] \in {"sample", "check", "commit", "expire"} =>
            /\ copy[w] \in Record
            /\ copy[w].scope = store[held[w]].scope
            /\ pc[w] = "commit" => copy[w].status \in {"active", "used"}
            /\ pc[w] = "commit" /\ copy[w].scope = "once" => copy[w].status = "active"

\* A session record is never marked used: it stays active until it expires.
SessionInv ==
    \A id \in Stored : store[id].scope = "session" => store[id].status # "used"

\* A one-time record that was used is no longer active ...
SpentInv ==
    \A u \in AcceptedUses :
        /\ u.id \in Stored
        /\ store[u.id].scope = "once" => store[u.id].status # "active"

\* ... and was used once.
SingleInv ==
    \A u, v \in AcceptedUses :
        u.id = v.id /\ store[u.id].scope = "once" => u = v

IInv == TypeOK /\ HeldInv /\ CopyInv /\ SessionInv /\ SpentInv /\ SingleInv

-----------------------------------------------------------------------------
(* Lemmas about records. *)

LEMMA NoRecordIsNone == NoRecord \notin Record
BY DEF NoRecord, Record, Scopes

\* consume's assignments keep a record well formed and its scope as granted.
LEMMA StampedRecord ==
    ASSUME NEW rec \in Record
    PROVE  /\ Stamped(rec) \in Record
           /\ Stamped(rec).scope = rec.scope
           /\ rec.scope = "once" => Stamped(rec).status = "used"
           /\ rec.scope = "session" => Stamped(rec).status = "active"
<1>1. /\ AfterUse(rec) \in Statuses
      /\ rec.scope = "once" => AfterUse(rec) = "used"
      /\ rec.scope = "session" => AfterUse(rec) = "active"
  BY DEF AfterUse, Statuses
<1> DEFINE counted == [rec EXCEPT !.useCount = rec.useCount + 1]
<1>2. counted \in Record /\ counted.scope = rec.scope
  BY DEF Record
<1>3. Stamped(rec) = [counted EXCEPT !.status = AfterUse(rec)]
  BY DEF Stamped
<1> HIDE DEF counted
<1>4. /\ [counted EXCEPT !.status = AfterUse(rec)] \in Record
      /\ [counted EXCEPT !.status = AfterUse(rec)].scope = counted.scope
      /\ [counted EXCEPT !.status = AfterUse(rec)].status = AfterUse(rec)
  BY <1>1, <1>2 DEF Record
<1> QED
  BY <1>1, <1>2, <1>3, <1>4

LEMMA LapsedRecord ==
    ASSUME NEW rec \in Record
    PROVE  /\ Lapsed(rec) \in Record
           /\ Lapsed(rec).scope = rec.scope
           /\ Lapsed(rec).status = "expired"
BY DEF Lapsed, Record, Statuses

LEMMA StoredRecord ==
    ASSUME TypeOK, NEW id \in Stored
    PROVE  id \in Ids /\ store[id] \in Record
BY DEF TypeOK, Stored

\* The record consume works on is well formed and has the stored scope.
LEMMA ViewRecord ==
    ASSUME TypeOK, HeldInv, CopyInv, NEW w \in Workers,
           pc[w] \in {"sample", "check", "commit", "expire"}
    PROVE  /\ held[w] \in Stored
           /\ View(w) \in Record
           /\ View(w).scope = store[held[w]].scope
BY StoredRecord DEF HeldInv, CopyInv, HoldsRecord, View, TypeOK, ConstantsAssumption

-----------------------------------------------------------------------------
(* Type correctness. It needs HeldInv and CopyInv: consume reads and writes *)
(* the record it holds.                                                    *)

LEMMA Bounds ==
    MaxTime \in Nat /\ MaxCalls \in Nat /\ OnceTtl \in Nat /\ SessionTtl \in Nat
BY ConstantsAssumption

LEMMA ClockIsNat == ASSUME TypeOK PROVE now \in 0..MaxTime /\ now \in Nat
<1>1. now \in 0..MaxTime
  BY DEF TypeOK
<1> QED
  BY <1>1, Bounds

LEMMA SerialIsSerial ==
    ASSUME TypeOK, calls < MaxCalls PROVE calls \in Serials /\ calls + 1 \in Serials
<1>1. calls \in Serials
  BY DEF TypeOK
<1> QED
  BY <1>1, Bounds DEF Serials

\* The records stay well formed and none disappears.
LEMMA StorePreserved ==
    ASSUME TypeOK, HeldInv, CopyInv, Next
    PROVE  store' \in [Ids -> Record \union {NoRecord}]
<1>1. CASE Tick
  BY <1>1 DEF TypeOK, Tick
<1>2. ASSUME NEW w \in Workers, Step(w)
      PROVE  store' \in [Ids -> Record \union {NoRecord}]
  <2>1. ASSUME NEW scope \in Scopes, Grant(w, scope)
        PROVE  store' \in [Ids -> Record \union {NoRecord}]
    <3>1. CASE UNCHANGED store
      BY <3>1 DEF TypeOK
    <3>2. ASSUME NEW id \in Ids,
                 store' = [store EXCEPT ![id] =
                      [scope |-> scope, fingerprint |-> req[w],
                       expires |-> now + Ttl(scope),
                       status |-> "active", useCount |-> 0]]
          PROVE  store' \in [Ids -> Record \union {NoRecord}]
      <4>1. req[w] \in Requests
        BY DEF TypeOK
      <4>2. now \in Nat /\ Ttl(scope) \in Nat
        BY ClockIsNat, ConstantsAssumption DEF Ttl
      <4>3. [scope |-> scope, fingerprint |-> req[w],
             expires |-> now + Ttl(scope),
             status |-> "active", useCount |-> 0] \in Record
        BY <4>1, <4>2 DEF Record, Scopes, Statuses
      <4> QED
        BY <3>2, <4>3 DEF TypeOK
    <3> QED
      BY <2>1, <3>1, <3>2 DEF Grant
  <2>2. CASE Check(w)
    <3>1. held[w] \in Ids /\ View(w) \in Record
      BY <2>2, ViewRecord, StoredRecord DEF Check
    <3>2. Stamped(View(w)) \in Record /\ Lapsed(View(w)) \in Record
      BY <3>1, StampedRecord, LapsedRecord
    <3> QED
      BY <2>2, <3>1, <3>2 DEF Check, Assign, TypeOK
  <2>3. CASE Commit(w) \/ Expire(w)
    <3>1. held[w] \in Ids /\ (SharedRecords \/ copy[w] \in Record)
      BY <2>3, ViewRecord, StoredRecord DEF Commit, Expire, View
    <3>2. SharedRecords \/ (Stamped(copy[w]) \in Record /\ Lapsed(copy[w]) \in Record)
      BY <3>1, StampedRecord, LapsedRecord
    <3> QED
      BY <2>3, <3>1, <3>2 DEF Commit, Expire, Publish, TypeOK
  <2>4. CASE UNCHANGED store
    BY <2>4 DEF TypeOK
  <2> QED
    BY <1>2, <2>1, <2>2, <2>3, <2>4
    DEF Step, Authorize, Present, TryNext, Deny, EmitGranted, Lookup, Sample,
        EmitUsed, EmitExpired, Crash
<1> QED
  BY <1>1, <1>2 DEF Next

LEMMA TypePreserved ==
    ASSUME TypeOK, HeldInv, CopyInv, [Next]_vars
    PROVE  TypeOK'
<1>1. CASE UNCHANGED vars
  BY <1>1 DEF vars, local, TypeOK
<1>2. CASE Tick
  <2>1. now' \in 0..MaxTime
    BY <1>2, ClockIsNat, Bounds DEF Tick
  <2> QED
    BY <1>2, <2>1 DEF Tick, TypeOK, local
<1>3. ASSUME NEW w \in Workers, Step(w)
      PROVE  TypeOK'
  <2>1. store' \in [Ids -> Record \union {NoRecord}]
    BY <1>3, StorePreserved DEF Next
  <2>2. ASSUME NEW r \in Requests, Authorize(w, r)
        PROVE  TypeOK'
    <3>1. call' \in [Workers -> Serials] /\ calls' \in Serials
      BY <2>2, SerialIsSerial DEF Authorize, Start, TypeOK
    <3>2. todo' \in [Workers -> SUBSET Ids]
      BY <2>2 DEF Authorize, Stored, TypeOK
    <3>3. pc' \in [Workers -> PCs] /\ req' \in [Workers -> Requests]
      BY <2>2 DEF Authorize, Start, Goto, TypeOK, PCs
    <3> QED
      BY <2>1, <2>2, <3>1, <3>2, <3>3 DEF Authorize, Start, TypeOK
  <2>3. ASSUME NEW r \in Requests, NEW id \in Ids, Present(w, r, id)
        PROVE  TypeOK'
    <3>1. call' \in [Workers -> Serials] /\ calls' \in Serials
      BY <2>3, SerialIsSerial DEF Present, Start, TypeOK
    <3>2. pc' \in [Workers -> PCs] /\ req' \in [Workers -> Requests]
      BY <2>3 DEF Present, Start, Goto, TypeOK, PCs
    <3> QED
      BY <2>1, <2>3, <3>1, <3>2 DEF Present, Start, TypeOK
  <2>4. CASE TryNext(w)
    <3>1. /\ todo' \in [Workers -> SUBSET Ids]
          /\ held' \in [Workers -> Ids \union {NoId}]
      <4>1. /\ todo \in [Workers -> SUBSET Ids]
            /\ held \in [Workers -> Ids \union {NoId}]
        BY DEF TypeOK
      <4>2. CASE UNCHANGED <<todo, held>>
        BY <4>1, <4>2
      <4>3. ASSUME NEW id \in todo[w],
                   todo' = [todo EXCEPT ![w] = @ \ {id}],
                   held' = [held EXCEPT ![w] = id]
            PROVE  /\ todo' \in [Workers -> SUBSET Ids]
                   /\ held' \in [Workers -> Ids \union {NoId}]
        <5>1. id \in Ids /\ todo[w] \ {id} \subseteq Ids
          BY <4>1
        <5> QED
          BY <4>1, <4>3, <5>1
      <4> QED
        BY <2>4, <4>2, <4>3 DEF TryNext
    <3>2. pc' \in [Workers -> PCs]
      BY <2>4 DEF TryNext, Goto, TypeOK, PCs
    <3> QED
      BY <2>1, <2>4, <3>1, <3>2 DEF TryNext, TypeOK
  <2>5. CASE Deny(w)
    BY <2>1, <2>5 DEF Deny, Refuse, Goto, local, TypeOK, PCs
  <2>6. ASSUME NEW scope \in Scopes, Grant(w, scope)
        PROVE  TypeOK'
    <3>1. /\ UNCHANGED <<now, calls, call, req, todo, copy, usedAt, uses>>
          /\ pc' = [pc EXCEPT ![w] = "refused"] \/ pc' = [pc EXCEPT ![w] = "granted"]
          /\ reason' = reason \/ reason' = [reason EXCEPT ![w] = "disabled"]
          /\ via' = via \/ via' = [via EXCEPT ![w] = "granted"]
          /\ held' = held \/ \E id \in Ids : held' = [held EXCEPT ![w] = id]
      BY <2>6 DEF Grant, Refuse, Goto
    <3>2. pc' \in [Workers -> PCs]
      BY <3>1 DEF TypeOK, PCs
    <3>3. held' \in [Workers -> Ids \union {NoId}]
      <4>1. held \in [Workers -> Ids \union {NoId}]
        BY DEF TypeOK
      <4>2. ASSUME NEW id \in Ids, held' = [held EXCEPT ![w] = id]
            PROVE  held' \in [Workers -> Ids \union {NoId}]
        BY ONLY <4>1, <4>2
      <4> QED
        BY <3>1, <4>1, <4>2
    <3>4. via' \in [Workers -> {"matching", "granted", "direct"}]
      BY <3>1 DEF TypeOK
    <3> QED
      BY <2>1, <3>1, <3>2, <3>3, <3>4 DEF TypeOK
  <2>7. CASE EmitGranted(w) \/ EmitUsed(w) \/ EmitExpired(w)
    BY <2>1, <2>7 DEF EmitGranted, EmitUsed, EmitExpired, Refuse, Goto, local, TypeOK, PCs
  <2>8. CASE Lookup(w)
    <3>1. held[w] \in Ids
      BY <2>8 DEF Lookup, HeldInv
    <3> QED
      BY <2>1, <2>8, <3>1 DEF Lookup, Refuse, Goto, TypeOK, PCs
  <2>9. CASE Sample(w)
    BY <2>1, <2>9, ClockIsNat DEF Sample, Goto, TypeOK, PCs
  <2>10. CASE Check(w)
    BY <2>1, <2>10 DEF Check, Refuse, Goto, local, TypeOK, PCs
  <2>11. CASE Commit(w)
    <3>1. held[w] \in Ids
      BY <2>11, ViewRecord, StoredRecord DEF Commit
    <3>2. [id |-> held[w], call |-> call[w]] \in [id : Ids, call : Serials]
      BY <3>1 DEF TypeOK
    <3>3. uses' \subseteq [id : Ids, call : Serials]
      <4>1. uses \subseteq [id : Ids, call : Serials]
        BY DEF TypeOK
      <4>2. uses' = uses \/ uses' = uses \union {[id |-> held[w], call |-> call[w]]}
        BY <2>11 DEF Commit
      <4> QED
        BY <3>2, <4>1, <4>2
    <3>4. pc' \in [Workers -> PCs]
      <4>1. pc \in [Workers -> PCs] /\ {"used", "refused"} \subseteq PCs
        BY DEF TypeOK, PCs
      <4>2. pc' = [pc EXCEPT ![w] = "used"] \/ pc' = [pc EXCEPT ![w] = "refused"]
        BY <2>11 DEF Commit, Refuse, Goto
      <4> QED
        BY <4>1, <4>2
    <3>5. /\ reason' = reason \/ reason' = [reason EXCEPT ![w] = "changed"]
          /\ UNCHANGED <<now, calls, call, req, via, todo, held, copy, usedAt>>
      BY <2>11 DEF Commit, Refuse, local
    <3> QED
      BY <2>1, <3>3, <3>4, <3>5 DEF TypeOK
  <2>12. CASE Expire(w)
    BY <2>1, <2>12 DEF Expire, Refuse, Goto, local, TypeOK, PCs
  <2>13. CASE Crash(w)
    BY <2>1, <2>13 DEF Crash, Goto, local, TypeOK, PCs
  <2> QED
    BY <1>3, <2>2, <2>3, <2>4, <2>5, <2>6, <2>7, <2>8, <2>9, <2>10, <2>11, <2>12, <2>13
    DEF Step
<1> QED
  BY <1>1, <1>2, <1>3 DEF Next

-----------------------------------------------------------------------------
(* No step removes a record, changes its scope, or reopens a spent one. *)

LEMMA StoreMonotone ==
    ASSUME TypeOK, HeldInv, CopyInv, Next, NEW id \in Stored
    PROVE  /\ id \in Stored'
           /\ store'[id].scope = store[id].scope
           /\ store[id].scope = "once" /\ store[id].status # "active" =>
                  store'[id].status # "active"
<1> DEFINE Kept(rec) ==
        /\ rec # NoRecord
        /\ rec.scope = store[id].scope
        /\ store[id].scope = "once" /\ store[id].status # "active" => rec.status # "active"
<1>1. id \in Ids /\ store[id] \in Record /\ store[id] # NoRecord
  BY StoredRecord DEF Stored
<1>2. SUFFICES Kept(store'[id])
  BY <1>1 DEF Stored
<1>3. ASSUME NEW rec \in Record, rec.scope = store[id].scope
      PROVE  Kept(Stamped(rec)) /\ Kept(Lapsed(rec))
  BY <1>3, StampedRecord, LapsedRecord, NoRecordIsNone
<1>4. CASE UNCHANGED store
  BY <1>1, <1>4
<1>5. ASSUME NEW w \in Workers, Step(w)
      PROVE  Kept(store'[id])
  <2>1. ASSUME NEW scope \in Scopes, Grant(w, scope)
        PROVE  Kept(store'[id])
    <3>1. UNCHANGED store \/ \E new \in Ids \ Stored : \E rec : store' = [store EXCEPT ![new] = rec]
      BY <2>1 DEF Grant
    <3>2. store'[id] = store[id]
      BY <1>1, <3>1 DEF TypeOK
    <3> QED
      BY <1>1, <3>2
  <2>2. CASE Check(w)
    <3>1. /\ held[w] \in Stored /\ View(w) \in Record
          /\ View(w).scope = store[held[w]].scope
      BY <2>2, ViewRecord DEF Check
    <3>2. UNCHANGED store \/ store' = [store EXCEPT ![held[w]] = Stamped(View(w))]
                          \/ store' = [store EXCEPT ![held[w]] = Lapsed(View(w))]
      BY <2>2 DEF Check, Assign
    <3> QED
      BY <1>1, <1>3, <3>1, <3>2 DEF TypeOK
  <2>3. CASE Commit(w) \/ Expire(w)
    <3>1. /\ held[w] \in Stored /\ View(w) \in Record
          /\ View(w).scope = store[held[w]].scope
      BY <2>3, ViewRecord DEF Commit, Expire
    <3>2. \/ UNCHANGED store
          \/ /\ ~SharedRecords
             /\ \/ store' = [store EXCEPT ![held[w]] = Stamped(copy[w])]
                \/ store' = [store EXCEPT ![held[w]] = Lapsed(copy[w])]
      BY <2>3 DEF Commit, Expire, Publish
    <3>3. CASE UNCHANGED store
      BY <1>4, <3>3
    <3>4. CASE ~SharedRecords
      <4>1. View(w) = copy[w]
        BY <3>4 DEF View
      <4>2. CASE id = held[w]
        <5>1. Kept(Stamped(copy[w])) /\ Kept(Lapsed(copy[w]))
          BY <1>3, <3>1, <4>1, <4>2
        <5>2. \/ store'[id] = store[id]
              \/ store'[id] = Stamped(copy[w])
              \/ store'[id] = Lapsed(copy[w])
          <6>1. store \in [Ids -> Record \union {NoRecord}]
            BY DEF TypeOK
          <6> HIDE DEF Kept
          <6> QED
            BY <1>1, <3>2, <4>2, <6>1
        <5>3. Kept(store[id])
          BY <1>1
        <5> HIDE DEF Kept
        <5> QED
          BY <5>1, <5>2, <5>3
      <4>3. CASE id # held[w]
        <5>1. store'[id] = store[id]
          BY <1>1, <3>2, <4>3 DEF TypeOK
        <5> QED
          BY <1>1, <5>1
      <4> QED
        BY <4>2, <4>3
    <3> QED
      BY <3>2, <3>3, <3>4
  <2> QED
    BY <1>4, <1>5, <2>1, <2>2, <2>3
    DEF Step, Authorize, Present, TryNext, Deny, EmitGranted, Lookup, Sample,
        EmitUsed, EmitExpired, Crash
<1> QED
  BY <1>4, <1>5 DEF Next, Tick

-----------------------------------------------------------------------------
(* The held record and its copy. *)

\* A worker's step leaves the local state of the others alone.
LEMMA OthersUnchanged ==
    ASSUME TypeOK, NEW w \in Workers, Step(w), NEW u \in Workers, u # w
    PROVE  /\ pc'[u] = pc[u] /\ held'[u] = held[u]
           /\ copy'[u] = copy[u] /\ call'[u] = call[u]
<1>1. pc'[u] = pc[u]
  BY DEF TypeOK, Step, Authorize, Present, TryNext, Deny, Grant, EmitGranted, Lookup, Sample,
     Check, Commit, EmitUsed, Expire, EmitExpired, Crash, Refuse, Goto
<1>2. held'[u] = held[u]
  BY DEF TypeOK, Step, Authorize, Present, TryNext, Deny, Grant, EmitGranted, Lookup, Sample,
     Check, Commit, EmitUsed, Expire, EmitExpired, Crash, local
<1>3. copy'[u] = copy[u]
  BY DEF TypeOK, Step, Authorize, Present, TryNext, Deny, Grant, EmitGranted, Lookup, Sample,
     Check, Commit, EmitUsed, Expire, EmitExpired, Crash, local
<1>4. call'[u] = call[u]
  BY DEF TypeOK, Step, Authorize, Present, Start, TryNext, Deny, Grant, EmitGranted, Lookup,
     Sample, Check, Commit, EmitUsed, Expire, EmitExpired, Crash, local
<1> QED
  BY <1>1, <1>2, <1>3, <1>4

LEMMA HeldPreserved ==
    ASSUME TypeOK, HeldInv, CopyInv, [Next]_vars
    PROVE  HeldInv'
<1> DEFINE Holds(u) == /\ pc[u] = "lookup" => held[u] \in Ids
                       /\ pc[u] \in HoldsRecord => held[u] \in Stored
<1>1. SUFFICES ASSUME NEW u \in Workers PROVE Holds(u)'
  BY DEF HeldInv
<1>2. Holds(u)
  BY DEF HeldInv
<1>3. CASE UNCHANGED vars
  BY <1>2, <1>3 DEF vars, local, Stored
<1>4. CASE Tick
  BY <1>2, <1>4 DEF Tick, local, Stored
<1>5. ASSUME NEW w \in Workers, Step(w), u # w
      PROVE  Holds(u)'
  <2>1. Stored \subseteq Stored'
    BY <1>5, StoreMonotone DEF Next
  <2> QED
    BY <1>2, <1>5, <2>1, OthersUnchanged
<1>6. ASSUME Step(u)
      PROVE  Holds(u)'
  <2>1. Stored \subseteq Stored'
    BY <1>6, StoreMonotone DEF Next
  <2>2. pc \in [Workers -> PCs] /\ held \in [Workers -> Ids \union {NoId}]
    BY DEF TypeOK
  <2>3. ASSUME NEW r \in Requests, Authorize(u, r)
        PROVE  Holds(u)'
    BY <2>2, <2>3 DEF Authorize, Start, Goto, HoldsRecord
  <2>4. ASSUME NEW r \in Requests, NEW id \in Ids, Present(u, r, id)
        PROVE  Holds(u)'
    BY <2>2, <2>4 DEF Present, Start, Goto, HoldsRecord
  <2>5. CASE TryNext(u)
    <3>1. todo[u] \subseteq Ids
      BY DEF TypeOK
    <3> QED
      BY <2>2, <2>5, <3>1 DEF TryNext, Goto, HoldsRecord
  <2>6. ASSUME NEW scope \in Scopes, Grant(u, scope)
        PROVE  Holds(u)'
    <3>1. CASE Refuse(u, "disabled")
      BY <2>2, <3>1 DEF Refuse, Goto, HoldsRecord
    <3>2. ASSUME NEW id \in Ids, NEW rec \in [scope : {scope}, fingerprint : {req[u]},
                     expires : {now + Ttl(scope)}, status : {"active"}, useCount : {0}],
                 store' = [store EXCEPT ![id] = rec],
                 held' = [held EXCEPT ![u] = id], Goto(u, "granted")
          PROVE  Holds(u)'
      <4>1. rec # NoRecord
        BY <3>2 DEF NoRecord, Scopes
      <4>2. id \in Stored'
        BY <3>2, <4>1 DEF TypeOK, Stored
      <4> QED
        BY <2>2, <3>2, <4>2 DEF Goto
    <3> QED
      BY <2>6, <3>1, <3>2 DEF Grant
  <2>7. CASE Lookup(u)
    BY <1>2, <2>1, <2>2, <2>7 DEF Lookup, Refuse, Goto, HoldsRecord
  <2>8. CASE Deny(u) \/ EmitGranted(u) \/ Sample(u) \/ EmitUsed(u) \/ EmitExpired(u) \/ Crash(u)
    <3>1. /\ held' = held
          /\ \/ pc[u] = "granted" /\ pc' = [pc EXCEPT ![u] = "lookup"]
             \/ pc[u] = "sample" /\ pc' = [pc EXCEPT ![u] = "check"]
             \/ \E label \in {"refused", "matching", "authorised", "idle"} :
                   pc' = [pc EXCEPT ![u] = label]
      BY <2>8
      DEF Deny, EmitGranted, Sample, EmitUsed, EmitExpired, Crash, Refuse, Goto, local
    <3>2. Stored \subseteq Ids
      BY DEF Stored
    <3> QED
      BY <1>2, <2>1, <2>2, <3>1, <3>2 DEF HoldsRecord
  <2>9. CASE Check(u)
    <3>1. /\ pc[u] = "check" /\ held' = held
          /\ \/ pc' = [pc EXCEPT ![u] = "expire"] \/ pc' = [pc EXCEPT ![u] = "commit"]
             \/ pc' = [pc EXCEPT ![u] = "refused"]
      BY <2>9 DEF Check, Refuse, Goto, local
    <3> QED
      BY <1>2, <2>1, <2>2, <3>1 DEF HoldsRecord
  <2>10. CASE Commit(u) \/ Expire(u)
    <3>1. /\ pc[u] \in HoldsRecord /\ held' = held
          /\ \/ pc' = [pc EXCEPT ![u] = "used"] \/ pc' = [pc EXCEPT ![u] = "lapsed"]
             \/ pc' = [pc EXCEPT ![u] = "refused"]
      BY <2>10 DEF Commit, Expire, Refuse, Goto, local, HoldsRecord
    <3> QED
      BY <1>2, <2>1, <2>2, <3>1 DEF HoldsRecord
  <2> QED
    BY <1>6, <2>3, <2>4, <2>5, <2>6, <2>7, <2>8, <2>9, <2>10 DEF Step
<1> QED
  BY <1>3, <1>4, <1>5, <1>6 DEF Next

LEMMA CopyPreserved ==
    ASSUME TypeOK, HeldInv, CopyInv, [Next]_vars
    PROVE  CopyInv'
<1> DEFINE Copied(u) ==
        ~SharedRecords /\ pc[u] \in {"sample", "check", "commit", "expire"} =>
            /\ copy[u] \in Record
            /\ copy[u].scope = store[held[u]].scope
            /\ pc[u] = "commit" => copy[u].status \in {"active", "used"}
            /\ pc[u] = "commit" /\ copy[u].scope = "once" => copy[u].status = "active"
<1>1. SUFFICES ASSUME NEW u \in Workers, ~SharedRecords,
                      pc'[u] \in {"sample", "check", "commit", "expire"}
               PROVE Copied(u)'
  BY DEF CopyInv
<1>2. Copied(u)
  BY DEF CopyInv
<1>3. CASE UNCHANGED vars
  BY <1>2, <1>3 DEF vars, local
<1>4. CASE Tick
  BY <1>2, <1>4 DEF Tick, local
<1>5. ASSUME NEW w \in Workers, Step(w), u # w
      PROVE  Copied(u)'
  <2>1. /\ pc'[u] = pc[u] /\ held'[u] = held[u] /\ copy'[u] = copy[u]
    BY <1>5, OthersUnchanged
  <2>2. held[u] \in Stored
    BY <1>1, <2>1 DEF HeldInv, HoldsRecord
  <2>3. store'[held[u]].scope = store[held[u]].scope
    BY <1>5, <2>2, StoreMonotone DEF Next
  <2> QED
    BY <1>2, <2>1, <2>3
<1>6. ASSUME Step(u)
      PROVE  Copied(u)'
  <2>1. pc \in [Workers -> PCs]
    BY DEF TypeOK
  <2>2. Lookup(u) \/ Sample(u) \/ Check(u)
    BY <1>1, <1>6, <2>1
    DEF Step, Authorize, Present, Start, TryNext, Deny, Grant, EmitGranted,
        Commit, EmitUsed, Expire, EmitExpired, Crash, Refuse, Goto
  <2>3. CASE Lookup(u)
    <3>1. held[u] \in Stored /\ pc'[u] = "sample"
      BY <1>1, <2>1, <2>3 DEF Lookup, Refuse, Goto
    <3>2. copy'[u] = store[held[u]] /\ store' = store /\ held' = held
      BY <2>3 DEF Lookup, TypeOK
    <3> QED
      BY <3>1, <3>2, StoredRecord
  <2>4. CASE Sample(u)
    <3>1. /\ pc[u] = "sample" /\ pc'[u] = "check"
          /\ copy' = copy /\ store' = store /\ held' = held
      BY <2>1, <2>4 DEF Sample, Goto
    <3> QED
      BY <1>1, <1>2, <3>1
  <2>5. CASE Check(u)
    <3>1. pc[u] = "check" /\ copy' = copy /\ store' = store /\ held' = held
      BY <1>1, <2>5 DEF Check, Assign, local
    <3>2. pc'[u] = "commit" => Usable(u)
      BY <2>1, <2>5 DEF Check, Refuse, Goto
    <3> QED
      BY <1>1, <1>2, <3>1, <3>2 DEF Usable, View
  <2> QED
    BY <2>2, <2>3, <2>4, <2>5
<1> QED
  BY <1>3, <1>4, <1>5, <1>6 DEF Next

-----------------------------------------------------------------------------
(* The accepted uses. *)

NewUse(w) == [id |-> held[w], call |-> call[w]]

\* A grant, an expiry and an accepted use, as seen in the store.
Issues(id) == \E scope \in Scopes, f \in Requests, t \in Nat :
    /\ id \in Ids \ Stored
    /\ store' = [store EXCEPT ![id] = [scope |-> scope, fingerprint |-> f, expires |-> t,
                                       status |-> "active", useCount |-> 0]]

Lapses(w) == /\ held[w] \in Stored /\ View(w) \in Record
             /\ View(w).scope = store[held[w]].scope
             /\ store' = [store EXCEPT ![held[w]] = Lapsed(View(w))]

Accepts(w) == /\ held[w] \in Stored /\ View(w) \in Record
              /\ View(w).scope = store[held[w]].scope
              /\ store[held[w]].status = "active"
              /\ store' = [store EXCEPT ![held[w]] = Stamped(View(w))]
              /\ AcceptedUses' = AcceptedUses \union {NewUse(w)}

\* A step accepts one use of an open record, or it accepts none and issues a
\* record, lets one expire, or leaves the store alone.
LEMMA StepEffect ==
    ASSUME TypeOK, HeldInv, CopyInv, SessionInv, NEW w \in Workers, Step(w)
    PROVE  \/ Accepts(w)
           \/ /\ AcceptedUses' = AcceptedUses
              /\ UNCHANGED store \/ Lapses(w) \/ \E id \in Ids : Issues(id)
<1>1. pc \in [Workers -> PCs]
  BY DEF TypeOK
<1>2. ASSUME pc[w] # "commit", pc'[w] # "commit", uses' = uses
      PROVE  AcceptedUses' = AcceptedUses
  <2>1. Committing' = Committing
    BY <1>2, OthersUnchanged DEF Committing
  <2>2. \A u \in Committing : held'[u] = held[u] /\ call'[u] = call[u]
    BY <1>2, OthersUnchanged DEF Committing
  <2> QED
    BY <1>2, <2>1, <2>2 DEF AcceptedUses
<1>3. CASE Check(w)
  <2>1. /\ held[w] \in Stored /\ View(w) \in Record
        /\ View(w).scope = store[held[w]].scope
    BY <1>3, ViewRecord DEF Check
  <2>2. uses' = uses /\ held' = held /\ call' = call /\ pc[w] = "check"
    BY <1>3 DEF Check, local
  <2>3. CASE pc'[w] # "commit"
    <3>1. UNCHANGED store \/ Lapses(w)
      BY <1>1, <1>3, <2>1, <2>3 DEF Check, Assign, Goto, Lapses
    <3> QED
      BY <1>2, <2>2, <2>3, <3>1
  <2>4. CASE pc'[w] = "commit" /\ ~SharedRecords
    BY <1>3, <2>2, <2>4 DEF AcceptedUses, Committing, Check, Assign
  <2>5. CASE pc'[w] = "commit" /\ SharedRecords
    <3>1. Usable(w) /\ store' = [store EXCEPT ![held[w]] = Stamped(View(w))]
      BY <1>1, <1>3, <2>5 DEF Check, Assign, Refuse, Goto
    <3>2. View(w) = store[held[w]] /\ View(w).scope \in Scopes
      BY <2>1, <2>5 DEF View, Record
    <3>3. store[held[w]].status = "active"
      BY <2>1, <3>1, <3>2 DEF Usable, SessionInv, Scopes
    <3>4. Committing' = Committing \union {w}
      BY <2>2, <2>5, OthersUnchanged DEF Committing
    <3>5. AcceptedUses' = AcceptedUses \union {NewUse(w)}
      BY <2>2, <3>4 DEF AcceptedUses, NewUse
    <3> QED
      BY <2>1, <3>1, <3>3, <3>5 DEF Accepts
  <2> QED
    BY <2>3, <2>4, <2>5
<1>4. CASE Commit(w)
  <2>1. /\ held[w] \in Stored /\ View(w) \in Record
        /\ View(w).scope = store[held[w]].scope
    BY <1>4, ViewRecord DEF Commit
  <2>2. held' = held /\ call' = call /\ pc[w] = "commit" /\ pc'[w] # "commit"
    BY <1>1, <1>4 DEF Commit, Refuse, Goto, local
  <2>3. CASE SharedRecords
    <3>1. uses' = uses \union {NewUse(w)} /\ UNCHANGED store
      BY <1>4, <2>3 DEF Commit, UpdateMatches, Publish, NewUse
    <3>2. w \in Committing /\ Committing' = Committing \ {w}
      BY <2>2, <2>3, OthersUnchanged DEF Committing
    <3>3. AcceptedUses' = AcceptedUses
      BY <2>2, <3>1, <3>2 DEF AcceptedUses, NewUse
    <3> QED
      BY <3>1, <3>3
  <2>4. CASE ~SharedRecords
    <3>1. AcceptedUses = uses /\ AcceptedUses' = uses'
      BY <2>4 DEF AcceptedUses, Committing
    <3>2. CASE ~UpdateMatches(w)
      BY <1>4, <3>1, <3>2 DEF Commit
    <3>3. CASE UpdateMatches(w)
      <4>1. /\ store' = [store EXCEPT ![held[w]] = Stamped(copy[w])]
            /\ uses' = uses \union {NewUse(w)}
        BY <1>4, <2>4, <3>3 DEF Commit, Publish, NewUse
      <4>2. /\ copy[w].status \in {"active", "used"}
            /\ copy[w].scope = "once" => copy[w].status = "active"
        <5>1. pc[w] = "commit"
          BY <2>2
        <5> QED
          BY <2>4, <5>1 DEF CopyInv
      <4>3. View(w) = copy[w] /\ copy[w].scope \in Scopes
        BY <2>1, <2>4 DEF View, Record
      <4>4. store[held[w]].status = copy[w].status
        BY <2>4, <3>3 DEF UpdateMatches
      <4>5. store[held[w]].status = "active"
        BY <2>1, <4>2, <4>3, <4>4 DEF SessionInv, Scopes
      <4> QED
        BY <2>1, <3>1, <4>1, <4>3, <4>5 DEF Accepts
    <3> QED
      BY <3>2, <3>3
  <2> QED
    BY <2>3, <2>4
<1>5. CASE Crash(w)
  BY <1>5 DEF Crash, AcceptedUses, Committing
<1>6. CASE Expire(w)
  <2>1. /\ held[w] \in Stored /\ View(w) \in Record
        /\ View(w).scope = store[held[w]].scope
    BY <1>6, ViewRecord DEF Expire
  <2>2. UNCHANGED store \/ Lapses(w)
    BY <1>6, <2>1 DEF Expire, Publish, Lapses, View
  <2>3. pc[w] # "commit" /\ pc'[w] # "commit" /\ uses' = uses
    BY <1>1, <1>6 DEF Expire, Refuse, Goto
  <2> QED
    BY <1>2, <2>2, <2>3
<1>7. ASSUME NEW scope \in Scopes, Grant(w, scope)
      PROVE  AcceptedUses' = AcceptedUses /\ (UNCHANGED store \/ \E id \in Ids : Issues(id))
  <2>1. pc[w] # "commit" /\ pc'[w] # "commit" /\ uses' = uses
    BY <1>1, <1>7 DEF Grant, Refuse, Goto
  <2>2. req[w] \in Requests
    BY DEF TypeOK
  <2>3. now + Ttl(scope) \in Nat
    BY ClockIsNat, Bounds DEF Ttl
  <2>4. UNCHANGED store \/ \E id \in Ids : Issues(id)
    BY <1>7, <2>2, <2>3 DEF Grant, Issues
  <2> QED
    BY <1>2, <2>1, <2>4
<1>8. CASE ~(Check(w) \/ Commit(w) \/ Crash(w) \/ Expire(w) \/ \E scope \in Scopes : Grant(w, scope))
  <2>1. pc[w] # "commit" /\ pc'[w] # "commit" /\ uses' = uses /\ store' = store
    BY <1>1, <1>8
    DEF Step, Authorize, Present, Start, TryNext, Deny, EmitGranted, Lookup,
        Sample, EmitUsed, EmitExpired, Refuse, Goto
  <2> QED
    BY <1>2, <2>1
<1> QED
  BY <1>3, <1>4, <1>5, <1>6, <1>7, <1>8

LEMMA SessionPreserved ==
    ASSUME TypeOK, HeldInv, CopyInv, SessionInv, [Next]_vars
    PROVE  SessionInv'
<1>1. CASE UNCHANGED store
  BY <1>1 DEF SessionInv, Stored
<1>2. ASSUME NEW w \in Workers, Step(w), ~UNCHANGED store
      PROVE  SessionInv'
  <2>1. CASE Accepts(w)
    <3>1. View(w).scope = "session" => Stamped(View(w)).status # "used"
      BY <2>1, StampedRecord DEF Accepts
    <3>2. Stamped(View(w)).scope = View(w).scope
      BY <2>1, StampedRecord DEF Accepts
    <3> QED
      BY <2>1, <3>1, <3>2 DEF Accepts, SessionInv, Stored, TypeOK
  <2>2. CASE Lapses(w)
    <3>1. Lapsed(View(w)).status = "expired"
      BY <2>2, LapsedRecord DEF Lapses
    <3> QED
      BY <2>2, <3>1 DEF Lapses, SessionInv, Stored, TypeOK
  <2>3. ASSUME NEW id \in Ids, Issues(id)
        PROVE  SessionInv'
    <3>1. PICK scope \in Scopes, f \in Requests, t \in Nat :
              store' = [store EXCEPT ![id] = [scope |-> scope, fingerprint |-> f, expires |-> t,
                                              status |-> "active", useCount |-> 0]]
      BY <2>3 DEF Issues
    <3> DEFINE rec == [scope |-> scope, fingerprint |-> f, expires |-> t,
                       status |-> "active", useCount |-> 0]
    <3>. rec.status = "active"
      OBVIOUS
    <3> HIDE DEF rec
    <3>2. \A k \in Ids : store'[k] = IF k = id THEN rec ELSE store[k]
      BY <3>1 DEF TypeOK, rec
    <3> QED
      BY <3>2 DEF SessionInv, Stored
  <2> QED
    BY <1>2, <2>1, <2>2, <2>3, StepEffect
<1> QED
  BY <1>1, <1>2 DEF Next, Tick, vars

LEMMA SpentPreserved ==
    ASSUME TypeOK, HeldInv, CopyInv, SessionInv, SpentInv, SingleInv, [Next]_vars
    PROVE  SpentInv' /\ SingleInv'
<1>1. CASE UNCHANGED vars \/ Tick
  <2>1. AcceptedUses' = AcceptedUses /\ Stored' = Stored /\ store' = store
    BY <1>1 DEF vars, Tick, local, AcceptedUses, Committing, Stored
  <2> QED
    BY <2>1 DEF SpentInv, SingleInv
<1>2. ASSUME NEW w \in Workers, Step(w)
      PROVE  SpentInv' /\ SingleInv'
  <2>1. \A id \in Stored :
            /\ id \in Stored' /\ store'[id].scope = store[id].scope
            /\ store[id].scope = "once" /\ store[id].status # "active" =>
                   store'[id].status # "active"
    BY <1>2, StoreMonotone DEF Next
  <2>2. CASE AcceptedUses' = AcceptedUses
    BY <2>1, <2>2 DEF SpentInv, SingleInv
  <2>3. CASE Accepts(w)
    <3>1. /\ NewUse(w).id = held[w] /\ held[w] \in Stored
          /\ AcceptedUses' = AcceptedUses \union {NewUse(w)}
          /\ store[held[w]].status = "active"
      BY <2>3 DEF NewUse, Accepts
    <3>2. store[held[w]].scope = "once" => store'[held[w]].status = "used"
      BY <2>3, StampedRecord, StoredRecord DEF Accepts, TypeOK
    <3>3. SpentInv'
      BY <2>1, <3>1, <3>2 DEF SpentInv
    <3>4. store[held[w]].scope = "once" => \A u \in AcceptedUses : u.id # held[w]
      BY <3>1 DEF SpentInv
    <3>5. \A u \in AcceptedUses : u.id \in Stored
      BY DEF SpentInv
    <3>6. SingleInv'
      BY <2>1, <3>1, <3>4, <3>5 DEF SingleInv
    <3> QED
      BY <3>3, <3>6
  <2> QED
    BY <1>2, <2>2, <2>3, StepEffect
<1> QED
  BY <1>1, <1>2 DEF Next

-----------------------------------------------------------------------------
(* The theorems. *)

LEMMA InitInv == Init => IInv
<1> SUFFICES ASSUME Init PROVE IInv
  OBVIOUS
<1>1. TypeOK
  <2>0. now = 0 /\ calls = 0
    BY DEF Init
  <2>1. now \in 0..MaxTime /\ calls \in Serials /\ 0 \in Serials
    BY <2>0, Bounds DEF Serials
  <2>2. /\ store \in [Ids -> Record \union {NoRecord}]
        /\ copy \in [Workers -> Record \union {NoRecord}]
        /\ uses \subseteq [id : Ids, call : Serials]
    BY DEF Init
  <2>3. /\ pc \in [Workers -> PCs] /\ req \in [Workers -> Requests]
        /\ call \in [Workers -> Serials] /\ usedAt \in [Workers -> Nat]
        /\ todo \in [Workers -> SUBSET Ids] /\ held \in [Workers -> Ids \union {NoId}]
        /\ via \in [Workers -> {"matching", "granted", "direct"}]
    BY <2>1 DEF Init, PCs
  <2>4. reason = [w \in Workers |-> ""]
    BY DEF Init
  <2> QED
    BY <2>1, <2>2, <2>3, <2>4 DEF TypeOK
<1>2. HeldInv /\ CopyInv
  BY DEF Init, HeldInv, CopyInv, HoldsRecord
<1>3. AcceptedUses = {}
  BY DEF Init, AcceptedUses, Committing
<1>4. SessionInv
  BY DEF Init, SessionInv, Stored
<1> QED
  BY <1>1, <1>2, <1>3, <1>4 DEF IInv, SpentInv, SingleInv

\* The inductive invariant of ApprovalManager over both stores holds always: the types;
\* a worker past its lookup holds a stored record; a copy has its record's scope, and one
\* about to be published as used was read while the record was open; no session record is
\* used; an accepted use of a one-time record closes it and is its only one.
THEOREM InductiveInvariant == Spec => []IInv
<1>1. IInv /\ [Next]_vars => IInv'
  BY TypePreserved, HeldPreserved, CopyPreserved, SessionPreserved, SpentPreserved DEF IInv
<1> QED
  BY InitInv, <1>1, PTL DEF Spec

\* The program's variables keep their types in every execution.
THEOREM TypeCorrect == Spec => []TypeOK
<1>1. IInv => TypeOK
  BY DEF IInv
<1> QED
  BY <1>1, InductiveInvariant, PTL

\* "One-time approvals are consumed once", by any number of concurrent and
\* crashing workers and with either store (consume and the stores' update).
THEOREM OneTimeApprovalsAreConsumedOnce == Spec => []OnceConsumedOnce
<1>1. IInv => OnceConsumedOnce
  BY DEF IInv, SingleInv, OnceConsumedOnce, AcceptedUses
<1> QED
  BY <1>1, InductiveInvariant, PTL

\* How each effect changes the status of the records.
LEMMA StatusStep ==
    ASSUME TypeOK, NEW w \in Workers
    PROVE  /\ Accepts(w) =>
                /\ Stored' = Stored
                /\ \A id \in Stored :
                      IF id = held[w]
                      THEN store[id].status = "active" /\ store'[id].scope = store[id].scope
                           /\ (store[id].scope = "once" => store'[id].status = "used")
                           /\ (store[id].scope = "session" => store'[id].status = "active")
                      ELSE store'[id] = store[id]
           /\ Lapses(w) =>
                /\ Stored' = Stored
                /\ \A id \in Stored :
                      IF id = held[w] THEN store'[id].status = "expired"
                                      ELSE store'[id] = store[id]
<1>1. Stored \subseteq Ids /\ store \in [Ids -> Record \union {NoRecord}]
  BY DEF Stored, TypeOK
<1>2. ASSUME Accepts(w)
      PROVE  /\ Stored' = Stored
             /\ \A id \in Stored :
                   IF id = held[w]
                   THEN store[id].status = "active" /\ store'[id].scope = store[id].scope
                        /\ (store[id].scope = "once" => store'[id].status = "used")
                        /\ (store[id].scope = "session" => store'[id].status = "active")
                   ELSE store'[id] = store[id]
  <2>1. /\ Stamped(View(w)) \in Record /\ Stamped(View(w)).scope = View(w).scope
        /\ View(w).scope = "once" => Stamped(View(w)).status = "used"
        /\ View(w).scope = "session" => Stamped(View(w)).status = "active"
    BY <1>2, StampedRecord DEF Accepts
  <2>2. \A id \in Ids : store'[id] = IF id = held[w] THEN Stamped(View(w)) ELSE store[id]
    BY <1>1, <1>2 DEF Accepts
  <2>3. Stored' = Stored
    BY <1>2, <2>1, <2>2, NoRecordIsNone DEF Accepts, Stored
  <2> QED
    BY <1>1, <1>2, <2>1, <2>2, <2>3 DEF Accepts
<1>3. ASSUME Lapses(w)
      PROVE  /\ Stored' = Stored
             /\ \A id \in Stored :
                   IF id = held[w] THEN store'[id].status = "expired"
                                   ELSE store'[id] = store[id]
  <2>1. Lapsed(View(w)) \in Record /\ Lapsed(View(w)).status = "expired"
    BY <1>3, LapsedRecord DEF Lapses
  <2>2. \A id \in Ids : store'[id] = IF id = held[w] THEN Lapsed(View(w)) ELSE store[id]
    BY <1>1, <1>3 DEF Lapses
  <2>3. Stored' = Stored
    BY <1>3, <2>1, <2>2, NoRecordIsNone DEF Lapses, Stored
  <2> QED
    BY <1>1, <1>3, <2>1, <2>2, <2>3
<1> QED
  BY <1>2, <1>3

LEMMA IssueStep ==
    ASSUME TypeOK, NEW new \in Ids, Issues(new)
    PROVE  /\ new \notin Stored /\ Stored' = Stored \union {new}
           /\ store'[new].scope \in Scopes /\ store'[new].status = "active"
           /\ \A id \in Stored : store'[id] = store[id]
<1>1. PICK scope \in Scopes, f \in Requests, t \in Nat :
          /\ new \in Ids \ Stored
          /\ store' = [store EXCEPT ![new] = [scope |-> scope, fingerprint |-> f, expires |-> t,
                                              status |-> "active", useCount |-> 0]]
  BY DEF Issues
<1> DEFINE rec == [scope |-> scope, fingerprint |-> f, expires |-> t,
                   status |-> "active", useCount |-> 0]
<1>2. rec \in Record /\ rec.scope = scope /\ rec.status = "active"
  BY DEF Record, Scopes, Statuses
<1>3. new \in Ids \ Stored /\ store' = [store EXCEPT ![new] = rec]
  BY <1>1
<1> HIDE DEF rec
<1>4. \A id \in Ids : store'[id] = IF id = new THEN rec ELSE store[id]
  BY <1>3 DEF TypeOK
<1> QED
  BY <1>2, <1>3, <1>4, NoRecordIsNone DEF Stored

\* A status written by consume never becomes usable again, whatever another
\* worker validated before it was written.
THEOREM StatusesAreFinal == Spec => NeverRevived
<1>1. ASSUME IInv, [Next]_vars, NEW id \in Stored
      PROVE  /\ store[id].status = "expired" => store'[id].status = "expired"
             /\ store[id].status = "used" => store'[id].status \in {"used", "expired"}
  <2>1. CASE UNCHANGED store
    BY <2>1
  <2>2. ASSUME NEW w \in Workers, Accepts(w) \/ Lapses(w)
        PROVE  /\ store[id].status = "expired" => store'[id].status = "expired"
               /\ store[id].status = "used" => store'[id].status \in {"used", "expired"}
    BY <1>1, <2>2, StatusStep DEF IInv
  <2>3. ASSUME NEW new \in Ids, Issues(new)
        PROVE  store'[id] = store[id]
    BY <1>1, <2>3, IssueStep DEF IInv
  <2> QED
    BY <1>1, <2>1, <2>2, <2>3, StepEffect DEF IInv, Next, Tick, vars
<1>2. IInv /\ [Next]_vars =>
          [\A id \in Stored :
             /\ store[id].status = "expired" => store'[id].status = "expired"
             /\ store[id].status = "used" => store'[id].status \in {"used", "expired"}]_vars
  BY <1>1
<1> QED
  BY <1>2, InductiveInvariant, PTL DEF Spec, NeverRevived

-----------------------------------------------------------------------------
(* Refinement. *)

Granted == [id \in Ids |-> GrantOf(id)]

LEMMA AuthorityStep ==
    ASSUME IInv, NEW w \in Workers, Step(w)
    PROVE  Authority!Next \/ UNCHANGED <<Granted, AcceptedUses>>
<1>1. /\ TypeOK /\ Stored \subseteq Ids
      /\ \A id \in Stored : store[id] \in Record /\ store[id].scope \in {"once", "session"}
  BY StoredRecord DEF IInv, Stored, Record, Scopes
<1>2. CASE UNCHANGED store /\ AcceptedUses' = AcceptedUses
  BY <1>2 DEF Granted, GrantOf, Stored
<1>3. CASE Accepts(w)
  <2>0. PICK h \in Ids : h = held[w]
    BY <1>1, <1>3 DEF Accepts
  <2>1. /\ h \in Stored /\ store[h].status = "active"
        /\ AcceptedUses' = AcceptedUses \union {NewUse(w)}
    BY <2>0, <1>3 DEF Accepts
  <2>2. call[w] \in Serials
    BY <1>1 DEF TypeOK
  <2>3. GrantOf(h) = store[h].scope
    BY <2>1 DEF GrantOf
  <2>4. GrantOf(h)' = IF store[h].scope = "once" THEN "closed" ELSE store[h].scope
    BY <2>0, <1>1, <1>3, <2>1, StatusStep DEF GrantOf
  <2>5. \A id \in Ids : id # h => GrantOf(id)' = GrantOf(id)
    BY <2>0, <1>1, <1>3, StatusStep DEF GrantOf
  <2>6. Granted' = [Granted EXCEPT ![h] = IF @ = "once" THEN "closed" ELSE @]
    BY <1>1, <2>1, <2>3, <2>4, <2>5 DEF Granted
  <2>7. Authority!Accept(h, call[w])
    BY <2>0, <1>1, <2>1, <2>3, <2>6 DEF Authority!Accept, Granted, NewUse
  <2> QED
    BY <1>1, <2>1, <2>2, <2>7 DEF Authority!Next
<1>4. CASE Lapses(w) /\ AcceptedUses' = AcceptedUses
  <2>0. PICK h \in Ids : h = held[w]
    BY <1>1, <1>4 DEF Lapses
  <2>1. h \in Stored /\ h \in Stored' /\ store'[h].status = "expired"
    <3>1. h \in Stored
      BY <2>0, <1>4 DEF Lapses
    <3> QED
      BY <2>0, <3>1, <1>1, <1>4, StatusStep
  <2>2. GrantOf(h)' = "closed"
    BY <2>1 DEF GrantOf
  <2>3. \A id \in Ids : id # h => GrantOf(id)' = GrantOf(id)
    BY <2>0, <1>1, <1>4, StatusStep DEF GrantOf
  <2>4. Granted' = [Granted EXCEPT ![h] = "closed"]
    BY <1>1, <2>1, <2>2, <2>3 DEF Granted
  <2>5. CASE GrantOf(h) = "closed"
    BY <1>1, <1>4, <2>1, <2>4, <2>5 DEF Granted
  <2>6. CASE GrantOf(h) # "closed"
    <3>1. GrantOf(h) \in {"once", "session"}
      BY <1>1, <2>1, <2>6 DEF GrantOf
    <3>2. Authority!Close(h)
      BY <1>1, <1>4, <2>1, <2>4, <3>1 DEF Authority!Close, Granted
    <3> QED
      BY <1>1, <2>1, <3>2 DEF Authority!Next
  <2> QED
    BY <2>5, <2>6
<1>5. ASSUME NEW new \in Ids, Issues(new), AcceptedUses' = AcceptedUses
      PROVE  Authority!Next
  <2>1. /\ new \notin Stored /\ Stored' = Stored \union {new}
        /\ store'[new].scope \in Scopes /\ store'[new].status = "active"
        /\ \A id \in Stored : store'[id] = store[id]
    BY <1>1, <1>5, IssueStep
  <2>2. GrantOf(new) = "none" /\ GrantOf(new)' = store'[new].scope
    BY <2>1 DEF GrantOf
  <2>3. \A id \in Ids : id # new => GrantOf(id)' = GrantOf(id)
    BY <2>1 DEF GrantOf
  <2>4. Granted' = [Granted EXCEPT ![new] = store'[new].scope]
    BY <2>2, <2>3 DEF Granted
  <2>5. Authority!Issue(new)
    BY <1>5, <2>1, <2>2, <2>4 DEF Authority!Issue, Granted, Scopes
  <2> QED
    BY <2>5 DEF Authority!Next
<1> QED
  BY <1>2, <1>3, <1>4, <1>5, StepEffect DEF IInv

\* The approval managers, over either store, implement the one-step authority:
\* grant, consume and expiry take effect atomically, whatever interleaves.
THEOREM RefinesAuthority == Spec => ImplementsAuthority
<1>1. Init => Authority!Init
  <2> SUFFICES ASSUME Init PROVE Authority!Init
    OBVIOUS
  <2>1. AcceptedUses = {}
    BY DEF Init, AcceptedUses, Committing
  <2>2. \A id \in Ids : GrantOf(id) = "none"
    BY DEF Init, GrantOf, Stored
  <2> QED
    BY <2>1, <2>2 DEF Authority!Init
<1>2. IInv /\ [Next]_vars => [Authority!Next]_(Authority!vars)
  <2> SUFFICES ASSUME IInv, [Next]_vars
               PROVE  Authority!Next \/ UNCHANGED <<Granted, AcceptedUses>>
    BY DEF Authority!vars, Granted
  <2>1. CASE UNCHANGED vars \/ Tick
    BY <2>1 DEF vars, Tick, local, Granted, GrantOf, Stored, AcceptedUses, Committing
  <2> QED
    BY <2>1, AuthorityStep DEF Next
<1> QED
  BY <1>1, <1>2, InductiveInvariant, PTL DEF Spec, ImplementsAuthority, Authority!Spec
=============================================================================
