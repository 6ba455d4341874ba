------------------------------ MODULE Approvals ------------------------------
(***************************************************************************)
(* loro/approvals.py and its caller ToolRuntime._authorize: identity-bound *)
(* approval records, their compare-and-set store, and the threads and      *)
(* processes that grant and consume them concurrently.                     *)
(*                                                                         *)
(* A worker is one thread of one process, with an ApprovalManager over the *)
(* store they share.  A request stands for its fingerprint, which already  *)
(* binds the identity, the tenant, the session, the action, the target,    *)
(* the arguments and the policy.  SharedRecords tells the stores apart:    *)
(* JsonApprovalStore hands out copies and compares on update, whereas      *)
(* InMemoryApprovalStore hands out the stored object itself.  A step is    *)
(* what runs between two points where another thread can be scheduled: the *)
(* store methods hold the store's lock, and consume calls nothing between  *)
(* its status checks (line 474) and its last assignment (line 482), so no  *)
(* thread switch happens inside that block of a GIL build.                 *)
(***************************************************************************)
EXTENDS Integers, FiniteSets

CONSTANTS
    Workers,        \* threads and processes that authorise tool calls
    Ids,            \* approval identifiers (uuid4)
    NoId,           \* not an identifier
    Requests,       \* request fingerprints
    SharedRecords,  \* TRUE: InMemoryApprovalStore, FALSE: JsonApprovalStore
    AllowSession,   \* config.allow_session_scope
    FailClosed,     \* the audit event handler may raise
    OnceTtl,        \* config.once_ttl_seconds
    SessionTtl,     \* config.session_ttl_seconds
    MaxTime,        \* bound on the clock
    MaxCalls        \* bound on the number of authorisation calls

ASSUME ConstantsAssumption ==
    /\ SharedRecords \in BOOLEAN /\ AllowSession \in BOOLEAN /\ FailClosed \in BOOLEAN
    /\ OnceTtl \in Nat \ {0} /\ SessionTtl \in Nat \ {0}
    /\ MaxTime \in Nat /\ MaxCalls \in Nat
    /\ NoId \notin Ids

\* Serial numbers of calls.
Serials == 0..MaxCalls

NoRecord == [scope |-> "none"]

Scopes   == {"once", "session"}
Statuses == {"active", "used", "expired"}
Record   == [scope : Scopes, fingerprint : Requests, expires : Nat,
             status : Statuses, useCount : Nat]

\* Where a worker stands in ToolRuntime._authorize and ApprovalManager.consume.
PCs == {"idle", "matching", "ask", "granted", "lookup", "sample", "check",
        "commit", "used", "expire", "lapsed", "authorised", "refused"}

VARIABLES
    store,     \* the shared records
    now,       \* wall clock
    calls,     \* calls started so far
    pc,
    call,      \* serial number of the worker's current call
    req,       \* the call's request
    via,       \* who called consume: "matching", "granted" or "direct"
    todo,      \* session records consume_matching_session has still to try
    held,      \* the record being consumed
    copy,      \* what store.get returned for it
    usedAt,    \* used_at
    reason,    \* the exception that refused the call, "" for none
    uses       \* history: the consumptions that succeeded

local == <<call, req, via, todo, held, copy, usedAt>>
vars  == <<store, now, calls, pc, local, reason, uses>>

Init ==
    /\ store  = [id \in Ids |-> NoRecord]
    /\ now    = 0
    /\ calls  = 0
    /\ pc     = [w \in Workers |-> "idle"]
    /\ call   = [w \in Workers |-> 0]
    /\ req    \in [Workers -> Requests]
    /\ via    = [w \in Workers |-> "direct"]
    /\ todo   = [w \in Workers |-> {}]
    /\ held   = [w \in Workers |-> NoId]
    /\ copy   = [w \in Workers |-> NoRecord]
    /\ usedAt = [w \in Workers |-> 0]
    /\ reason = [w \in Workers |-> ""]
    /\ uses   = {}

-----------------------------------------------------------------------------
(* The records and the store. *)

Stored == {id \in Ids : store[id] # NoRecord}

\* The record a worker's variable `record` denotes: the stored object, or a copy.
View(w) == IF SharedRecords THEN store[held[w]] ELSE copy[w]

\* Faulty variants, which the runs must tell from the code: a one-time record
\* stays active; an expiry writes a status the schema does not know.
AfterUseActive(rec)  == IF rec.scope = "once" THEN "active" ELSE rec.status
LapsedUnknown(rec)   == [rec EXCEPT !.status = "lapsed"]

\* What consume assigns to a record it accepts, and to one it finds expired.
AfterUse(rec) == IF rec.scope = "once" THEN "used" ELSE "active"
Stamped(rec) == [rec EXCEPT !.useCount = @ + 1, !.status = AfterUse(rec)]
Lapsed(rec)  == [rec EXCEPT !.status = "expired"]

\* Faulty variants of the comparison: none at all, each half alone, and without
\* the exemption of a record that is the stored object.
MatchesAlways(w) == held[w] \in Stored
MatchesStatus(w) == SharedRecords \/ store[held[w]].status = copy[w].status
MatchesCount(w)  == SharedRecords \/ store[held[w]].useCount = copy[w].useCount
MatchesCopy(w)   == /\ store[held[w]].status = copy[w].status
                    /\ store[held[w]].useCount = copy[w].useCount

\* store.update compares the stored status and count with the ones consume saw.
\* A shared record is the object consume has already assigned: nothing to compare.
UpdateMatches(w) ==
    \/ SharedRecords
    \/ /\ store[held[w]].status = copy[w].status
       /\ store[held[w]].useCount = copy[w].useCount

\* consume assigns the fields of its record: seen by all when it is shared ...
Assign(w, rec) ==
    IF SharedRecords THEN store' = [store EXCEPT ![held[w]] = rec]
                     ELSE UNCHANGED store

\* ... and store.update publishes them when it is a copy.
Publish(w, rec) ==
    IF SharedRecords THEN UNCHANGED store
                     ELSE store' = [store EXCEPT ![held[w]] = rec]

-----------------------------------------------------------------------------
(* ToolRuntime._authorize. *)

Goto(w, label) == pc' = [pc EXCEPT ![w] = label]

Refuse(w, error) ==
    /\ Goto(w, "refused")
    /\ reason' = [reason EXCEPT ![w] = error]

Start(w, r) ==
    /\ pc[w] \in {"idle", "authorised", "refused"}
    /\ calls < MaxCalls
    /\ calls' = calls + 1
    /\ call' = [call EXCEPT ![w] = calls]
    /\ req' = [req EXCEPT ![w] = r]
    /\ reason' = [reason EXCEPT ![w] = ""]

\* An ask decision makes a request; consume_matching_session lists the store.
Authorize(w, r) ==
    /\ Start(w, r)
    /\ Goto(w, "matching")
    /\ via' = [via EXCEPT ![w] = "matching"]
    /\ todo' = [todo EXCEPT ![w] =
                   {id \in Stored : /\ store[id].scope = "session"
                                    /\ store[id].fingerprint = r}]
    /\ UNCHANGED <<store, now, held, copy, usedAt, uses>>

\* A caller presents an identifier it holds, whatever request it was granted for.
Present(w, r, id) ==
    /\ Start(w, r)
    /\ Goto(w, "lookup")
    /\ via' = [via EXCEPT ![w] = "direct"]
    /\ held' = [held EXCEPT ![w] = id]
    /\ UNCHANGED <<store, now, todo, copy, usedAt, uses>>

\* The loop of consume_matching_session, in the store's order of identifiers.
TryNext(w) ==
    /\ pc[w] = "matching"
    /\ \/ /\ todo[w] = {}
          /\ Goto(w, "ask")
          /\ UNCHANGED <<todo, held>>
       \/ \E id \in todo[w] :
             /\ Goto(w, "lookup")
             /\ todo' = [todo EXCEPT ![w] = @ \ {id}]
             /\ held' = [held EXCEPT ![w] = id]
    /\ UNCHANGED <<store, now, calls, call, req, via, copy, usedAt, reason, uses>>

\* The trusted provider, or the user's approved flag, gives no scope.
Deny(w) ==
    /\ pc[w] = "ask"
    /\ Refuse(w, "denied")
    /\ UNCHANGED <<store, now, calls, local, uses>>

\* The lifetime of a grant.
Ttl(scope) == IF scope = "session" THEN SessionTtl ELSE OnceTtl

\* ApprovalManager.grant: the record is stored before the event is emitted.
Grant(w, scope) ==
    /\ pc[w] = "ask"
    /\ IF scope = "session" /\ ~AllowSession
       THEN /\ Refuse(w, "disabled")
            /\ UNCHANGED <<store, held, via>>
       ELSE \E id \in Ids \ Stored :
               /\ store' = [store EXCEPT ![id] =
                      [scope |-> scope, fingerprint |-> req[w],
                       expires |-> now + Ttl(scope),
                       status |-> "active", useCount |-> 0]]
               /\ held' = [held EXCEPT ![w] = id]
               /\ via' = [via EXCEPT ![w] = "granted"]
               /\ Goto(w, "granted")
               /\ UNCHANGED reason
    /\ UNCHANGED <<now, calls, call, req, todo, copy, usedAt, uses>>

\* _emit("approval.granted"), then consume. A failing handler abandons the record.
EmitGranted(w) ==
    /\ pc[w] = "granted"
    /\ \/ Goto(w, "lookup") /\ UNCHANGED reason
       \/ FailClosed /\ Refuse(w, "audit")
    /\ UNCHANGED <<store, now, calls, local, uses>>

-----------------------------------------------------------------------------
(* ApprovalManager.consume. *)

Lookup(w) ==
    /\ pc[w] = "lookup"
    /\ copy' = [copy EXCEPT ![w] = store[held[w]]]
    /\ IF held[w] \in Stored THEN Goto(w, "sample") /\ UNCHANGED reason
                             ELSE Refuse(w, "unknown")
    /\ UNCHANGED <<store, now, calls, call, req, via, todo, held, usedAt, uses>>

Sample(w) ==
    /\ pc[w] = "sample"
    /\ usedAt' = [usedAt EXCEPT ![w] = now]
    /\ Goto(w, "check")
    /\ UNCHANGED <<store, now, calls, call, req, via, todo, held, copy, reason, uses>>

\* Faulty variants: the fingerprint, or the status of a session record, unchecked.
UsableForAny(w)  == View(w).status = "active"
UsableExpired(w) == /\ View(w).fingerprint = req[w]
                    /\ View(w).scope = "once" => View(w).status = "active"

\* The record is for this request, open, and has a use left.
Usable(w) ==
    /\ View(w).fingerprint = req[w]
    /\ View(w).scope = "once" => View(w).status = "active"
    /\ View(w).status \in {"active", "used"}

Check(w) ==
    /\ pc[w] = "check"
    /\ \/ /\ usedAt[w] >= View(w).expires
          /\ Assign(w, Lapsed(View(w)))
          /\ Goto(w, "expire")
          /\ UNCHANGED reason
       \/ /\ usedAt[w] < View(w).expires
          /\ Usable(w)
          /\ Assign(w, Stamped(View(w)))
          /\ Goto(w, "commit")
          /\ UNCHANGED reason
       \/ /\ usedAt[w] < View(w).expires
          /\ ~Usable(w)
          /\ Refuse(w, IF View(w).fingerprint # req[w] THEN "mismatch" ELSE "replay")
          /\ UNCHANGED store
    /\ UNCHANGED <<now, calls, local, uses>>

\* store.update of an accepted record.
Commit(w) ==
    /\ pc[w] = "commit"
    /\ IF UpdateMatches(w)
       THEN /\ Publish(w, Stamped(copy[w]))
            /\ uses' = uses \union {[id |-> held[w], call |-> call[w]]}
            /\ Goto(w, "used")
            /\ UNCHANGED reason
       ELSE /\ Refuse(w, "changed")
            /\ UNCHANGED <<store, uses>>
    /\ UNCHANGED <<now, calls, local>>

\* _emit("approval.used"): if the handler fails, the use is spent for nothing.
EmitUsed(w) ==
    /\ pc[w] = "used"
    /\ \/ Goto(w, "authorised") /\ UNCHANGED reason
       \/ FailClosed /\ Refuse(w, "audit")
    /\ UNCHANGED <<store, now, calls, local, uses>>

\* store.update of an expired record.
Expire(w) ==
    /\ pc[w] = "expire"
    /\ IF UpdateMatches(w)
       THEN /\ Publish(w, Lapsed(copy[w]))
            /\ Goto(w, "lapsed")
            /\ UNCHANGED reason
       ELSE /\ Refuse(w, "changed")
            /\ UNCHANGED store
    /\ UNCHANGED <<now, calls, local, uses>>

\* _emit("approval.expired"), then ApprovalExpiredError, which only the loop of
\* consume_matching_session catches.
EmitExpired(w) ==
    /\ pc[w] = "lapsed"
    /\ \/ IF via[w] = "matching"
          THEN Goto(w, "matching") /\ UNCHANGED reason
          ELSE Refuse(w, "expired")
       \/ FailClosed /\ Refuse(w, "audit")
    /\ UNCHANGED <<store, now, calls, local, uses>>

-----------------------------------------------------------------------------
\* A process dies; the records of the JSON store survive it.
Crash(w) ==
    /\ ~SharedRecords
    /\ pc[w] \notin {"idle", "authorised", "refused"}
    /\ Goto(w, "idle")
    /\ UNCHANGED <<store, now, calls, local, reason, uses>>

Tick == /\ now < MaxTime
        /\ now' = now + 1
        /\ UNCHANGED <<store, calls, pc, local, reason, uses>>

Step(w) ==
    \/ \E r \in Requests : Authorize(w, r) \/ (\E id \in Ids : Present(w, r, id))
    \/ TryNext(w)
    \/ Deny(w)
    \/ \E scope \in Scopes : Grant(w, scope)
    \/ EmitGranted(w)
    \/ Lookup(w)
    \/ Sample(w)
    \/ Check(w)
    \/ Commit(w)
    \/ EmitUsed(w)
    \/ Expire(w)
    \/ EmitExpired(w)
    \/ Crash(w)

Next == Tick \/ \E w \in Workers : Step(w)

Spec == Init /\ [][Next]_vars

-----------------------------------------------------------------------------
(* Properties. *)

\* Every variable stays in its set, and no two calls share a serial number.
TypeOK ==
    /\ store \in [Ids -> Record \union {NoRecord}]
    /\ now \in 0..MaxTime /\ calls \in Serials
    /\ pc \in [Workers -> PCs]
    /\ call \in [Workers -> Serials]
    /\ req \in [Workers -> Requests]
    /\ via \in [Workers -> {"matching", "granted", "direct"}]
    /\ todo \in [Workers -> SUBSET Ids]
    /\ held \in [Workers -> Ids \union {NoId}]
    /\ copy \in [Workers -> Record \union {NoRecord}]
    /\ usedAt \in [Workers -> Nat]
    /\ reason \in [Workers -> {"", "denied", "disabled", "unknown", "mismatch",
                               "replay", "expired", "changed", "audit"}]
    /\ uses \subseteq [id : Ids, call : Serials]

\* "One-time approvals are consumed once": however the calls of all the workers
\* interleave and crash, at most one of them ever succeeds with a one-time
\* approval (consume and the store's compare-and-set).
OnceConsumedOnce ==
    \A u, v \in uses :
        u.id = v.id /\ store[u.id].scope = "once" => u = v

\* No successful use is lost from the count, and none is counted that did not
\* succeed or is not about to: the read-modify-write of use_count in consume.
UseCountExact ==
    \A id \in Stored :
        store[id].useCount =
            Cardinality({u \in uses : u.id = id})
          + (IF SharedRecords
             THEN Cardinality({w \in Workers : pc[w] = "commit" /\ held[w] = id})
             ELSE 0)

\* A record never becomes usable again: an expiry that one worker records stands
\* against a use another one validated before it (status written by consume).
NeverRevived ==
    [][\A id \in Stored :
          /\ store[id].status = "expired" => store'[id].status = "expired"
          /\ store[id].status = "used" => store'[id].status \in {"used", "expired"}]_vars

\* A use is accepted only for the request, tenant and session the record was
\* granted to, even when the identifier is presented by another call.
Accepted(w) == pc[w] \in {"used", "authorised"}
BoundToRequest ==
    \A w \in Workers :
        Accepted(w) => /\ held[w] \in Stored
                       /\ store[held[w]].fingerprint = req[w]
                       /\ usedAt[w] < store[held[w]].expires

\* "Exact session approvals can be reused until expiry": a call that matches a
\* session approval which is still active is not refused because another call
\* uses the same approval (consume_matching_session catches expiry only).
SessionReusable ==
    \A w \in Workers :
        pc[w] = "refused" /\ reason[w] = "changed" /\ via[w] = "matching" =>
            ~ /\ store[held[w]].scope = "session"
              /\ store[held[w]].status = "active"
              /\ now < store[held[w]].expires

-----------------------------------------------------------------------------
(* Refinement: a worker whose record is shared has used it once it assigned it. *)

Committing == {w \in Workers : SharedRecords /\ pc[w] = "commit"}

AcceptedUses == uses \union {[id |-> held[w], call |-> call[w]] : w \in Committing}

GrantOf(id) ==
    IF id \notin Stored THEN "none"
    ELSE IF store[id].status = "active" THEN store[id].scope
    ELSE "closed"

Authority == INSTANCE ApprovalAuthority WITH
    Calls <- Serials, grant <- [id \in Ids |-> GrantOf(id)], uses <- AcceptedUses

\* Both stores keep the promise of ApprovalAuthority: every step of a manager
\* issues, accepts or closes a grant as a single atomic step would, or stutters.
ImplementsAuthority == Authority!Spec
=============================================================================
