-------------------------- MODULE ApprovalAuthority --------------------------
(***************************************************************************)
(* What an approval store promises, whatever its representation and        *)
(* however many threads and processes share it: a grant is issued once, a  *)
(* one-time grant is closed by its first use, and nothing uses a closed    *)
(* grant.  Approvals is shown to implement this specification.             *)
(***************************************************************************)
EXTENDS Naturals

CONSTANTS Ids,     \* approval identifiers
          Calls    \* serial numbers of the authorisation calls

VARIABLES grant,   \* per identifier: "none", an open grant's scope, or "closed"
          uses     \* the accepted uses: which call used which approval

vars == <<grant, uses>>

Use == [id : Ids, call : Calls]

Init == /\ grant = [id \in Ids |-> "none"]
        /\ uses = {}

\* An approval is issued under an identifier that was never used before.
Issue(id) ==
    /\ grant[id] = "none"
    /\ \E scope \in {"once", "session"} : grant' = [grant EXCEPT ![id] = scope]
    /\ UNCHANGED uses

\* A call is allowed by an open grant; a one-time grant is closed by it.
Accept(id, call) ==
    /\ grant[id] \in {"once", "session"}
    /\ uses' = uses \union {[id |-> id, call |-> call]}
    /\ grant' = [grant EXCEPT ![id] = IF @ = "once" THEN "closed" ELSE @]

\* An open grant reaches its expiry.
Close(id) ==
    /\ grant[id] \in {"once", "session"}
    /\ grant' = [grant EXCEPT ![id] = "closed"]
    /\ UNCHANGED uses

Next == \E id \in Ids :
            \/ Issue(id)
            \/ Close(id)
            \/ \E call \in Calls : Accept(id, call)

Spec == Init /\ [][Next]_vars
=============================================================================
