----------------------------- MODULE WebAccess -----------------------------
(***************************************************************************)
(* Who may do what in the web interface: the sign-ins and sessions of      *)
(* loro/webui/auth.py, the roles of rbac.py, the middleware of server.py   *)
(* and the handler that changes the access rules.                          *)
(*                                                                         *)
(* A request is authorised by the middleware and handled after its body    *)
(* was read, so other requests run in between; a sign-in leaves the event  *)
(* loop while it asks the identity provider, which is not modelled.        *)
(***************************************************************************)
EXTENDS Integers, Sequences, FiniteSets, SequencesExt

CONSTANTS
    Subjects,       \* people the identity provider knows
    GroupOf,        \* subject -> the group its claims carry
    RuleChoices,    \* the access rules an administrator may send
    MaxSessions,    \* MAX_SESSIONS
    MaxPending,     \* MAX_PENDING_LOGINS
    LoginTTL,       \* LOGIN_TTL_SECONDS
    SessionTTL,     \* web_session_seconds
    MaxSeconds,     \* bound on the clock
    MaxLogins       \* bound on the sign-ins begun

Roles == {"viewer", "operator", "approver", "admin"}

ASSUME WebAccessAssumption ==
    /\ MaxSessions \in Nat \ {0} /\ MaxPending \in Nat \ {0}
    /\ LoginTTL \in Nat /\ SessionTTL \in Nat \ {0}
    /\ MaxSeconds \in Nat /\ MaxLogins \in Nat
    /\ \A rules \in RuleChoices :
           /\ rules.admins \subseteq Subjects
           /\ rules.mappings \in [Range(GroupOf) -> Roles \union {"none"}]
           /\ rules.default \in Roles \union {"none"}

Logins    == 1..MaxLogins
Callbacks == Logins \X {1, 2}      \* the browser may send a callback twice

VARIABLES
    rules,       \* the rbac section of the configuration
    seconds,
    begun,       \* sign-ins begun
    pending,     \* _pending: the sign-ins under way, numbered as they were begun
    callback,    \* callback -> none, exchanging, in or refused
    sessions,    \* sessions, oldest first
    request      \* subject -> the request the middleware let through: none, the
                 \* rules it changes the configuration to, or another one

signIns == <<begun, pending, callback>>
webAccessVars == <<rules, seconds, signIns, sessions, request>>

Request(kind, update) == [kind |-> kind, update |-> update]

NoRequest == Request("none", {})

---------------------------------------------------------------------------
(* rbac.py.                                                                *)

Permissions(role) ==
    CASE role = "viewer"   -> {"read"}
      [] role = "operator" -> {"read", "operate"}
      [] role = "approver" -> {"read", "approve"}
      [] role = "admin"    -> {"read", "operate", "approve", "admin"}

\* Roles of the claims, of the admins' list, or else the default.
RolesFor(s, access) ==
    LET found == ({access.mappings[GroupOf[s]]}
                  \union (IF s \in access.admins THEN {"admin"} ELSE {})) \ {"none"} IN
    IF found = {} THEN {access.default} \ {"none"} ELSE found

PermissionsFor(s, access) == UNION {Permissions(role) : role \in RolesFor(s, access)}

IsAdmin(s, access) == "admin" \in RolesFor(s, access)

---------------------------------------------------------------------------
WebAccessInit ==
    /\ rules \in {access \in RuleChoices : \E s \in Subjects : IsAdmin(s, access)}
    /\ seconds = 0
    /\ begun = 0
    /\ pending = {}
    /\ callback = [c \in Callbacks |-> "none"]
    /\ sessions = <<>>
    /\ request = [s \in Subjects |-> NoRequest]

SecondPasses ==
    /\ seconds < MaxSeconds
    /\ seconds' = seconds + 1
    /\ UNCHANGED <<rules, signIns, sessions, request>>

InTime(p) == seconds - p.at <= LoginTTL

\* begin_login: what is too old goes first, then the oldest until one more fits.
BeginLogin ==
    /\ begun < MaxLogins
    /\ begun' = begun + 1
    /\ LET fresh    == {p \in pending : InTime(p)}
           newer(p) == {q \in fresh : q.login > p.login} IN
       pending' = {p \in fresh : Cardinality(newer(p)) < MaxPending - 1}
                  \union {[login |-> begun + 1, at |-> seconds]}
    /\ UNCHANGED <<rules, seconds, callback, sessions, request>>

\* The pending sign-in of a callback that is still in time.
Awaited(c) == \E p \in pending : p.login = c[1] /\ InTime(p)

\* Faulty variant: the sign-in stays pending.
KeepLogin(c) == UNCHANGED pending

TakeLogin(c) == pending' = {p \in pending : p.login # c[1]}

\* complete_login up to the exchange: whatever it finds is taken.
ReceiveCallback(c) ==
    /\ callback[c] = "none" /\ c[1] <= begun
    /\ callback' = [callback EXCEPT ![c] = IF Awaited(c) THEN "exchanging" ELSE "refused"]
    /\ TakeLogin(c)
    /\ UNCHANGED <<rules, seconds, begun, sessions, request>>

\* new_session: the oldest are dropped at the cap.
DropOldest(seq, cap) ==
    IF Len(seq) < cap THEN seq ELSE SubSeq(seq, Len(seq) - cap + 2, Len(seq))

\* The provider answered: a verified subject gets a session.
FinishLogin(c) ==
    /\ callback[c] = "exchanging"
    /\ \/ /\ callback' = [callback EXCEPT ![c] = "in"]
          /\ \E s \in Subjects :
                sessions' = Append(DropOldest(sessions, MaxSessions),
                                   [login |-> c[1], subject |-> s,
                                    expires |-> seconds + SessionTTL])
       \/ /\ callback' = [callback EXCEPT ![c] = "refused"]
          /\ UNCHANGED sessions
    /\ UNCHANGED <<rules, seconds, begun, pending, request>>

\* auth_logout.
Logout ==
    /\ \E i \in DOMAIN sessions :
          sessions[i].expires > seconds /\ sessions' = RemoveAt(sessions, i)
    /\ UNCHANGED <<rules, seconds, signIns, request>>

\* WebAuth.session forgets a session that is over.
MeetExpired ==
    /\ \E i \in DOMAIN sessions :
          sessions[i].expires <= seconds /\ sessions' = RemoveAt(sessions, i)
    /\ UNCHANGED <<rules, seconds, signIns, request>>

\* The middleware: a session that lasts and a permission the rules give.
Authorise(s) ==
    /\ request[s] = NoRequest
    /\ \E i \in DOMAIN sessions : sessions[i].subject = s /\ sessions[i].expires > seconds
    /\ \/ /\ PermissionsFor(s, rules) # {}
          /\ request' = [request EXCEPT ![s] = Request("other", {})]
       \/ /\ "admin" \in PermissionsFor(s, rules)
          /\ \E update \in RuleChoices :
                request' = [request EXCEPT ![s] = Request("access", update)]
    /\ UNCHANGED <<rules, seconds, signIns, sessions>>

KeepsAdmin(s, access) == IsAdmin(s, access)

\* write_config_sections merges the section into the file: a mapping or a
\* default role that was taken away is not written, so the old one stays.
Merged(access) ==
    [admins   |-> access.admins,
     mappings |-> [g \in DOMAIN access.mappings |->
                      IF access.mappings[g] = "none" THEN rules.mappings[g]
                      ELSE access.mappings[g]],
     default  |-> IF access.default = "none" THEN rules.default ELSE access.default]

\* update_access, or any other handler.
Handle(s) ==
    /\ request[s] # NoRequest
    /\ request' = [request EXCEPT ![s] = NoRequest]
    /\ IF request[s].kind = "access" /\ KeepsAdmin(s, request[s].update)
       THEN rules' = Merged(request[s].update)
       ELSE UNCHANGED rules
    /\ UNCHANGED <<seconds, signIns, sessions>>

WebAccessNext ==
    \/ SecondPasses \/ BeginLogin \/ Logout \/ MeetExpired
    \/ \E c \in Callbacks : ReceiveCallback(c) \/ FinishLogin(c)
    \/ \E s \in Subjects : Authorise(s) \/ Handle(s)

WebAccessSpec == WebAccessInit /\ [][WebAccessNext]_webAccessVars

---------------------------------------------------------------------------
AccessChangedBy(s) == request[s].kind = "access" /\ request'[s] = NoRequest /\ rules' # rules

(* Whoever changed the access rules is an administrator under the new ones *)
(* too: docs/multi-user.md says that a change that would remove the        *)
(* editor's own admin access is refused, and update_access asks whether    *)
(* the rules it was sent would do so.                                      *)
EditorKeepsAdmin ==
    [][\A s \in Subjects : AccessChangedBy(s) => IsAdmin(s, rules')]_webAccessVars

(* A sign-in makes one session at most, although the browser may send the  *)
(* callback twice and both leave the event loop for the provider, and a    *)
(* sign-in that was forgotten or is too old makes none.                    *)
SignInOnce ==
    /\ \A l \in Logins :
           Cardinality({k \in {1, 2} : callback[<<l, k>>] \in {"exchanging", "in"}}) <= 1
    /\ \A l \in Logins : (\E p \in pending : p.login = l)
           => \A k \in {1, 2} : callback[<<l, k>>] \notin {"exchanging", "in"}
=============================================================================
