--------------------------- MODULE ProfileDocuments ---------------------------
(***************************************************************************)
(* One agent profile on disk and everyone who writes it: the agent that    *)
(* learns from @agent-state directives, the reviewers of the proposals it  *)
(* makes, loro agents forget and apply, and the editor of the web          *)
(* interface (loro/agent_profiles, cli/agents.py, webui/services.py).      *)
(*                                                                         *)
(* apply_delta checks and writes under a lock.  Reviews, saves and new     *)
(* profiles read and write in separate steps that take no lock.            *)
(***************************************************************************)
EXTENDS Integers, Sequences, SequencesExt

CONSTANTS
    Agents, Users, Facts, Specs,
    FirstFacts,      \* what the profile may know at first
    Ceilings,        \* of what learning may do: "off", "propose" or "auto"
    MaxFacts,        \* lifecycle.retention.max_facts
    MaxProposals,
    MaxRevision      \* bounds the revisions of a behaviour

ASSUME ProfileDocumentsAssumption ==
    /\ Ceilings \subseteq {"off", "propose", "auto"}
    /\ MaxFacts \in Nat \ {0} /\ {MaxProposals, MaxRevision} \subseteq Nat

VARIABLES
    writeback,       \* the ceiling of this profile and configuration
    profile,         \* the document: revision, spec, facts and validity
    session,         \* what each agent loaded: revision and spec
    profileDrafts,          \* the proposals, oldest first
    user,            \* what each user is doing
    everApplied      \* history: the proposals whose delta was ever written

profileDocumentsVars == <<writeback, profile, session, profileDrafts, user, everApplied>>

\* "log" is history: the proposals applied in the revisions up to this one.
FreshDelta(spec) == [exists |-> TRUE, valid |-> TRUE, revision |-> 1, spec |-> spec,
                facts |-> <<>>, log |-> <<>>]

NoSession == [on |-> FALSE, revision |-> 0, spec |-> "none"]

ProfileDocumentsInit ==
    /\ writeback \in Ceilings
    /\ \E s \in Specs, known \in FirstFacts : profile = [FreshDelta(s) EXCEPT !.facts = known]
    /\ session = [a \in Agents |-> NoSession]
    /\ profileDrafts = <<>>
    /\ user = [u \in Users |-> [pc |-> "idle"]]
    /\ everApplied = {}

\* load_path and AgentProfileRegistry.load.
Readable == profile.exists /\ profile.valid

---------------------------------------------------------------------------
\* Faulty variant: only the authority digest is compared.
DigestMatches(d) == Readable /\ d.spec = profile.spec

\* apply_delta: the revision and the digest the delta was made for.
Applies(d) == Readable /\ d.base = profile.revision /\ d.spec = profile.spec

\* _enforce_lifecycle_retention: the oldest fact goes first.
Retained(facts) ==
    IF Len(facts) > MaxFacts THEN SubSeq(facts, Len(facts) - MaxFacts + 1, Len(facts))
    ELSE facts

\* _apply_operation.
Learned(facts, d) ==
    IF d.op = "remove" THEN SelectSeq(facts, LAMBDA f : f # d.fact)
    ELSE IF Contains(facts, d.fact) THEN facts
    ELSE Retained(Append(facts, d.fact))

\* _write_profile, for a delta of the proposals in "from".
Write(d, from) ==
    /\ profile' = [profile EXCEPT !.revision = @ + 1, !.facts = Learned(@, d),
                                  !.log = @ \o from]
    /\ everApplied' = everApplied \union Range(from)

---------------------------------------------------------------------------
\* AgentRuntime starts with the profile: revision and digest are pinned.
StartSession(a) ==
    /\ ~session[a].on /\ Readable
    /\ session' = [session EXCEPT ![a] =
           [on |-> TRUE, revision |-> profile.revision, spec |-> profile.spec]]
    /\ UNCHANGED <<profile, profileDrafts, user, everApplied>>

EndSession(a) ==
    /\ session[a].on
    /\ session' = [session EXCEPT ![a] = NoSession]
    /\ UNCHANGED <<profile, profileDrafts, user, everApplied>>

DeltaOf(a, f) ==
    [base |-> session[a].revision, spec |-> session[a].spec, op |-> "add", fact |-> f]

Pending(d) == [status |-> "pending", delta |-> d]

\* An @agent-state directive under the "propose" ceiling.
ProposeDelta(a, f) ==
    /\ session[a].on /\ writeback = "propose" /\ Len(profileDrafts) < MaxProposals
    /\ profileDrafts' = Append(profileDrafts, Pending(DeltaOf(a, f)))
    /\ UNCHANGED <<profile, session, user, everApplied>>

\* Under "auto" it is written; a conflict ends the run, and changes nothing.
Learn(a, f) ==
    /\ session[a].on /\ writeback = "auto"
    /\ IF Applies(DeltaOf(a, f)) /\ profile.revision < MaxRevision
       THEN Write(DeltaOf(a, f), <<>>) /\ UNCHANGED session
       ELSE session' = [session EXCEPT ![a] = NoSession] /\ UNCHANGED <<profile, everApplied>>
    /\ UNCHANGED <<profileDrafts, user>>

---------------------------------------------------------------------------
Free(u) == user[u].pc = "idle"

Becomes(u, task) == user' = [user EXCEPT ![u] = task]

\* loro agents review: the proposal is read, and must be pending.
Review(u, p) ==
    /\ Free(u) /\ p \in DOMAIN profileDrafts /\ profileDrafts[p].status = "pending"
    /\ Becomes(u, [pc |-> "reviewing", proposal |-> p])
    /\ UNCHANGED <<profile, session, profileDrafts, everApplied>>

RejectDelta(u) ==
    /\ user[u].pc = "reviewing"
    /\ profileDrafts' = [profileDrafts EXCEPT ![user[u].proposal].status = "rejected"]
    /\ Becomes(u, [pc |-> "idle"])
    /\ UNCHANGED <<profile, session, everApplied>>

\* Faulty variant: the decision is recorded before the delta is applied.
AcceptRecorded(u) ==
    /\ user[u].pc = "reviewing"
    /\ profileDrafts' = [profileDrafts EXCEPT ![user[u].proposal].status = "applied"]
    /\ LET p == user[u].proposal
       IN  IF Applies(profileDrafts[p].delta) /\ profile.revision < MaxRevision
           THEN /\ Write(profileDrafts[p].delta, <<p>>)
                /\ Becomes(u, [pc |-> "applied", proposal |-> p])
           ELSE Becomes(u, [pc |-> "idle"]) /\ UNCHANGED <<profile, everApplied>>
    /\ UNCHANGED session

\* The delta is applied; on a conflict the proposal stays as it was.
Accept(u) ==
    /\ user[u].pc = "reviewing"
    /\ LET p == user[u].proposal
       IN  IF Applies(profileDrafts[p].delta) /\ profile.revision < MaxRevision
           THEN /\ Write(profileDrafts[p].delta, <<p>>)
                /\ Becomes(u, [pc |-> "applied", proposal |-> p])
           ELSE Becomes(u, [pc |-> "idle"]) /\ UNCHANGED <<profile, everApplied>>
    /\ UNCHANGED <<session, profileDrafts>>

\* set_status, after the delta was applied.
RecordApplied(u) ==
    /\ user[u].pc = "applied"
    /\ profileDrafts' = [profileDrafts EXCEPT ![user[u].proposal].status = "applied"]
    /\ Becomes(u, [pc |-> "idle"])
    /\ UNCHANGED <<profile, session, everApplied>>

\* loro agents forget, and apply: the profile is loaded, the delta is applied.
BeginDelta(u, op, f) ==
    /\ Free(u) /\ Readable
    /\ Becomes(u, [pc |-> "delta", delta |->
           [base |-> profile.revision, spec |-> profile.spec, op |-> op, fact |-> f]])
    /\ UNCHANGED <<profile, session, profileDrafts, everApplied>>

ApplyDelta(u) ==
    /\ user[u].pc = "delta"
    /\ IF Applies(user[u].delta) /\ profile.revision < MaxRevision
       THEN Write(user[u].delta, <<>>)
       ELSE UNCHANGED <<profile, everApplied>>
    /\ Becomes(u, [pc |-> "idle"])
    /\ UNCHANGED <<session, profileDrafts>>

---------------------------------------------------------------------------
\* The web editor: the page holds the document as it was.
OpenPage(u) ==
    /\ Free(u) /\ Readable
    /\ Becomes(u, [pc |-> "editing", page |-> profile])
    /\ UNCHANGED <<profile, session, profileDrafts, everApplied>>

\* ProfileService.update: the revision now, the content of the page, and what
\* to put back if it turns out invalid.
BeginSave(u, spec) ==
    /\ user[u].pc = "editing" /\ Readable /\ profile.revision < MaxRevision
    /\ Becomes(u, [pc |-> "saving", previous |-> profile,
                   document |-> [profile EXCEPT !.revision = @ + 1, !.spec = spec,
                                                !.facts = user[u].page.facts]])
    /\ UNCHANGED <<profile, session, profileDrafts, everApplied>>

WriteSave(u, valid) ==
    /\ user[u].pc = "saving"
    /\ profile' = [user[u].document EXCEPT !.valid = valid]
    /\ Becomes(u, IF valid THEN [pc |-> "idle"]
                  ELSE [pc |-> "restoring", previous |-> user[u].previous])
    /\ UNCHANGED <<session, profileDrafts, everApplied>>

RestoreSave(u) ==
    /\ user[u].pc = "restoring"
    /\ profile' = user[u].previous
    /\ Becomes(u, [pc |-> "idle"])
    /\ UNCHANGED <<session, profileDrafts, everApplied>>

DeleteProfile(u) ==
    /\ Free(u) /\ Readable
    /\ profile' = [profile EXCEPT !.exists = FALSE]
    /\ UNCHANGED <<session, profileDrafts, user, everApplied>>

\* Creating: the name must be free when it is looked up.  "keeps" tells whether
\* a file that turns out invalid stays.
BeginCreate(u, keeps, spec) ==
    /\ Free(u) /\ ~profile.exists
    /\ Becomes(u, [pc |-> "creating", keeps |-> keeps, spec |-> spec])
    /\ UNCHANGED <<profile, session, profileDrafts, everApplied>>

CommandCreates(u, spec)   == BeginCreate(u, TRUE, spec)
WizardCreates(u, spec)    == BeginCreate(u, FALSE, spec)
GeneratorCreates(u, spec) == BeginCreate(u, FALSE, spec)
EditorCreates(u, spec)    == BeginCreate(u, FALSE, spec)
EditorImports(u, spec)    == BeginCreate(u, FALSE, spec)

\* The file is written, then read: loro agents create leaves it there when it is
\* not valid, the others take it away.
WriteNew(u, valid) ==
    /\ user[u].pc = "creating"
    /\ profile' = [FreshDelta(user[u].spec) EXCEPT !.valid = valid]
    /\ Becomes(u, [pc |-> IF valid \/ user[u].keeps THEN "idle" ELSE "discarding"])
    /\ UNCHANGED <<session, profileDrafts, everApplied>>

DiscardNew(u) ==
    /\ user[u].pc = "discarding"
    /\ profile' = [profile EXCEPT !.exists = FALSE]
    /\ Becomes(u, [pc |-> "idle"])
    /\ UNCHANGED <<session, profileDrafts, everApplied>>

\* The process of a user ends, or the page is closed, at any point.
Leave(u) ==
    /\ ~Free(u)
    /\ Becomes(u, [pc |-> "idle"])
    /\ UNCHANGED <<profile, session, profileDrafts, everApplied>>

ProfileDocumentsNext ==
    /\ UNCHANGED writeback
    /\ \/ \E a \in Agents :
             \/ StartSession(a) \/ EndSession(a)
             \/ \E f \in Facts : ProposeDelta(a, f) \/ Learn(a, f)
       \/ \E u \in Users :
             \/ \E p \in 1..MaxProposals : Review(u, p)
             \/ RejectDelta(u) \/ Accept(u) \/ RecordApplied(u)
             \/ \E op \in {"add", "remove"}, f \in Facts : BeginDelta(u, op, f)
             \/ ApplyDelta(u)
             \/ OpenPage(u)
             \/ \E s \in Specs :
                   \/ BeginSave(u, s) \/ CommandCreates(u, s) \/ WizardCreates(u, s)
                   \/ GeneratorCreates(u, s) \/ EditorCreates(u, s) \/ EditorImports(u, s)
             \/ \E ok \in BOOLEAN : WriteSave(u, ok) \/ WriteNew(u, ok)
             \/ RestoreSave(u) \/ DiscardNew(u) \/ DeleteProfile(u) \/ Leave(u)

ProfileDocumentsSpec == ProfileDocumentsInit /\ [][ProfileDocumentsNext]_profileDocumentsVars

---------------------------------------------------------------------------
\* The delta of a proposal is applied at most once in the revisions of a document,
\* also when two reviewers accept it together, and when the reviewer that applied
\* it ended before recording so (apply_delta, review).
DeltaOnce == IsInjective(profile.log)

\* A proposal recorded as applied was applied to the profile (review).
AppliedWasWritten == \A p \in DOMAIN profileDrafts :
    profileDrafts[p].status = "applied" => p \in everApplied

\* Whoever accepts a proposal and whenever its process ends, its delta is in the
\* profile's log at most once, and at least once when it says that it was applied.
DeltasAppliedOnce == DeltaOnce /\ AppliedWasWritten
=============================================================================
