--------------------------- MODULE ServicesProofs ----------------------------
(***************************************************************************)
(* Theorems about the parts a run loads and consults.                      *)
(*                                                                         *)
(* SigningKeys: for any number of threads, any cache time, cooldown and    *)
(* timeout, and however fetches and their answers overlap, a withdrawn key *)
(* stops being accepted.  The inductive invariant says how old a set of    *)
(* keys can be: a key that a set holds and that was withdrawn since, was   *)
(* withdrawn after the request for that set began.                         *)
(*                                                                         *)
(* Skills: for any commands, skills and contents, and however commands     *)
(* interleave and die, installations neither undo nor repeat each other.   *)
(* The inductive invariant says why: until a command removes a skill,      *)
(* whoever copied its package first is the only one whose check may still  *)
(* remove it.                                                              *)
(*                                                                         *)
(* McpTasks: for any processes, tasks and pages, what the saved record     *)
(* says of a task happened.  The inductive invariant says it also of what  *)
(* a process has yet to save, and that a task never takes back an answer.  *)
(*                                                                         *)
(* Configuration: for any writers and layers, a reference resolves, though *)
(* commands write and roll back stale copies.  The inductive invariant     *)
(* says it of every copy, and that a command writes a reference and its    *)
(* target together.                                                        *)
(*                                                                         *)
(* ProfileDocuments: for any agents and editors, no delta is in a document *)
(* twice.  The inductive invariant says that a delta was made for an       *)
(* earlier revision than any document, or copy of one, that holds it.      *)
(***************************************************************************)
EXTENDS SigningKeys, Skills, McpTasks, Configuration, ProfileDocuments,
        FiniteSetTheorems, TLAPS

\* SigningKeys.

Steps == {"idle", "refresh", "fetching", "answered", "accepted", "unknown", "unreachable"}

KeysType ==
    /\ time \in Nat /\ fetchedAt \in Nat
    /\ published \in SUBSET KeyIds /\ cachedKeys \in SUBSET KeyIds
    /\ retired \in [KeyIds -> Int]
    /\ verifier \in [Verifiers -> [step : Steps, key : KeyIds, began : Nat,
                                   forced : BOOLEAN, answer : SUBSET KeyIds]]

\* A published key is not withdrawn.
PublishedInv == \A k \in published : retired[k] = Never

\* A set requested at a time holds no key withdrawn before that time.
NotOlder(keys, at) == \A k \in keys : retired[k] # Never => retired[k] >= at

CacheInv == fetchedAt <= time /\ NotOlder(cachedKeys, fetchedAt)

RequestInv ==
    \A v \in Verifiers : InFlight(v) =>
        /\ verifier[v].began <= time
        /\ time - verifier[v].began <= Timeout

AnswerInv ==
    \A v \in Verifiers :
        verifier[v].step = "answered" => NotOlder(verifier[v].answer, verifier[v].began)

KeysInv == KeysType /\ PublishedInv /\ CacheInv /\ RequestInv /\ AnswerInv
-----------------------------------------------------------------------------
LEMMA InitKeysInv == KeysInit => KeysInv
  BY KeysAssumption, SMT DEF KeysInit, KeysInv, KeysType, PublishedInv, CacheInv, RequestInv, AnswerInv,
     NotOlder, InFlight, IdleVerifier, KeyIds, Never, Steps

\* The end of a verification leaves every other thread alone and nothing in flight.
LEMMA EndsPreserved ==
    ASSUME KeysInv, NEW v \in Verifiers, NEW result \in {"accepted", "unknown", "unreachable"},
           VerifyEnds(v, result), UNCHANGED <<time, retired>>
    PROVE  /\ verifier' \in [Verifiers -> [step : Steps, key : KeyIds, began : Nat,
                                           forced : BOOLEAN, answer : SUBSET KeyIds]]
           /\ RequestInv' /\ AnswerInv'
  BY DEF KeysInv, KeysType, VerifyEnds, IdleVerifier, Steps, RequestInv, AnswerInv, InFlight,
         NotOlder

LEMMA ChoosePreserved ==
    ASSUME KeysInv, NEW v \in Verifiers, NEW keys, NEW forced,
           Choose(v, keys, forced), UNCHANGED <<time, retired>>
    PROVE  /\ verifier' \in [Verifiers -> [step : Steps, key : KeyIds, began : Nat,
                                           forced : BOOLEAN, answer : SUBSET KeyIds]]
           /\ RequestInv' /\ AnswerInv'
<1>1. CASE verifier[v].key \in keys
  BY <1>1, EndsPreserved DEF Choose
<1>2. CASE verifier[v].key \notin keys /\ forced
  BY <1>2, EndsPreserved DEF Choose
<1>3. CASE verifier[v].key \notin keys /\ ~forced
  <2>1. verifier' = [verifier EXCEPT ![v].step = "refresh", ![v].forced = TRUE]
    BY <1>3 DEF Choose
  <2>2. verifier' \in [Verifiers -> [step : Steps, key : KeyIds, began : Nat,
                                     forced : BOOLEAN, answer : SUBSET KeyIds]]
    <3> DEFINE first == [verifier EXCEPT ![v].step = "refresh"]
    <3>1. first \in [Verifiers -> [step : Steps, key : KeyIds, began : Nat,
                                  forced : BOOLEAN, answer : SUBSET KeyIds]]
      BY DEF KeysInv, KeysType, Steps
    <3>2. verifier' = [first EXCEPT ![v].forced = TRUE]
      BY <2>1
    <3> HIDE DEF first
    <3> QED
      BY <3>1, <3>2
  <2>3. \A w \in Verifiers : InFlight(w)' => verifier'[w] = verifier[w]
    BY <2>1 DEF KeysInv, KeysType, InFlight
  <2>4. RequestInv'
    BY <2>3 DEF KeysInv, RequestInv, InFlight
  <2>5. AnswerInv'
    BY <2>3 DEF KeysInv, AnswerInv, NotOlder, InFlight
  <2> QED
    BY <2>2, <2>4, <2>5
<1> QED
  BY <1>1, <1>2, <1>3

LEMMA KeysInvPreserved == KeysInv /\ [KeysNext]_keysVars => KeysInv'
<1> SUFFICES ASSUME KeysInv, [KeysNext]_keysVars PROVE KeysInv'
  OBVIOUS
<1> USE DEF KeysInv
<1>1. CASE Tick
  BY <1>1, KeysAssumption DEF Tick, KeysType, PublishedInv, CacheInv, RequestInv, AnswerInv,
     NotOlder, InFlight
<1>2. CASE Publish
  BY <1>2 DEF Publish, KeysType, PublishedInv, CacheInv, RequestInv, AnswerInv, NotOlder, InFlight
<1>3. CASE Withdraw
  <2> PICK k \in published : /\ published' = published \ {k}
                             /\ retired' = [retired EXCEPT ![k] = time]
    BY <1>3 DEF Withdraw
  <2>0. UNCHANGED <<time, cachedKeys, fetchedAt, verifier>>
    BY <1>3 DEF Withdraw
  <2>1. KeysType' /\ PublishedInv'
    BY <2>0 DEF KeysType, PublishedInv
  <2>2. ASSUME NEW keys \in SUBSET KeyIds, NEW at \in Nat, at <= time, NotOlder(keys, at)
        PROVE  NotOlder(keys, at)'
    BY <2>2 DEF NotOlder, KeysType
  <2>3. CacheInv'
    BY <2>0, <2>2 DEF CacheInv, KeysType, NotOlder
  <2>4. RequestInv' /\ AnswerInv'
    BY <2>0, <2>2 DEF RequestInv, AnswerInv, InFlight, KeysType, NotOlder
  <2> QED
    BY <2>1, <2>3, <2>4
<1>4. ASSUME NEW v \in Verifiers, VerifyToken(v) PROVE KeysInv'
  <2>1. PICK k \in KeyIds :
          verifier' = [verifier EXCEPT ![v] = [IdleVerifier EXCEPT !.step = "refresh", !.key = k]]
    BY <1>4 DEF VerifyToken
  <2>2. KeysType'
    BY <1>4, <2>1 DEF VerifyToken, KeysType, IdleVerifier, Steps
  <2>3. \A w \in Verifiers : InFlight(w)' => verifier'[w] = verifier[w]
    BY <2>1 DEF InFlight, KeysType, IdleVerifier
  <2> QED
    BY <1>4, <2>2, <2>3 DEF VerifyToken, PublishedInv, CacheInv, RequestInv, AnswerInv, NotOlder,
       InFlight
<1>5. ASSUME NEW v \in Verifiers, UseCached(v) PROVE KeysInv'
  BY <1>5, ChoosePreserved DEF UseCached, KeysType, PublishedInv, CacheInv, NotOlder
<1>6. ASSUME NEW v \in Verifiers, BeginFetch(v) PROVE KeysInv'
  <2>1. KeysType'
    <3>1. time \in Nat /\ "fetching" \in Steps
      BY DEF KeysType, Steps
    <3>2. verifier' \in [Verifiers -> [step : Steps, key : KeyIds, began : Nat,
                                       forced : BOOLEAN, answer : SUBSET KeyIds]]
      <4> DEFINE first == [verifier EXCEPT ![v].step = "fetching"]
      <4>1. first \in [Verifiers -> [step : Steps, key : KeyIds, began : Nat,
                                    forced : BOOLEAN, answer : SUBSET KeyIds]]
        BY <3>1 DEF KeysType
      <4>2. verifier' = [first EXCEPT ![v].began = time]
        BY <1>6 DEF BeginFetch
      <4> HIDE DEF first
      <4> QED
        BY <3>1, <4>1, <4>2
    <3> QED
      BY <1>6, <3>2 DEF BeginFetch, KeysType
  <2>2. RequestInv'
    BY <1>6, KeysAssumption DEF BeginFetch, RequestInv, InFlight, KeysType
  <2>3. AnswerInv'
    BY <1>6 DEF BeginFetch, AnswerInv, NotOlder, KeysType
  <2> QED
    BY <1>6, <2>1, <2>2, <2>3 DEF BeginFetch, PublishedInv, CacheInv, NotOlder
<1>7. ASSUME NEW v \in Verifiers, Answered(v) PROVE KeysInv'
  <2>0. /\ verifier' = [verifier EXCEPT ![v].step = "answered", ![v].answer = published]
        /\ UNCHANGED <<time, published, retired, cachedKeys, fetchedAt>> /\ InFlight(v)
    BY <1>7 DEF Answered, InFlight
  <2>1. KeysType'
    <3>1. published \in SUBSET KeyIds /\ "answered" \in Steps
      BY DEF KeysType, Steps
    <3>2. verifier' \in [Verifiers -> [step : Steps, key : KeyIds, began : Nat,
                                       forced : BOOLEAN, answer : SUBSET KeyIds]]
      BY <2>0, <3>1 DEF KeysType
    <3> QED
      BY <2>0, <3>2 DEF KeysType
  <2>2. ASSUME NEW w \in Verifiers
        PROVE  /\ verifier'[w].began = verifier[w].began
               /\ InFlight(w)' => InFlight(w)
               /\ w # v => verifier'[w] = verifier[w]
    BY <2>0 DEF KeysType, InFlight
  <2>3. verifier'[v].answer = published
    BY <2>0 DEF KeysType
  <2>4. RequestInv'
    <3> SUFFICES ASSUME NEW w \in Verifiers, InFlight(w)'
                 PROVE  verifier'[w].began <= time' /\ time' - verifier'[w].began <= Timeout
      BY DEF RequestInv
    <3>1. InFlight(w) /\ verifier'[w].began = verifier[w].began /\ time' = time
      BY <2>0, <2>2
    <3> QED
      BY <3>1 DEF RequestInv
  <2>5. NotOlder(published, verifier[v].began)
    BY DEF PublishedInv, NotOlder
  <2>6. AnswerInv'
    <3> SUFFICES ASSUME NEW w \in Verifiers, verifier'[w].step = "answered"
                 PROVE  \A k \in verifier'[w].answer :
                            retired'[k] # Never => retired'[k] >= verifier'[w].began
      BY DEF AnswerInv, NotOlder
    <3>1. CASE w = v
      BY <2>0, <2>2, <2>3, <2>5, <3>1 DEF NotOlder
    <3>2. CASE w # v
      BY <2>0, <2>2, <3>2 DEF AnswerInv, NotOlder
    <3> QED
      BY <3>1, <3>2
  <2> QED
    BY <2>0, <2>1, <2>4, <2>6 DEF PublishedInv, CacheInv, NotOlder
<1>8. ASSUME NEW v \in Verifiers, FetchFails(v) PROVE KeysInv'
  BY <1>8, EndsPreserved DEF FetchFails, KeysType, PublishedInv, CacheInv, NotOlder
<1>9. ASSUME NEW v \in Verifiers, StoreKeys(v) PROVE KeysInv'
  <2>1. InFlight(v) /\ NotOlder(verifier[v].answer, verifier[v].began)
    BY <1>9 DEF StoreKeys, InFlight, AnswerInv
  <2>2. CacheInv'
    BY <1>9, <2>1 DEF StoreKeys, StampOf, CacheInv, RequestInv, NotOlder
  <2> QED
    BY <1>9, <2>2, ChoosePreserved DEF StoreKeys, StampOf, KeysType, PublishedInv
<1>10. CASE UNCHANGED keysVars
  BY <1>10 DEF keysVars, KeysType, PublishedInv, CacheInv, RequestInv, AnswerInv, NotOlder, InFlight
<1> QED
  BY <1>1, <1>2, <1>3, <1>4, <1>5, <1>6, <1>7, <1>8, <1>9, <1>10 DEF KeysNext

\* In every reachable state the cache, and every answer on its way to it, holds no
\* key withdrawn before its request began, and no request is older than Timeout.
THEOREM KeysInvariant == KeysSpec => []KeysInv
  BY InitKeysInv, KeysInvPreserved, PTL DEF KeysSpec

\* A thread accepts a token with the cached set or with the answer it stores.
LEMMA AcceptedWithin ==
    ASSUME KeysInv, [KeysNext]_keysVars, NEW v \in Verifiers, Accepts(v),
           retired[verifier[v].key] # Never
    PROVE  \/ time - retired[verifier[v].key] < Window
           \/ time - retired[verifier[v].key] <= Timeout
<1> USE DEF KeysInv
<1>1. ASSUME NEW w \in Verifiers, VerifyToken(w) \/ BeginFetch(w) \/ Answered(w) \/ FetchFails(w)
      PROVE  FALSE
  <2>1. verifier[v].step # "accepted" /\ verifier'[v].step = "accepted"
    BY DEF Accepts
  <2>2. CASE VerifyToken(w)
    BY <2>1, <2>2 DEF VerifyToken, KeysType, IdleVerifier
  <2>3. CASE BeginFetch(w) \/ Answered(w)
    BY <2>1, <2>3 DEF BeginFetch, Answered, KeysType
  <2>4. CASE FetchFails(w)
    BY <2>1, <2>4 DEF FetchFails, VerifyEnds, KeysType, IdleVerifier
  <2> QED
    BY <1>1, <2>2, <2>3, <2>4
<1>2. CASE Tick \/ Publish \/ Withdraw \/ UNCHANGED keysVars
  BY <1>2 DEF Tick, Publish, Withdraw, keysVars, Accepts
<1>3. ASSUME NEW w \in Verifiers, NEW keys, NEW forced, Choose(w, keys, forced)
      PROVE  w = v /\ verifier[v].key \in keys
  <2>1. w = v
    <3>1. w # v => verifier'[v] = verifier[v]
      BY <1>3 DEF Choose, VerifyEnds, KeysType
    <3> QED
      BY <3>1 DEF Accepts
  <2>2. CASE verifier[w].key \in keys
    BY <2>1, <2>2
  <2>3. CASE verifier[w].key \notin keys /\ forced
    <3>1. verifier'[w].step = "unknown"
      <4>1. verifier' = [verifier EXCEPT ![w] = [IdleVerifier EXCEPT !.step = "unknown",
                                                                    !.key = verifier[w].key]]
        BY <1>3, <2>3 DEF Choose, VerifyEnds
      <4>2. verifier'[w] = [IdleVerifier EXCEPT !.step = "unknown", !.key = verifier[w].key]
        BY <4>1 DEF KeysType
      <4> QED
        BY <4>2 DEF IdleVerifier
    <3> QED
      BY <2>1, <3>1 DEF Accepts
  <2>4. CASE verifier[w].key \notin keys /\ ~forced
    <3>1. verifier'[w].step = "refresh"
      BY <1>3, <2>4 DEF Choose, KeysType
    <3> QED
      BY <2>1, <3>1 DEF Accepts
  <2> QED
    BY <2>2, <2>3, <2>4
<1>4. ASSUME NEW w \in Verifiers, UseCached(w)
      PROVE  time - retired[verifier[v].key] < Window
  <2>1. verifier[v].key \in cachedKeys /\ (Age < CacheSeconds \/ Age < Cooldown)
    BY <1>3, <1>4 DEF UseCached, Usable
  <2>2. retired[verifier[v].key] >= fetchedAt
    BY <2>1 DEF CacheInv, NotOlder
  <2> QED
    BY <2>1, <2>2, KeysAssumption DEF Age, Window, KeysType
<1>5. ASSUME NEW w \in Verifiers, StoreKeys(w)
      PROVE  time - retired[verifier[v].key] <= Timeout
  <2>1. w = v /\ verifier[v].key \in verifier[v].answer
    BY <1>3, <1>5 DEF StoreKeys
  <2>2. retired[verifier[v].key] >= verifier[v].began
    BY <1>5, <2>1 DEF StoreKeys, AnswerInv, NotOlder
  <2>3. time - verifier[v].began <= Timeout
    BY <1>5, <2>1 DEF StoreKeys, RequestInv, InFlight
  <2> QED
    BY <2>2, <2>3, KeysAssumption DEF KeysType
<1> QED
  BY <1>1, <1>2, <1>4, <1>5 DEF KeysNext

\* No token is accepted on a key withdrawn longer ago than a set is used or one
\* request for it lasts.
THEOREM WithdrawnKeysExpireHolds == KeysSpec => WithdrawnKeysExpire
<1>1. KeysInv /\ [KeysNext]_keysVars
      => [\A v \in Verifiers :
            (Accepts(v) /\ retired[verifier[v].key] # Never)
            => \/ time - retired[verifier[v].key] < Window
               \/ time - retired[verifier[v].key] <= Timeout]_keysVars
  BY AcceptedWithin
<1> QED
  BY <1>1, KeysInvariant, PTL DEF KeysSpec, WithdrawnKeysExpire

-----------------------------------------------------------------------------
\* Skills.

StateRecords == [state : SkillStates, digest : Contents]
StateFiles   == UNION {[names -> StateRecords] : names \in SUBSET SkillNames}

SkillCommandType ==
    [step : {"set", "remove", "forget", "propose", "check", "copy", "verify", "record",
             "next", "undo"},
     skill : SkillNames, states : StateFiles, expected : Contents \cup {NoPackage},
     from : {"", "source", "proposal", "import"}, record : {"", "accepted", "rejected"},
     staged : [SkillNames -> Contents \cup {NoPackage}],
     left : SUBSET SkillNames, put : SUBSET SkillNames]

ProposalType ==
    [status : {"pending", "accepted", "rejected"}, skill : SkillNames,
     content : Contents, digest : Contents \cup {NoPackage}]

SkillsType ==
    /\ packages \in [SkillNames -> Contents \cup {NoPackage}]
    /\ skillSource \in [SkillNames -> Contents]
    /\ skillStates \in StateFiles
    /\ skillProposal \in ProposalType \cup {NoProposal}
    /\ skillCommand \in [SkillCommands -> SkillCommandType \cup {NoCommand}]
    /\ installed \in SUBSET (SkillCommands \X SkillNames)
    /\ robbed \in SUBSET (SkillCommands \X SkillNames)
    /\ removed \in SUBSET SkillNames /\ acceptances \in Nat

\* A command of a review is about the proposal, and accepts what it installed.
ReviewInv ==
    \A c \in SkillCommands :
        /\ skillCommand[c].step \in {"check", "copy", "verify"}
           => skillCommand[c].from \in {"source", "proposal", "import"}
        /\ (skillCommand[c].step \in {"check", "copy", "verify"}
            /\ skillCommand[c].from = "proposal")
           => /\ skillProposal.status # "none"
              /\ skillCommand[c].skill = skillProposal.skill
              /\ skillCommand[c].record = "accepted"
        /\ skillCommand[c].step = "record"
           => /\ skillProposal.status # "none"
              /\ skillCommand[c].record \in {"accepted", "rejected"}
              /\ skillCommand[c].record = "accepted" => acceptances > 0

\* An import has staged what it installs, and puts each skill once.
ImportSound(r) ==
    /\ r.step \in {"check", "copy", "verify"} => r.skill \notin r.left \cup r.put
    /\ r.step \in {"check", "copy", "verify", "next"} => r.left \cap r.put = {}
    /\ r.step \in {"check", "copy", "verify", "next"} /\ r.from = "import"
          => r.staged \in [SkillNames -> Contents]
    /\ r.step = "next" => r.from = "import"
    /\ r.step = "remove" => r.put = {}

ImportInv == \A c \in SkillCommands : ImportSound(skillCommand[c])

\* c may take s away, and nobody took it away under c.
Owns(c, s) == Holds(c, s) /\ <<c, s>> \notin robbed

\* What stands and what is owned is there; a skill has one owner, and while its
\* installation stands no owner but the import that put it.
PlaceInv ==
    \A s \in SkillNames, c, d \in SkillCommands :
        /\ <<c, s>> \in installed \/ Owns(c, s) => packages[s] # NoPackage
        /\ Owns(c, s) /\ Owns(d, s) => c = d
        /\ Owns(c, s) /\ <<d, s>> \in installed => c = d /\ ~Verifying(c, s)

\* Only of a skill that was taken away is a command robbed.
RobbedInv ==
    \A s \in SkillNames, c \in SkillCommands : <<c, s>> \in robbed => s \in removed

AcceptInv ==
    /\ skillProposal.status = "accepted" => acceptances > 0
    /\ acceptances > 0 =>
          /\ skillProposal.status # "none"
          /\ \/ skillProposal.skill \in removed
             \/ /\ acceptances = 1
                /\ \E c \in SkillCommands : <<c, skillProposal.skill>> \in installed

SkillsInv == SkillsType /\ ReviewInv /\ ImportInv /\ PlaceInv /\ RobbedInv /\ AcceptInv
-----------------------------------------------------------------------------
LEMMA InitSkillsInv == SkillsInit => SkillsInv
<1> SUFFICES ASSUME SkillsInit PROVE SkillsInv
  OBVIOUS
<1>1. skillStates \in [{} -> StateRecords]
  BY DEF SkillsInit
<1>2. skillStates \in StateFiles
  BY <1>1 DEF StateFiles
<1>3. SkillsType
  BY <1>2 DEF SkillsType, SkillsInit, NoCommand, NoProposal
<1>4. ReviewInv /\ ImportInv /\ PlaceInv
  BY DEF SkillsInit, ReviewInv, ImportInv, ImportSound, PlaceInv, Owns, Holds, Verifying, NoCommand
<1>5. RobbedInv /\ AcceptInv
  BY DEF SkillsInit, RobbedInv, AcceptInv, NoProposal
<1> QED
  BY <1>3, <1>4, <1>5 DEF SkillsInv

LEMMA WithStateType ==
    ASSUME NEW states \in StateFiles, NEW s \in SkillNames, NEW record \in StateRecords
    PROVE  WithState(states, s, record) \in StateFiles
<1>1. PICK names \in SUBSET SkillNames : states \in [names -> StateRecords]
  BY DEF StateFiles
<1>2. WithState(states, s, record) \in [names \cup {s} -> StateRecords]
  BY <1>1 DEF WithState
<1>3. names \cup {s} \in SUBSET SkillNames
  OBVIOUS
<1> QED
  BY <1>2, <1>3 DEF StateFiles

LEMMA WithoutStateType ==
    ASSUME NEW states \in StateFiles, NEW s
    PROVE  WithoutState(states, s) \in StateFiles
<1>1. PICK names \in SUBSET SkillNames : states \in [names -> StateRecords]
  BY DEF StateFiles
<1>2. WithoutState(states, s) \in [names \ {s} -> StateRecords]
  BY <1>1 DEF WithoutState
<1>3. names \ {s} \in SUBSET SkillNames
  OBVIOUS
<1> QED
  BY <1>2, <1>3 DEF StateFiles

\* What a command does next: nothing, or another step of what it is about.
LEMMA CommandEndsType ==
    ASSUME SkillsType, NEW c \in SkillCommands, CommandEnds(c)
    PROVE  /\ skillCommand' \in [SkillCommands -> SkillCommandType \cup {NoCommand}]
           /\ skillCommand'[c] = NoCommand
           /\ \A d \in SkillCommands \ {c} : skillCommand'[d] = skillCommand[d]
  BY DEF SkillsType, CommandEnds

LEMMA StepToType ==
    ASSUME SkillsType, NEW c \in SkillCommands, ~AtStep(c, "idle"),
           NEW step \in {"forget", "copy", "verify", "record", "undo"}, StepTo(c, step)
    PROVE  /\ skillCommand[c] \in SkillCommandType
           /\ skillCommand' \in [SkillCommands -> SkillCommandType \cup {NoCommand}]
           /\ skillCommand'[c] = [skillCommand[c] EXCEPT !.step = step]
           /\ skillCommand'[c].step = step
           /\ skillCommand'[c].skill = skillCommand[c].skill
           /\ skillCommand'[c].from = skillCommand[c].from
           /\ skillCommand'[c].record = skillCommand[c].record
           /\ skillCommand'[c].staged = skillCommand[c].staged
           /\ skillCommand'[c].left = skillCommand[c].left
           /\ skillCommand'[c].put = skillCommand[c].put
           /\ \A d \in SkillCommands \ {c} : skillCommand'[d] = skillCommand[d]
<1>1. skillCommand[c] \in SkillCommandType
  BY DEF SkillsType, AtStep, NoCommand
<1>2. [skillCommand[c] EXCEPT !.step = step] \in SkillCommandType
  BY <1>1 DEF SkillCommandType
<1>3. skillCommand' = [skillCommand EXCEPT ![c] = [skillCommand[c] EXCEPT !.step = step]]
  BY DEF StepTo
<1>4. skillCommand'[c] = [skillCommand[c] EXCEPT !.step = step]
  BY <1>3 DEF SkillsType
<1>5. /\ skillCommand'[c].step = step
      /\ skillCommand'[c].skill = skillCommand[c].skill
      /\ skillCommand'[c].from = skillCommand[c].from
      /\ skillCommand'[c].record = skillCommand[c].record
      /\ skillCommand'[c].staged = skillCommand[c].staged
      /\ skillCommand'[c].left = skillCommand[c].left
      /\ skillCommand'[c].put = skillCommand[c].put
  BY <1>1, <1>4 DEF SkillCommandType
<1> QED
  BY <1>1, <1>2, <1>3, <1>4, <1>5 DEF SkillsType

\* Nobody comes to hold what it did not: what is there and what stands may stay as it is.
LEMMA PlaceKept ==
    ASSUME SkillsInv,
           \A s \in SkillNames : packages[s] # NoPackage => packages'[s] # NoPackage,
           installed' \subseteq installed,
           \A d \in SkillCommands, s \in SkillNames : Owns(d, s)' => Owns(d, s),
           \A d \in SkillCommands, s \in SkillNames : Verifying(d, s)' => Verifying(d, s)
    PROVE  PlaceInv'
<1> SUFFICES ASSUME NEW s \in SkillNames, NEW c \in SkillCommands, NEW d \in SkillCommands
             PROVE  /\ <<c, s>> \in installed' \/ Owns(c, s)' => packages'[s] # NoPackage
                    /\ Owns(c, s)' /\ Owns(d, s)' => c = d
                    /\ Owns(c, s)' /\ <<d, s>> \in installed' => c = d /\ ~Verifying(c, s)'
  BY DEF PlaceInv
<1>1. /\ <<c, s>> \in installed \/ Owns(c, s) => packages[s] # NoPackage
      /\ Owns(c, s) /\ Owns(d, s) => c = d
      /\ Owns(c, s) /\ <<d, s>> \in installed => c = d /\ ~Verifying(c, s)
  BY DEF SkillsInv, PlaceInv
<1>2. Owns(c, s)' => Owns(c, s)
  OBVIOUS
<1>3. Owns(d, s)' => Owns(d, s)
  OBVIOUS
<1>4. Verifying(c, s)' => Verifying(c, s)
  OBVIOUS
<1>5. <<c, s>> \in installed' => <<c, s>> \in installed
  OBVIOUS
<1>6. <<d, s>> \in installed' => <<d, s>> \in installed
  OBVIOUS
<1>7. packages[s] # NoPackage => packages'[s] # NoPackage
  OBVIOUS
<1> QED
  BY <1>1, <1>2, <1>3, <1>4, <1>5, <1>6, <1>7

\* A step of c that leaves what it has put, and verifies nothing.
LEMMA OwnsNoMore ==
    ASSUME NEW c \in SkillCommands,
           \A d \in SkillCommands \ {c} : skillCommand'[d] = skillCommand[d],
           \A p : p \in robbed /\ p[1] # c => p \in robbed',
           \/ robbed' = robbed /\ skillCommand'[c].put \subseteq skillCommand[c].put
           \/ skillCommand'[c].put = {},
           skillCommand'[c].step # "verify"
    PROVE  \A d \in SkillCommands, s \in SkillNames :
              (Owns(d, s)' => Owns(d, s)) /\ (Verifying(d, s)' => Verifying(d, s))
<1> SUFFICES ASSUME NEW d \in SkillCommands, NEW s \in SkillNames
             PROVE  (Owns(d, s)' => Owns(d, s)) /\ (Verifying(d, s)' => Verifying(d, s))
  OBVIOUS
<1>1. CASE d = c
  BY <1>1 DEF Owns, Holds, Verifying
<1>2. CASE d # c
  <2>1. skillCommand'[d] = skillCommand[d]
    BY <1>2
  <2>2. <<d, s>> \in robbed => <<d, s>> \in robbed'
    BY <1>2
  <2> QED
    BY <2>1, <2>2 DEF Owns, Holds, Verifying
<1> QED
  BY <1>1, <1>2

\* A command that ends, or goes on to a step that verifies nothing, disturbs nothing when
\* packages and reviews stay as they are.
LEMMA QuietStep ==
    ASSUME SkillsInv, NEW c \in SkillCommands,
           UNCHANGED <<packages, installed, removed, acceptances, skillProposal>>,
           \A d \in SkillCommands \ {c} : skillCommand'[d] = skillCommand[d],
           \/ robbed' = robbed /\ skillCommand'[c].put \subseteq skillCommand[c].put
           \/ robbed' = {p \in robbed : p[1] # c} /\ skillCommand'[c].put = {},
           skillCommand'[c].step # "verify", ImportSound(skillCommand'[c]),
           skillCommand'[c].step \in {"check", "copy"}
             => /\ skillCommand'[c].from \in {"source", "proposal", "import"}
                /\ skillCommand'[c].from = "proposal"
                   => /\ skillProposal.status # "none"
                      /\ skillCommand'[c].skill = skillProposal.skill
                      /\ skillCommand'[c].record = "accepted",
           skillCommand'[c].step = "record"
             => skillProposal.status # "none" /\ skillCommand'[c].record = "rejected"
    PROVE  ReviewInv' /\ ImportInv' /\ PlaceInv' /\ RobbedInv' /\ AcceptInv'
<1>1. ReviewInv' /\ ImportInv'
  BY DEF SkillsInv, ReviewInv, ImportInv
<1>2. \A d \in SkillCommands, s \in SkillNames :
         (Owns(d, s)' => Owns(d, s)) /\ (Verifying(d, s)' => Verifying(d, s))
  <2>1. \A p : p \in robbed /\ p[1] # c => p \in robbed'
    OBVIOUS
  <2>2. \/ robbed' = robbed /\ skillCommand'[c].put \subseteq skillCommand[c].put
        \/ skillCommand'[c].put = {}
    OBVIOUS
  <2> QED
    BY <2>1, <2>2, OwnsNoMore
<1>3. PlaceInv'
  BY <1>2, PlaceKept
<1>4. RobbedInv'
  BY DEF SkillsInv, RobbedInv
<1>5. AcceptInv'
  BY DEF SkillsInv, AcceptInv
<1> QED
  BY <1>1, <1>3, <1>4, <1>5

LEMMA OpenPreserved ==
    ASSUME SkillsInv, NEW c \in SkillCommands, NEW registry \in SkillCommandType,
           OpenRegistry(c, registry), registry.step \notin {"verify", "copy"},
           registry.put = {}, registry.step = "check" => registry.left = {},
           registry.step = "check"
             => /\ registry.from \in {"source", "proposal"}
                /\ registry.from = "proposal"
                   => /\ skillProposal.status # "none"
                      /\ registry.skill = skillProposal.skill
                      /\ registry.record = "accepted",
           registry.step = "next"
             => registry.from = "import" /\ registry.staged \in [SkillNames -> Contents],
           registry.step = "record"
             => skillProposal.status # "none" /\ registry.record = "rejected"
    PROVE  SkillsInv'
<1>1. /\ skillCommand' \in [SkillCommands -> SkillCommandType \cup {NoCommand}]
      /\ skillCommand'[c] = registry
      /\ \A d \in SkillCommands \ {c} : skillCommand'[d] = skillCommand[d]
  BY DEF SkillsInv, SkillsType, OpenRegistry
<1>2. SkillsType'
  BY <1>1 DEF SkillsInv, SkillsType, OpenRegistry
<1>3. ImportSound(registry)
  BY DEF ImportSound
<1>4. ReviewInv' /\ ImportInv' /\ PlaceInv' /\ RobbedInv' /\ AcceptInv'
  BY <1>1, <1>3, QuietStep DEF OpenRegistry
<1> QED
  BY <1>2, <1>4 DEF SkillsInv

\* A step that begins a command.
LEMMA AskPreserved ==
    ASSUME SkillsInv, NEW c \in SkillCommands, NEW s \in SkillNames,
           \/ AskState(c, s) \/ AskRemove(c, s) \/ AskPropose(c, s)
           \/ \E digest \in Contents : AskInstall(c, s, digest)
    PROVE  SkillsInv'
<1>0. SkillsType /\ skillSource[s] \in Contents
  BY DEF SkillsInv, SkillsType
<1>1. CASE AskState(c, s)
  <2>1. OpenRegistry(c, Registry("set", s, NoPackage, "", ""))
    BY <1>1 DEF AskState
  <2>2. /\ Registry("set", s, NoPackage, "", "") \in SkillCommandType
        /\ Registry("set", s, NoPackage, "", "").step = "set"
        /\ Registry("set", s, NoPackage, "", "").from = ""
        /\ Registry("set", s, NoPackage, "", "").put = {}
    BY <1>0 DEF Registry, NotStaged, SkillCommandType, SkillsType
  <2>3. PICK registry \in SkillCommandType :
          OpenRegistry(c, registry) /\ registry.step = "set" /\ registry.from = ""
          /\ registry.put = {}
    BY <2>1, <2>2
  <2> QED
    BY <2>3, OpenPreserved
<1>2. CASE AskRemove(c, s)
  <2>1. OpenRegistry(c, Registry("remove", s, NoPackage, "", ""))
    BY <1>2 DEF AskRemove
  <2>2. /\ Registry("remove", s, NoPackage, "", "") \in SkillCommandType
        /\ Registry("remove", s, NoPackage, "", "").step = "remove"
        /\ Registry("remove", s, NoPackage, "", "").from = ""
        /\ Registry("remove", s, NoPackage, "", "").put = {}
    BY <1>0 DEF Registry, NotStaged, SkillCommandType, SkillsType
  <2>3. PICK registry \in SkillCommandType :
          OpenRegistry(c, registry) /\ registry.step = "remove" /\ registry.from = ""
          /\ registry.put = {}
    BY <2>1, <2>2
  <2> QED
    BY <2>3, OpenPreserved
<1>3. CASE AskPropose(c, s)
  <2>1. OpenRegistry(c, Registry("propose", s, skillSource[s], "source", ""))
    BY <1>3 DEF AskPropose
  <2>2. /\ Registry("propose", s, skillSource[s], "source", "") \in SkillCommandType
        /\ Registry("propose", s, skillSource[s], "source", "").step = "propose"
        /\ Registry("propose", s, skillSource[s], "source", "").from = "source"
        /\ Registry("propose", s, skillSource[s], "source", "").put = {}
    BY <1>0 DEF Registry, NotStaged, SkillCommandType, SkillsType
  <2>3. PICK registry \in SkillCommandType :
          OpenRegistry(c, registry) /\ registry.step = "propose" /\ registry.from = "source"
          /\ registry.put = {}
    BY <2>1, <2>2
  <2> QED
    BY <2>3, OpenPreserved
<1>4. ASSUME NEW digest \in Contents, AskInstall(c, s, digest) PROVE SkillsInv'
  <2>1. OpenRegistry(c, Registry("check", s, digest, "source", ""))
    BY <1>4 DEF AskInstall
  <2>2. /\ Registry("check", s, digest, "source", "") \in SkillCommandType
        /\ Registry("check", s, digest, "source", "").step = "check"
        /\ Registry("check", s, digest, "source", "").from = "source"
        /\ Registry("check", s, digest, "source", "").put = {}
        /\ Registry("check", s, digest, "source", "").left = {}
    BY <1>0 DEF Registry, NotStaged, SkillCommandType, SkillsType
  <2>3. PICK registry \in SkillCommandType :
          OpenRegistry(c, registry) /\ registry.step = "check" /\ registry.from = "source"
          /\ registry.put = {} /\ registry.left = {}
    BY <2>1, <2>2
  <2> QED
    BY <2>3, OpenPreserved
<1> QED
  BY <1>1, <1>2, <1>3, <1>4

LEMMA AskImportPreserved ==
    ASSUME SkillsInv, NEW c \in SkillCommands, NEW names \in SUBSET SkillNames,
           AskImport(c, names)
    PROVE  SkillsInv'
<1>0. PICK s \in SkillNames : s = CHOOSE n \in names : TRUE
  BY DEF AskImport
<1> DEFINE plain == Registry("next", s, NoPackage, "import", "")
           import == [plain EXCEPT !.staged = skillSource, !.left = names]
           about(registry) ==
               /\ registry.step = "next" /\ registry.from = "import" /\ registry.put = {}
               /\ registry.staged \in [SkillNames -> Contents]
<1>1. SkillsType
  BY DEF SkillsInv
<1>2. OpenRegistry(c, import)
  BY <1>0 DEF AskImport
<1>3. import \in SkillCommandType /\ about(import)
  BY <1>0, <1>1 DEF Registry, NotStaged, SkillCommandType, SkillsType
<1>4. PICK registry \in SkillCommandType : OpenRegistry(c, registry) /\ about(registry)
  BY <1>2, <1>3
<1> QED
  BY <1>4, OpenPreserved

LEMMA AskReviewPreserved ==
    ASSUME SkillsInv, NEW c \in SkillCommands, NEW verdict \in {"accepted", "rejected"},
           AskReview(c, verdict)
    PROVE  SkillsInv'
<1>1. SkillsType /\ skillProposal \in ProposalType /\ skillProposal.status = "pending"
  BY DEF SkillsInv, SkillsType, AskReview, NoProposal
<1>2. skillProposal.skill \in SkillNames /\ skillProposal.digest \in Contents \cup {NoPackage}
  BY <1>1 DEF ProposalType
<1>3. CASE verdict = "accepted"
  <2> DEFINE about(registry) ==
               /\ registry.step = "check" /\ registry.from = "proposal" /\ registry.put = {}
               /\ registry.left = {}
               /\ registry.skill = skillProposal.skill /\ registry.record = "accepted"
             review == Registry("check", skillProposal.skill, skillProposal.digest,
                                "proposal", "accepted")
  <2>1. OpenRegistry(c, review)
    BY <1>3 DEF AskReview
  <2>2. review \in SkillCommandType /\ about(review)
    BY <1>1, <1>2 DEF Registry, NotStaged, SkillCommandType, SkillsType
  <2>3. PICK registry \in SkillCommandType : OpenRegistry(c, registry) /\ about(registry)
    BY <2>1, <2>2
  <2> QED
    BY <1>1, <2>3, OpenPreserved
<1>4. CASE verdict = "rejected"
  <2> DEFINE about(registry) ==
               /\ registry.step = "record" /\ registry.from = "proposal" /\ registry.put = {}
               /\ registry.skill = skillProposal.skill /\ registry.record = "rejected"
             review == Registry("record", skillProposal.skill, skillProposal.digest,
                                "proposal", "rejected")
  <2>1. OpenRegistry(c, review)
    BY <1>4 DEF AskReview
  <2>2. review \in SkillCommandType /\ about(review)
    BY <1>1, <1>2 DEF Registry, NotStaged, SkillCommandType, SkillsType
  <2>3. PICK registry \in SkillCommandType : OpenRegistry(c, registry) /\ about(registry)
    BY <2>1, <2>2
  <2> QED
    BY <1>1, <2>3, OpenPreserved
<1> QED
  BY <1>3, <1>4

\* A command that only writes the state file, or makes a proposal, or ends.
LEMMA EndPreserved ==
    ASSUME SkillsInv, NEW c \in SkillCommands, CommandEnds(c),
           UNCHANGED <<packages, placeVars, acceptances, skillProposal, skillSource>>,
           skillStates' \in StateFiles
    PROVE  SkillsInv'
<1>0. UNCHANGED <<installed, robbed, removed>> /\ SkillsType
  BY DEF placeVars, SkillsInv
<1>1. /\ skillCommand' \in [SkillCommands -> SkillCommandType \cup {NoCommand}]
      /\ \A d \in SkillCommands \ {c} : skillCommand'[d] = skillCommand[d]
      /\ skillCommand'[c].step = "idle" /\ skillCommand'[c].put = {}
      /\ ImportSound(skillCommand'[c])
  BY <1>0, CommandEndsType DEF NoCommand, ImportSound
<1>2. SkillsType'
  BY <1>0, <1>1 DEF SkillsType
<1>3. ReviewInv' /\ ImportInv' /\ PlaceInv' /\ RobbedInv' /\ AcceptInv'
  BY <1>0, <1>1, QuietStep
<1> QED
  BY <1>2, <1>3 DEF SkillsInv

\* An installation that fails without having copied anything.
LEMMA FailPreserved ==
    ASSUME SkillsInv, NEW c \in SkillCommands, InstallFails(c), ~AtStep(c, "idle"),
           UNCHANGED <<packages, placeVars, acceptances, skillProposal, skillSource, skillStates>>
    PROVE  SkillsInv'
<1>0. UNCHANGED <<installed, robbed, removed>> /\ SkillsType
  BY DEF placeVars, SkillsInv
<1>1. CASE skillCommand[c].from # "import"
  <2>1. CommandEnds(c)
    BY <1>1 DEF InstallFails
  <2> QED
    BY <1>0, <2>1, EndPreserved DEF SkillsType
<1>2. CASE skillCommand[c].from = "import"
  <2>1. /\ skillCommand' \in [SkillCommands -> SkillCommandType \cup {NoCommand}]
        /\ \A d \in SkillCommands \ {c} : skillCommand'[d] = skillCommand[d]
        /\ skillCommand'[c].step = "undo" /\ skillCommand'[c].put = skillCommand[c].put
        /\ ImportSound(skillCommand'[c])
    BY <1>0, <1>2, StepToType DEF InstallFails, ImportSound
  <2>2. SkillsType'
    BY <1>0, <2>1 DEF SkillsType
  <2>3. ReviewInv' /\ ImportInv' /\ PlaceInv' /\ RobbedInv' /\ AcceptInv'
    BY <1>0, <2>1, QuietStep
  <2> QED
    BY <2>2, <2>3 DEF SkillsInv
<1> QED
  BY <1>1, <1>2

LEMMA SetStatePreserved ==
    ASSUME SkillsInv, NEW c \in SkillCommands, SetState(c) PROVE SkillsInv'
<1>1. skillCommand[c] \in SkillCommandType
  BY DEF SkillsInv, SkillsType, SetState, AtStep, NoCommand
<1>2. skillCommand[c].skill \in SkillNames /\ skillCommand[c].states \in StateFiles
  BY <1>1 DEF SkillCommandType
<1>3. skillStates' \in StateFiles
  <2>1. CASE packages[skillCommand[c].skill] = NoPackage
    BY <2>1 DEF SetState, SkillsInv, SkillsType
  <2>2. CASE packages[skillCommand[c].skill] # NoPackage
    <3>1. PICK state \in SkillStates :
            skillStates' = WithState(skillCommand[c].states, skillCommand[c].skill,
                                     [state |-> state,
                                      digest |-> packages[skillCommand[c].skill]])
      BY <2>2 DEF SetState
    <3>2. [state |-> state, digest |-> packages[skillCommand[c].skill]] \in StateRecords
      BY <1>2, <2>2 DEF StateRecords, SkillsInv, SkillsType
    <3> QED
      BY <1>2, <3>1, <3>2, WithStateType
  <2> QED
    BY <2>1, <2>2
<1> QED
  BY <1>3, EndPreserved DEF SetState

LEMMA ForgetStatePreserved ==
    ASSUME SkillsInv, NEW c \in SkillCommands, ForgetState(c) PROVE SkillsInv'
<1>1. skillCommand[c] \in SkillCommandType
  BY DEF SkillsInv, SkillsType, ForgetState, AtStep, NoCommand
<1>2. skillStates' \in StateFiles
  BY <1>1, WithoutStateType DEF ForgetState, SkillCommandType
<1> QED
  BY <1>2, EndPreserved DEF ForgetState

\* c takes s away: what others hold of it they are robbed of, and none of it stands.
LEMMA TakePlace ==
    ASSUME SkillsInv, NEW c \in SkillCommands, NEW s \in SkillNames,
           packages' = [packages EXCEPT ![s] = NoPackage],
           \A d \in SkillCommands \ {c} : skillCommand'[d] = skillCommand[d],
           RobsOthers(c, s), installed' \subseteq installed,
           \A d \in SkillCommands : <<d, s>> \notin installed',
           skillCommand'[c].put \subseteq skillCommand[c].put, s \notin skillCommand'[c].put,
           skillCommand'[c].step # "verify"
    PROVE  PlaceInv'
<1>1. ASSUME NEW d \in SkillCommands, NEW t \in SkillNames
      PROVE  /\ Owns(d, t)' => Owns(d, t) /\ t # s
             /\ Verifying(d, t)' => Verifying(d, t)
  <2>1. <<d, t>> \in robbed => <<d, t>> \in robbed'
    BY DEF RobsOthers
  <2>2. CASE d = c
    BY <2>1, <2>2 DEF Owns, Holds, Verifying
  <2>3. CASE d # c
    <3>1. skillCommand'[d] = skillCommand[d]
      BY <2>3
    <3>2. Holds(d, s) => <<d, s>> \in robbed'
      BY <2>3 DEF RobsOthers
    <3> QED
      BY <2>1, <3>1, <3>2 DEF Owns, Holds, Verifying
  <2> QED
    BY <2>2, <2>3
<1>2. ASSUME NEW t \in SkillNames \ {s} PROVE packages'[t] = packages[t]
  BY <1>2 DEF SkillsInv, SkillsType
<1> SUFFICES ASSUME NEW t \in SkillNames, NEW d \in SkillCommands, NEW e \in SkillCommands
             PROVE  /\ <<d, t>> \in installed' \/ Owns(d, t)' => packages'[t] # NoPackage
                    /\ Owns(d, t)' /\ Owns(e, t)' => d = e
                    /\ Owns(d, t)' /\ <<e, t>> \in installed' => d = e /\ ~Verifying(d, t)'
  BY DEF PlaceInv
<1>3. CASE t = s
  BY <1>1, <1>3
<1>4. CASE t # s
  <2>1. /\ <<d, t>> \in installed \/ Owns(d, t) => packages[t] # NoPackage
        /\ Owns(d, t) /\ Owns(e, t) => d = e
        /\ Owns(d, t) /\ <<e, t>> \in installed => d = e /\ ~Verifying(d, t)
    BY DEF SkillsInv, PlaceInv
  <2>2. (Owns(d, t)' => Owns(d, t)) /\ (Verifying(d, t)' => Verifying(d, t))
    BY <1>1
  <2>3. Owns(e, t)' => Owns(e, t)
    BY <1>1
  <2>4. packages'[t] = packages[t]
    BY <1>2, <1>4
  <2>5. /\ <<d, t>> \in installed' => <<d, t>> \in installed
        /\ <<e, t>> \in installed' => <<e, t>> \in installed
    OBVIOUS
  <2> QED
    BY <2>1, <2>2, <2>3, <2>4, <2>5
<1> QED
  BY <1>3, <1>4

\* Who takes away what it has put is left with no installation of it that stands: its own
\* goes, and another's stands beside it only when it was robbed.
LEMMA LosesPlace ==
    ASSUME SkillsInv, NEW c \in SkillCommands, NEW s \in SkillNames, Holds(c, s), Loses(c, s)
    PROVE  /\ installed' \subseteq installed
           /\ installed' \in SUBSET (SkillCommands \X SkillNames)
           /\ \A d \in SkillCommands : <<d, s>> \notin installed'
           /\ \A d \in SkillCommands, t \in SkillNames :
                 <<d, t>> \in installed /\ t # s => <<d, t>> \in installed'
<1>1. CASE <<c, s>> \in robbed
  BY <1>1 DEF Loses, SkillsInv, SkillsType
<1>2. CASE <<c, s>> \notin robbed
  <2>1. Owns(c, s)
    BY <1>2 DEF Owns
  <2>2. \A d \in SkillCommands : <<d, s>> \in installed => c = d
    BY <2>1 DEF SkillsInv, PlaceInv
  <2>3. installed' = installed \ {<<c, s>>}
    BY <1>2 DEF Loses
  <2> QED
    BY <2>2, <2>3 DEF SkillsInv, SkillsType
<1> QED
  BY <1>1, <1>2

LEMMA RobsType ==
    ASSUME SkillsInv, NEW c \in SkillCommands, NEW s \in SkillNames, RobsOthers(c, s)
    PROVE  robbed' \in SUBSET (SkillCommands \X SkillNames)
  BY DEF RobsOthers, SkillsInv, SkillsType

LEMMA RemovePreserved ==
    ASSUME SkillsInv, NEW c \in SkillCommands, RemovePackage(c) PROVE SkillsInv'
<1>0. PICK s : s = skillCommand[c].skill
  OBVIOUS
<1>1. skillCommand[c] \in SkillCommandType /\ ~AtStep(c, "idle") /\ skillCommand[c].put = {}
  BY DEF SkillsInv, SkillsType, ImportInv, ImportSound, RemovePackage, AtStep, NoCommand
<1>2. s \in SkillNames
  BY <1>0, <1>1 DEF SkillCommandType
<1>3. CASE packages[s] = NoPackage
  <2>1. packages' = packages
    BY <1>0, <1>2, <1>3 DEF RemovePackage, SkillsInv, SkillsType
  <2> QED
    BY <1>0, <1>3, <2>1, EndPreserved DEF RemovePackage, SkillsInv, SkillsType
<1>4. CASE packages[s] # NoPackage
  <2>1. /\ skillCommand' \in [SkillCommands -> SkillCommandType \cup {NoCommand}]
        /\ \A d \in SkillCommands \ {c} : skillCommand'[d] = skillCommand[d]
        /\ skillCommand'[c].step = "forget" /\ skillCommand'[c].put = {}
    BY <1>0, <1>1, <1>4, StepToType DEF RemovePackage, SkillsInv
  <2>2. /\ packages' = [packages EXCEPT ![s] = NoPackage]
        /\ installed' = {p \in installed : p[2] # s}
        /\ removed' = removed \cup {s}
        /\ RobsOthers(c, s)
        /\ UNCHANGED <<skillStates, skillSource, skillProposal, acceptances>>
    BY <1>0, <1>4 DEF RemovePackage
  <2>3. SkillsType'
    BY <1>2, <2>1, <2>2, RobsType DEF SkillsInv, SkillsType
  <2>4. ReviewInv' /\ ImportInv'
    BY <2>1, <2>2 DEF SkillsInv, ReviewInv, ImportInv, ImportSound
  <2>5. installed' \subseteq installed /\ \A d \in SkillCommands : <<d, s>> \notin installed'
    BY <2>2
  <2>6. PlaceInv'
    BY <1>1, <1>2, <2>1, <2>2, <2>5, TakePlace
  <2>7. RobbedInv'
    BY <1>2, <2>2 DEF SkillsInv, RobbedInv, RobsOthers
  <2>8. AcceptInv'
    BY <2>2 DEF SkillsInv, AcceptInv
  <2> QED
    BY <2>3, <2>4, <2>6, <2>7, <2>8 DEF SkillsInv
<1> QED
  BY <1>3, <1>4

\* A command that ends holds nothing any more.
LEMMA EndsKeepsPlace ==
    ASSUME SkillsInv, NEW c \in SkillCommands, CommandEnds(c), packages' = packages,
           installed' = installed, robbed' = robbed
    PROVE  PlaceInv'
<1>1. /\ \A d \in SkillCommands \ {c} : skillCommand'[d] = skillCommand[d]
      /\ skillCommand'[c].step = "idle" /\ skillCommand'[c].put = {}
  BY CommandEndsType DEF NoCommand, SkillsInv
<1>2. \A d \in SkillCommands, s \in SkillNames :
         (Owns(d, s)' => Owns(d, s)) /\ (Verifying(d, s)' => Verifying(d, s))
  BY <1>1, OwnsNoMore
<1> QED
  BY <1>2, PlaceKept

LEMMA ProposePreserved ==
    ASSUME SkillsInv, NEW c \in SkillCommands, ProposeSkill(c) PROVE SkillsInv'
<1>1. skillCommand[c] \in SkillCommandType
  BY DEF SkillsInv, SkillsType, ProposeSkill, AtStep, NoCommand
<1>2. CASE skillProposal # NoProposal
  BY <1>2, EndPreserved DEF ProposeSkill, SkillsInv, SkillsType
<1>3. CASE skillProposal = NoProposal
  <2>1. skillProposal.status = "none"
    BY <1>3 DEF NoProposal
  <2>2. skillCommand[c].skill \in SkillNames
    BY <1>1 DEF SkillCommandType
  <2>3. /\ skillProposal' \in ProposalType
        /\ skillProposal'.status = "pending"
    BY <1>1, <1>3, <2>2 DEF ProposeSkill, ProposalType, SkillCommandType, SkillsInv, SkillsType
  <2>4. /\ UNCHANGED <<packages, acceptances, skillSource, skillStates>> /\ CommandEnds(c)
        /\ UNCHANGED <<installed, robbed, removed>>
    BY DEF ProposeSkill, placeVars
  <2>5. SkillsType'
    BY <2>3, <2>4, CommandEndsType DEF SkillsInv, SkillsType
  <2>6. ReviewInv' /\ ImportInv'
    BY <2>1, <2>3, <2>4, CommandEndsType
       DEF SkillsInv, ReviewInv, ImportInv, ImportSound, NoCommand
  <2>7. PlaceInv'
    BY <2>4, EndsKeepsPlace
  <2>8. RobbedInv' /\ AcceptInv'
    BY <2>1, <2>3, <2>4 DEF SkillsInv, RobbedInv, AcceptInv
  <2> QED
    BY <2>5, <2>6, <2>7, <2>8 DEF SkillsInv
<1> QED
  BY <1>2, <1>3

\* What an installation copies is a content.
LEMMA OfferedType ==
    ASSUME SkillsInv, NEW c \in SkillCommands, skillCommand[c].step \in {"check", "copy", "verify"}
    PROVE  /\ skillCommand[c] \in SkillCommandType /\ skillCommand[c].skill \in SkillNames
           /\ Offered(c) \in Contents
<1>1. skillCommand[c] \in SkillCommandType
  BY DEF SkillsInv, SkillsType, NoCommand
<1>2. skillCommand[c].skill \in SkillNames
  BY <1>1 DEF SkillCommandType
<1>3. CASE skillCommand[c].from = "source"
  BY <1>1, <1>2, <1>3 DEF Offered, SkillsInv, SkillsType
<1>4. CASE skillCommand[c].from = "import"
  <2>1. skillCommand[c].staged \in [SkillNames -> Contents]
    BY <1>4 DEF SkillsInv, ImportInv, ImportSound
  <2> QED
    BY <1>1, <1>2, <1>4, <2>1 DEF Offered
<1>5. CASE skillCommand[c].from \notin {"source", "import"}
  <2>1. skillCommand[c].from = "proposal"
    BY <1>5, Zenon DEF SkillsInv, ReviewInv
  <2>2. skillProposal.status # "none"
    BY <2>1 DEF SkillsInv, ReviewInv
  <2>3. skillProposal \in ProposalType
    BY <2>2 DEF SkillsInv, SkillsType, NoProposal
  <2> QED
    BY <1>1, <1>2, <2>1, <2>3 DEF Offered, ProposalType
<1> QED
  BY <1>3, <1>4, <1>5

LEMMA NextImportPreserved ==
    ASSUME SkillsInv, NEW c \in SkillCommands, NextImport(c) PROVE SkillsInv'
<1>1. CASE skillCommand[c].left = {}
  BY <1>1, EndPreserved DEF NextImport, SkillsInv, SkillsType
<1>2. CASE skillCommand[c].left # {}
  <2>1. PICK s \in skillCommand[c].left :
          skillCommand' = [skillCommand EXCEPT
              ![c] = [skillCommand[c] EXCEPT !.step = "check", !.skill = s,
                          !.left = skillCommand[c].left \ {s},
                          !.expected = skillCommand[c].staged[s]]]
    BY <1>2 DEF NextImport
  <2>2. /\ skillCommand[c].step = "next" /\ skillCommand[c] \in SkillCommandType
        /\ skillCommand[c].from = "import" /\ skillCommand[c].left \cap skillCommand[c].put = {}
        /\ skillCommand[c].staged \in [SkillNames -> Contents]
    <3>1. skillCommand[c].step = "next" /\ ImportSound(skillCommand[c])
      BY DEF NextImport, AtStep, SkillsInv, ImportInv
    <3>2. skillCommand[c] \in SkillCommandType
      BY <3>1 DEF SkillsInv, SkillsType, NoCommand
    <3> QED
      BY <3>1, <3>2 DEF ImportSound
  <2>3. s \in SkillNames /\ skillCommand[c].left \in SUBSET SkillNames
    BY <2>1, <2>2 DEF SkillCommandType
  <2> DEFINE next == [skillCommand[c] EXCEPT !.step = "check", !.skill = s,
                          !.left = skillCommand[c].left \ {s},
                          !.expected = skillCommand[c].staged[s]]
  <2>4. next \in SkillCommandType
    BY <2>2, <2>3 DEF SkillCommandType
  <2>5. /\ next.step = "check" /\ next.from = "import" /\ next.put = skillCommand[c].put
        /\ next.staged = skillCommand[c].staged /\ next.skill = s
        /\ next.left = skillCommand[c].left \ {s}
    BY <2>2 DEF SkillCommandType
  <2>6. ImportSound(next)
    BY <2>1, <2>2, <2>5 DEF ImportSound
  <2>7. /\ skillCommand' \in [SkillCommands -> SkillCommandType \cup {NoCommand}]
        /\ skillCommand'[c] = next
        /\ \A d \in SkillCommands \ {c} : skillCommand'[d] = skillCommand[d]
    BY <2>1, <2>4 DEF SkillsInv, SkillsType
  <2> HIDE DEF next
  <2>8. UNCHANGED <<packages, skillStates, skillSource, skillProposal, installed, robbed,
                    removed, acceptances>>
    BY DEF NextImport, placeVars
  <2>9. ReviewInv' /\ ImportInv' /\ PlaceInv' /\ RobbedInv' /\ AcceptInv'
    BY <2>5, <2>6, <2>7, <2>8, QuietStep
  <2>10. SkillsType'
    BY <2>7, <2>8 DEF SkillsInv, SkillsType
  <2> QED
    BY <2>9, <2>10 DEF SkillsInv
<1> QED
  BY <1>1, <1>2

LEMMA CheckPreserved ==
    ASSUME SkillsInv, NEW c \in SkillCommands, CheckCandidate(c) PROVE SkillsInv'
<1>0. skillCommand[c].step = "check" /\ ~AtStep(c, "idle")
  BY DEF CheckCandidate, AtStep
<1>1. CASE InstallFails(c)
  BY <1>0, <1>1, FailPreserved DEF CheckCandidate
<1>2. CASE StepTo(c, "copy")
  <2>2. /\ skillCommand' \in [SkillCommands -> SkillCommandType \cup {NoCommand}]
        /\ skillCommand'[c] = [skillCommand[c] EXCEPT !.step = "copy"]
        /\ skillCommand[c] \in SkillCommandType
        /\ \A d \in SkillCommands \ {c} : skillCommand'[d] = skillCommand[d]
    BY <1>0, <1>2, StepToType DEF SkillsInv
  <2>3. /\ skillCommand'[c].step = "copy"
        /\ skillCommand'[c].from = skillCommand[c].from
        /\ skillCommand'[c].record = skillCommand[c].record
        /\ skillCommand'[c].skill = skillCommand[c].skill
        /\ skillCommand'[c].put = skillCommand[c].put
        /\ skillCommand'[c].left = skillCommand[c].left
        /\ skillCommand'[c].staged = skillCommand[c].staged
    BY <2>2 DEF SkillCommandType
  <2>4. /\ skillCommand[c].from \in {"source", "proposal", "import"}
        /\ skillCommand[c].from = "proposal"
           => /\ skillProposal.status # "none" /\ skillCommand[c].skill = skillProposal.skill
              /\ skillCommand[c].record = "accepted"
    BY <1>0 DEF SkillsInv, ReviewInv
  <2>5. ImportSound(skillCommand'[c])
    BY <1>0, <2>3 DEF SkillsInv, ImportInv, ImportSound
  <2>6. UNCHANGED <<installed, robbed, removed>>
    BY DEF CheckCandidate, placeVars
  <2>7. ReviewInv' /\ ImportInv' /\ PlaceInv' /\ RobbedInv' /\ AcceptInv'
    BY <2>2, <2>3, <2>4, <2>5, <2>6, QuietStep DEF CheckCandidate
  <2>8. SkillsType'
    BY <2>2, <2>6 DEF CheckCandidate, SkillsInv, SkillsType
  <2> QED
    BY <2>7, <2>8 DEF SkillsInv
<1> QED
  BY <1>1, <1>2 DEF CheckCandidate

LEMMA CopyPreserved ==
    ASSUME SkillsInv, NEW c \in SkillCommands, CopyPackage(c) PROVE SkillsInv'
<1>0. PICK s : s = skillCommand[c].skill
  OBVIOUS
<1>1. /\ skillCommand[c].step = "copy" /\ ~AtStep(c, "idle")
      /\ UNCHANGED <<skillStates, skillSource, skillProposal, acceptances>>
      /\ UNCHANGED <<installed, robbed, removed>>
  BY DEF CopyPackage, AtStep, placeVars
<1>2. s \in SkillNames /\ Offered(c) \in Contents
  BY <1>0, <1>1, OfferedType
<1>3. CASE packages[s] # NoPackage
  <2>1. UNCHANGED packages /\ InstallFails(c)
    BY <1>0, <1>2, <1>3 DEF CopyPackage, AfterRefusedCopy, SkillsInv, SkillsType
  <2> QED
    BY <1>1, <2>1, FailPreserved DEF placeVars
<1>4. CASE packages[s] = NoPackage
  <2>1. packages' = [packages EXCEPT ![s] = Offered(c)] /\ StepTo(c, "verify")
    BY <1>0, <1>4 DEF CopyPackage
  <2>2. /\ skillCommand' \in [SkillCommands -> SkillCommandType \cup {NoCommand}]
        /\ skillCommand'[c] = [skillCommand[c] EXCEPT !.step = "verify"]
        /\ skillCommand[c] \in SkillCommandType
        /\ \A d \in SkillCommands \ {c} : skillCommand'[d] = skillCommand[d]
    BY <1>1, <2>1, StepToType DEF SkillsInv
  <2>3. /\ skillCommand'[c].step = "verify"
        /\ skillCommand'[c].from = skillCommand[c].from
        /\ skillCommand'[c].record = skillCommand[c].record
        /\ skillCommand'[c].skill = s
        /\ skillCommand'[c].put = skillCommand[c].put
        /\ skillCommand'[c].left = skillCommand[c].left
        /\ skillCommand'[c].staged = skillCommand[c].staged
    BY <1>0, <2>2 DEF SkillCommandType
  <2>4. SkillsType'
    BY <1>1, <1>2, <2>1, <2>2 DEF SkillsInv, SkillsType
  <2>5. ReviewInv' /\ ImportInv'
    <3>1. ASSUME NEW d \in SkillCommands \ {c} PROVE skillCommand'[d] = skillCommand[d]
      BY <2>2, <3>1
    <3>2. /\ skillCommand[c].from \in {"source", "proposal", "import"}
          /\ skillCommand[c].from = "proposal"
             => /\ skillProposal.status # "none" /\ s = skillProposal.skill
                /\ skillCommand[c].record = "accepted"
      BY <1>0, <1>1 DEF SkillsInv, ReviewInv
    <3>3. ReviewInv'
      BY <1>1, <2>3, <3>1, <3>2 DEF SkillsInv, ReviewInv
    <3>4. ImportSound(skillCommand'[c])
      BY <1>0, <1>1, <2>3 DEF SkillsInv, ImportInv, ImportSound
    <3> QED
      BY <3>1, <3>3, <3>4 DEF SkillsInv, ImportInv
  <2>6. PlaceInv'
    <3>1. ASSUME NEW t \in SkillNames \ {s}, NEW d \in SkillCommands
          PROVE  /\ packages'[t] = packages[t] /\ (Owns(d, t)' <=> Owns(d, t))
                 /\ (Verifying(d, t)' <=> Verifying(d, t))
      BY <1>0, <1>1, <2>1, <2>2, <2>3, <3>1 DEF Verifying, Holds, Owns, SkillsInv, SkillsType
    <3>2. packages'[s] # NoPackage
      BY <1>2, <2>1, SkillsAssumption DEF SkillsInv, SkillsType
    <3>3. ASSUME NEW d \in SkillCommands
          PROVE  <<d, s>> \notin installed /\ (d # c => ~Owns(d, s)')
      BY <1>1, <1>2, <1>4, <2>2 DEF SkillsInv, PlaceInv, Owns, Holds, Verifying
    <3> SUFFICES ASSUME NEW t \in SkillNames, NEW d \in SkillCommands, NEW e \in SkillCommands
                 PROVE  /\ <<d, t>> \in installed' \/ Owns(d, t)' => packages'[t] # NoPackage
                        /\ Owns(d, t)' /\ Owns(e, t)' => d = e
                        /\ Owns(d, t)' /\ <<e, t>> \in installed' => d = e /\ ~Verifying(d, t)'
      BY DEF PlaceInv
    <3>4. CASE t = s
      BY <1>1, <3>2, <3>3, <3>4
    <3>5. CASE t # s
      BY <1>1, <3>1, <3>5 DEF SkillsInv, PlaceInv
    <3> QED
      BY <3>4, <3>5
  <2>7. RobbedInv' /\ AcceptInv'
    BY <1>1 DEF SkillsInv, RobbedInv, AcceptInv
  <2> QED
    BY <2>4, <2>5, <2>6, <2>7 DEF SkillsInv
<1> QED
  BY <1>3, <1>4

\* What a command goes on to when its copy stays.
LEMMA StaysType ==
    ASSUME SkillsInv, NEW c \in SkillCommands, NEW s \in SkillNames,
           skillCommand[c].step = "verify", skillCommand[c].skill = s, CopyStays(c, s)
    PROVE  /\ skillCommand' \in [SkillCommands -> SkillCommandType \cup {NoCommand}]
           /\ \A d \in SkillCommands \ {c} : skillCommand'[d] = skillCommand[d]
           /\ skillCommand'[c].step \in {"idle", "record", "next"}
           /\ skillCommand'[c].put \subseteq skillCommand[c].put \cup {s}
           /\ ImportSound(skillCommand'[c])
           /\ skillCommand'[c].step = "record" <=> skillCommand[c].from = "proposal"
           /\ skillCommand[c].from = "proposal"
              => skillCommand'[c].record = skillCommand[c].record
<1>0. /\ skillCommand[c] \in SkillCommandType /\ ~AtStep(c, "idle") /\ SkillsType
      /\ skillCommand[c].from \in {"source", "proposal", "import"}
  BY DEF SkillsInv, SkillsType, NoCommand, AtStep, ReviewInv
<1>1. CASE skillCommand[c].from = "source"
  <2>1. CommandEnds(c)
    BY <1>1 DEF CopyStays
  <2> QED
    BY <1>0, <1>1, <2>1, CommandEndsType DEF NoCommand, ImportSound
<1>2. CASE skillCommand[c].from = "proposal"
  <2>1. StepTo(c, "record")
    BY <1>2 DEF CopyStays
  <2> QED
    BY <1>0, <1>2, <2>1, StepToType DEF ImportSound
<1>3. CASE skillCommand[c].from = "import"
  <2> DEFINE next == [skillCommand[c] EXCEPT !.step = "next",
                                             !.put = skillCommand[c].put \cup {s}]
  <2>1. skillCommand' = [skillCommand EXCEPT ![c] = next]
    BY <1>3 DEF CopyStays
  <2>2. next \in SkillCommandType
    BY <1>0 DEF SkillCommandType
  <2>3. /\ next.step = "next" /\ next.from = "import"
        /\ next.put = skillCommand[c].put \cup {s}
        /\ next.left = skillCommand[c].left /\ next.staged = skillCommand[c].staged
    BY <1>0, <1>3 DEF SkillCommandType
  <2>4. ImportSound(skillCommand[c])
    BY DEF SkillsInv, ImportInv
  <2>5. ImportSound(next)
    BY <1>3, <2>3, <2>4 DEF ImportSound
  <2> HIDE DEF next
  <2> QED
    BY <1>0, <1>3, <2>1, <2>2, <2>3, <2>5 DEF SkillsType
<1> QED
  BY <1>0, <1>1, <1>2, <1>3

\* The copy is what was reviewed: it stays, a review goes on to its record and an import
\* to its next skill.
LEMMA RightCopyPreserved ==
    ASSUME SkillsInv, NEW c \in SkillCommands, VerifyCopy(c),
           packages[skillCommand[c].skill] = skillCommand[c].expected
    PROVE  SkillsInv'
<1> DEFINE reviewed == skillCommand[c].from = "proposal"
<1>0. PICK s \in SkillNames : s = skillCommand[c].skill
  BY OfferedType DEF VerifyCopy, AtStep
<1>1. /\ skillCommand[c].step = "verify" /\ CopyStays(c, s)
      /\ UNCHANGED <<skillStates, skillSource, skillProposal>>
  BY <1>0 DEF VerifyCopy, AtStep
<1>2. /\ UNCHANGED <<packages, robbed, removed>>
      /\ installed' = IF <<c, s>> \in robbed THEN installed ELSE installed \cup {<<c, s>>}
      /\ acceptances' = IF reviewed THEN acceptances + 1 ELSE acceptances
  BY <1>1 DEF CopyStays
<1>3. /\ skillCommand' \in [SkillCommands -> SkillCommandType \cup {NoCommand}]
      /\ \A d \in SkillCommands \ {c} : skillCommand'[d] = skillCommand[d]
      /\ skillCommand'[c].step \in {"idle", "record", "next"}
      /\ skillCommand'[c].put \subseteq skillCommand[c].put \cup {s}
      /\ ImportSound(skillCommand'[c])
      /\ skillCommand'[c].step = "record" <=> reviewed
      /\ reviewed => skillCommand'[c].record = skillCommand[c].record
  BY <1>0, <1>1, StaysType
<1>4. Verifying(c, s) /\ Holds(c, s)
  BY <1>0, <1>1 DEF Verifying, Holds
<1>5. reviewed => /\ skillProposal.status # "none" /\ skillProposal.skill = s
                  /\ skillCommand[c].record = "accepted"
  BY <1>0, <1>1 DEF SkillsInv, ReviewInv
<1>6. <<c, s>> \notin robbed
      => /\ \A d \in SkillCommands : <<d, s>> \notin installed
         /\ packages[s] # NoPackage
  BY <1>4 DEF Owns, SkillsInv, PlaceInv
<1>7. SkillsType'
  <2>1. acceptances' \in Nat
    BY <1>2 DEF SkillsInv, SkillsType
  <2>2. installed' \in SUBSET (SkillCommands \X SkillNames)
    BY <1>2 DEF SkillsInv, SkillsType
  <2> QED
    BY <1>1, <1>2, <1>3, <2>1, <2>2 DEF SkillsInv, SkillsType
<1>8. ReviewInv' /\ ImportInv'
  <2>1. ASSUME NEW d \in SkillCommands \ {c} PROVE skillCommand'[d] = skillCommand[d]
    BY <1>3, <2>1
  <2>2. acceptances' >= acceptances /\ (reviewed => acceptances' > 0)
    BY <1>2 DEF SkillsInv, SkillsType
  <2>3. acceptances \in Nat /\ acceptances' \in Nat
    BY <1>7 DEF SkillsInv, SkillsType
  <2>4. ReviewInv'
    BY <1>1, <1>3, <1>5, <2>1, <2>2, <2>3 DEF SkillsInv, ReviewInv
  <2> QED
    BY <1>3, <2>1, <2>4 DEF SkillsInv, ImportInv
<1>9. PlaceInv'
  <2>1. ASSUME NEW d \in SkillCommands, NEW t \in SkillNames
        PROVE  /\ Owns(d, t)' => Owns(d, t)
               /\ Verifying(d, t)' => Verifying(d, t) /\ d # c
    <3>1. CASE d = c
      BY <1>2, <1>3, <1>4, <3>1 DEF Owns, Holds, Verifying
    <3>2. CASE d # c
      <4>1. skillCommand'[d] = skillCommand[d]
        BY <1>3, <3>2
      <4> QED
        BY <1>2, <3>2, <4>1 DEF Owns, Holds, Verifying
    <3> QED
      BY <3>1, <3>2
  <2>2. CASE <<c, s>> \in robbed
    <3>1. installed' \subseteq installed
      BY <1>2, <2>2
    <3> QED
      BY <1>2, <2>1, <3>1, PlaceKept
  <2>3. CASE <<c, s>> \notin robbed
    <3> SUFFICES ASSUME NEW t \in SkillNames, NEW d \in SkillCommands, NEW e \in SkillCommands
                 PROVE  /\ <<d, t>> \in installed' \/ Owns(d, t)' => packages'[t] # NoPackage
                        /\ Owns(d, t)' /\ Owns(e, t)' => d = e
                        /\ Owns(d, t)' /\ <<e, t>> \in installed' => d = e /\ ~Verifying(d, t)'
      BY DEF PlaceInv
    <3>1. /\ <<d, t>> \in installed \/ Owns(d, t) => packages[t] # NoPackage
          /\ Owns(d, t) /\ Owns(e, t) => d = e
          /\ Owns(d, t) /\ <<e, t>> \in installed => d = e /\ ~Verifying(d, t)
      BY DEF SkillsInv, PlaceInv
    <3>2. Owns(c, s) /\ (t = s /\ Owns(d, t) => d = c)
      BY <1>4, <2>3 DEF Owns, SkillsInv, PlaceInv
    <3>3. \A f \in SkillCommands : <<f, t>> \in installed' => <<f, t>> \in installed \/ (f = c /\ t = s)
      BY <1>2
    <3>4. /\ Owns(d, t)' => Owns(d, t)
          /\ Owns(e, t)' => Owns(e, t)
          /\ Verifying(d, t)' => Verifying(d, t) /\ d # c
      BY <2>1
    <3> QED
      BY <1>2, <1>6, <2>3, <3>1, <3>2, <3>3, <3>4
  <2> QED
    BY <2>2, <2>3
<1>10. RobbedInv'
  BY <1>2 DEF SkillsInv, RobbedInv
<1>11. AcceptInv'
  <2>1. acceptances \in Nat
    BY DEF SkillsInv, SkillsType
  <2>2. CASE reviewed
    <3>1. acceptances' = acceptances + 1 /\ skillProposal.skill = s
      BY <1>2, <1>5, <2>2
    <3>2. s \notin removed => <<c, s>> \in installed' /\ acceptances = 0
      <4>1. s \notin removed => <<c, s>> \notin robbed
        BY DEF SkillsInv, RobbedInv
      <4>2. s \notin removed => ~(acceptances > 0)
        BY <1>6, <3>1, <4>1 DEF SkillsInv, AcceptInv
      <4> QED
        BY <1>2, <2>1, <4>1, <4>2
    <3> QED
      BY <1>1, <1>2, <1>5, <2>1, <2>2, <3>1, <3>2 DEF SkillsInv, AcceptInv
  <2>3. CASE ~reviewed
    <3>1. acceptances' = acceptances /\ installed \subseteq installed'
      BY <1>2, <2>3
    <3> QED
      BY <1>1, <1>2, <3>1 DEF SkillsInv, AcceptInv
  <2> QED
    BY <2>2, <2>3
<1> QED
  BY <1>7, <1>8, <1>9, <1>10, <1>11 DEF SkillsInv

\* A command that fails has the import's undoing before it, or is over.
LEMMA FailsType ==
    ASSUME SkillsType, NEW c \in SkillCommands, ~AtStep(c, "idle"), InstallFails(c)
    PROVE  /\ skillCommand' \in [SkillCommands -> SkillCommandType \cup {NoCommand}]
           /\ \A d \in SkillCommands \ {c} : skillCommand'[d] = skillCommand[d]
           /\ skillCommand'[c].step \in {"idle", "undo"}
           /\ skillCommand'[c].put \subseteq skillCommand[c].put
<1>1. CASE skillCommand[c].from = "import"
  BY <1>1, StepToType DEF InstallFails
<1>2. CASE skillCommand[c].from # "import"
  BY <1>2, CommandEndsType DEF InstallFails, NoCommand
<1> QED
  BY <1>1, <1>2

\* The copy is not what was reviewed: its command takes it away, and takes away no
\* other's that stands unless its own had been taken away.
LEMMA WrongCopyPreserved ==
    ASSUME SkillsInv, NEW c \in SkillCommands, VerifyCopy(c),
           packages[skillCommand[c].skill] # skillCommand[c].expected
    PROVE  SkillsInv'
<1>0. PICK s \in SkillNames : s = skillCommand[c].skill
  BY OfferedType DEF VerifyCopy, AtStep
<1>1. /\ skillCommand[c].step = "verify" /\ ~AtStep(c, "idle") /\ CopyTaken(c, s)
      /\ UNCHANGED <<skillStates, skillSource, skillProposal>>
  BY <1>0 DEF VerifyCopy, AtStep
<1>2. /\ packages' = [packages EXCEPT ![s] = NoPackage]
      /\ Loses(c, s) /\ RobsOthers(c, s) /\ InstallFails(c)
      /\ UNCHANGED <<removed, acceptances>>
  BY <1>1 DEF CopyTaken
<1>3. Verifying(c, s) /\ Holds(c, s) /\ s \notin skillCommand[c].put
  BY <1>0, <1>1 DEF Verifying, Holds, SkillsInv, ImportInv, ImportSound
<1>4. /\ skillCommand' \in [SkillCommands -> SkillCommandType \cup {NoCommand}]
      /\ \A d \in SkillCommands \ {c} : skillCommand'[d] = skillCommand[d]
      /\ skillCommand'[c].step \in {"idle", "undo"}
      /\ skillCommand'[c].put \subseteq skillCommand[c].put
  BY <1>1, <1>2, FailsType DEF SkillsInv
<1>5. /\ installed' \subseteq installed
      /\ installed' \in SUBSET (SkillCommands \X SkillNames)
      /\ \A d \in SkillCommands : <<d, s>> \notin installed'
      /\ \A d \in SkillCommands, t \in SkillNames :
            <<d, t>> \in installed /\ t # s => <<d, t>> \in installed'
  BY <1>2, <1>3, LosesPlace
<1>6. SkillsType'
  BY <1>1, <1>2, <1>4, <1>5, RobsType DEF SkillsInv, SkillsType
<1>7. ReviewInv' /\ ImportInv'
  <2>1. ReviewInv'
    BY <1>1, <1>2, <1>4 DEF SkillsInv, ReviewInv
  <2>2. ImportSound(skillCommand'[c])
    BY <1>4 DEF ImportSound
  <2> QED
    BY <1>4, <2>1, <2>2 DEF SkillsInv, ImportInv
<1>8. PlaceInv'
  BY <1>2, <1>3, <1>4, <1>5, TakePlace
<1>9. RobbedInv'
  <2>1. ASSUME NEW d \in SkillCommands \ {c}, Holds(d, s) PROVE s \in removed
    <3>1. <<c, s>> \in robbed \/ <<d, s>> \in robbed
      BY <1>3, <2>1 DEF Owns, SkillsInv, PlaceInv
    <3> QED
      BY <3>1 DEF SkillsInv, RobbedInv
  <2> QED
    BY <1>2, <2>1 DEF RobsOthers, SkillsInv, RobbedInv
<1>10. AcceptInv'
  <2>1. s \notin removed => \A d \in SkillCommands : <<d, s>> \notin installed
    BY <1>3 DEF SkillsInv, RobbedInv, PlaceInv, Owns
  <2>2. acceptances > 0 => skillProposal.skill \in SkillNames
    <3>1. acceptances > 0 => skillProposal \in ProposalType
      BY DEF SkillsInv, SkillsType, AcceptInv, NoProposal
    <3> QED
      BY <3>1 DEF ProposalType
  <2> QED
    BY <1>1, <1>2, <1>5, <2>1, <2>2 DEF SkillsInv, AcceptInv
<1> QED
  BY <1>6, <1>7, <1>8, <1>9, <1>10 DEF SkillsInv

LEMMA UndoPreserved ==
    ASSUME SkillsInv, NEW c \in SkillCommands, UndoImport(c) PROVE SkillsInv'
<1>0. /\ skillCommand[c].step = "undo" /\ skillCommand[c] \in SkillCommandType
      /\ UNCHANGED <<skillStates, skillSource, skillProposal, acceptances>>
  BY DEF UndoImport, AtStep, SkillsInv, SkillsType, NoCommand
<1>1. CASE skillCommand[c].put = {}
  BY <1>0, <1>1, EndPreserved DEF UndoImport, SkillsInv, SkillsType
<1>2. CASE skillCommand[c].put # {}
  <2>1. PICK s \in skillCommand[c].put :
          /\ packages' = [packages EXCEPT ![s] = NoPackage]
          /\ Loses(c, s) /\ RobsOthers(c, s) /\ removed' = removed \cup {s}
          /\ skillCommand' = [skillCommand EXCEPT ![c].put = skillCommand[c].put \ {s}]
    BY <1>2 DEF UndoImport
  <2>2. s \in SkillNames /\ Holds(c, s)
    BY <1>0 DEF SkillCommandType, Holds
  <2> DEFINE next == [skillCommand[c] EXCEPT !.put = skillCommand[c].put \ {s}]
  <2>3. /\ next \in SkillCommandType /\ next.put = skillCommand[c].put \ {s}
        /\ next.step = "undo"
    BY <1>0 DEF SkillCommandType
  <2>4. skillCommand' = [skillCommand EXCEPT ![c] = next]
    BY <2>1
  <2> HIDE DEF next
  <2>5. /\ skillCommand' \in [SkillCommands -> SkillCommandType \cup {NoCommand}]
        /\ \A d \in SkillCommands \ {c} : skillCommand'[d] = skillCommand[d]
        /\ skillCommand'[c].step = "undo" /\ skillCommand'[c].put = skillCommand[c].put \ {s}
        /\ ImportSound(skillCommand'[c])
    BY <2>3, <2>4 DEF SkillsInv, SkillsType, ImportSound
  <2>6. /\ installed' \subseteq installed
        /\ installed' \in SUBSET (SkillCommands \X SkillNames)
        /\ \A d \in SkillCommands : <<d, s>> \notin installed'
        /\ \A d \in SkillCommands, t \in SkillNames :
              <<d, t>> \in installed /\ t # s => <<d, t>> \in installed'
    BY <2>1, <2>2, LosesPlace
  <2>7. SkillsType'
    BY <1>0, <2>1, <2>2, <2>5, <2>6, RobsType DEF SkillsInv, SkillsType
  <2>8. ReviewInv' /\ ImportInv'
    BY <1>0, <2>5 DEF SkillsInv, ReviewInv, ImportInv
  <2>9. PlaceInv'
    BY <2>1, <2>2, <2>5, <2>6, TakePlace
  <2>10. RobbedInv'
    BY <2>1, <2>2 DEF RobsOthers, SkillsInv, RobbedInv
  <2>11. AcceptInv'
    <3>1. acceptances > 0 => skillProposal.skill \in SkillNames
      <4>1. acceptances > 0 => skillProposal \in ProposalType
        BY DEF SkillsInv, SkillsType, AcceptInv, NoProposal
      <4> QED
        BY <4>1 DEF ProposalType
    <3> QED
      BY <1>0, <2>1, <2>6, <3>1 DEF SkillsInv, AcceptInv
  <2> QED
    BY <2>7, <2>8, <2>9, <2>10, <2>11 DEF SkillsInv
<1> QED
  BY <1>1, <1>2

LEMMA RecordPreserved ==
    ASSUME SkillsInv, NEW c \in SkillCommands, RecordReview(c) PROVE SkillsInv'
<1>1. /\ skillCommand[c].step = "record" /\ CommandEnds(c)
      /\ UNCHANGED <<packages, skillStates, skillSource, acceptances>>
      /\ UNCHANGED <<installed, robbed, removed>>
      /\ skillProposal' = [skillProposal EXCEPT !.status = skillCommand[c].record]
  BY DEF RecordReview, AtStep, placeVars
<1>2. skillCommand[c] \in SkillCommandType /\ skillProposal \in ProposalType
  BY <1>1 DEF SkillsInv, SkillsType, ReviewInv, NoCommand, NoProposal
<1>3. /\ skillProposal'.status = skillCommand[c].record
      /\ skillProposal'.skill = skillProposal.skill
  BY <1>1, <1>2 DEF ProposalType
<1>4. /\ skillCommand[c].record \in {"accepted", "rejected"} /\ skillProposal.status # "none"
      /\ skillCommand[c].record = "accepted" => acceptances > 0
  BY <1>1 DEF SkillsInv, ReviewInv
<1>5. skillProposal' \in ProposalType /\ skillProposal'.status # "none"
  BY <1>1, <1>2, <1>3, <1>4 DEF ProposalType
<1>6. SkillsType'
  BY <1>1, <1>5, CommandEndsType DEF SkillsInv, SkillsType
<1>7. ReviewInv' /\ ImportInv'
  BY <1>1, <1>3, <1>5, CommandEndsType
     DEF SkillsInv, ReviewInv, ImportInv, ImportSound, NoCommand
<1>8. PlaceInv'
  BY <1>1, EndsKeepsPlace
<1>9. RobbedInv' /\ AcceptInv'
  BY <1>1, <1>3, <1>4, <1>5 DEF SkillsInv, RobbedInv, AcceptInv
<1> QED
  BY <1>6, <1>7, <1>8, <1>9 DEF SkillsInv

LEMMA EditPreserved ==
    ASSUME SkillsInv, NEW s \in SkillNames, NEW content \in Contents, EditPackage(s, content)
    PROVE  SkillsInv'
<1>1. /\ UNCHANGED <<skillStates, skillProposal, skillCommand, acceptances>>
      /\ UNCHANGED <<installed, robbed, removed>>
  BY DEF EditPackage, placeVars
<1>2. /\ packages' \in [SkillNames -> Contents \cup {NoPackage}]
      /\ skillSource' \in [SkillNames -> Contents]
      /\ \A t \in SkillNames : packages[t] # NoPackage => packages'[t] # NoPackage
  BY SkillsAssumption DEF EditPackage, SkillsInv, SkillsType
<1>3. SkillsType'
  BY <1>1, <1>2 DEF SkillsInv, SkillsType
<1>4. ReviewInv' /\ ImportInv' /\ RobbedInv' /\ AcceptInv'
  BY <1>1 DEF SkillsInv, ReviewInv, ImportInv, RobbedInv, AcceptInv
<1>5. PlaceInv'
  BY <1>1, <1>2, PlaceKept DEF Owns, Holds, Verifying
<1> QED
  BY <1>3, <1>4, <1>5 DEF SkillsInv

LEMMA SkillsInvPreserved == SkillsInv /\ [SkillsNext]_skillsVars => SkillsInv'
<1> SUFFICES ASSUME SkillsInv, [SkillsNext]_skillsVars PROVE SkillsInv'
  OBVIOUS
<1>1. ASSUME NEW c \in SkillCommands, NEW s \in SkillNames,
             \/ AskState(c, s) \/ AskRemove(c, s) \/ AskPropose(c, s)
             \/ \E digest \in Contents : AskInstall(c, s, digest)
      PROVE  SkillsInv'
  BY <1>1, AskPreserved
<1>2. ASSUME NEW c \in SkillCommands,
             \/ \E verdict \in {"accepted", "rejected"} : AskReview(c, verdict)
             \/ \E names \in SUBSET SkillNames : AskImport(c, names)
      PROVE  SkillsInv'
  BY <1>2, AskReviewPreserved, AskImportPreserved
<1>3. ASSUME NEW c \in SkillCommands, SetState(c) \/ ForgetState(c) PROVE SkillsInv'
  BY <1>3, SetStatePreserved, ForgetStatePreserved
<1>4. ASSUME NEW c \in SkillCommands, RemovePackage(c) \/ ProposeSkill(c) PROVE SkillsInv'
  BY <1>4, RemovePreserved, ProposePreserved
<1>5. ASSUME NEW c \in SkillCommands, NextImport(c) \/ CheckCandidate(c) \/ CopyPackage(c)
      PROVE  SkillsInv'
  BY <1>5, NextImportPreserved, CheckPreserved, CopyPreserved
<1>6. ASSUME NEW c \in SkillCommands, VerifyCopy(c) PROVE SkillsInv'
  BY <1>6, RightCopyPreserved, WrongCopyPreserved
<1>7. ASSUME NEW c \in SkillCommands, UndoImport(c) \/ RecordReview(c) PROVE SkillsInv'
  BY <1>7, UndoPreserved, RecordPreserved
<1>8. ASSUME NEW c \in SkillCommands, CommandDies(c) PROVE SkillsInv'
  BY <1>8, EndPreserved DEF CommandDies, SkillsInv, SkillsType
<1>9. ASSUME NEW s \in SkillNames, NEW content \in Contents, EditPackage(s, content)
      PROVE  SkillsInv'
  BY <1>9, EditPreserved
<1>10. CASE UNCHANGED skillsVars
  <2>1. /\ UNCHANGED <<packages, skillStates, skillSource, skillProposal, skillCommand>>
        /\ UNCHANGED <<installed, robbed, removed, acceptances>>
    BY <1>10 DEF skillsVars
  <2>2. SkillsType' /\ ReviewInv' /\ ImportInv'
    BY <2>1 DEF SkillsInv, SkillsType, ReviewInv, ImportInv
  <2>3. PlaceInv'
    BY <2>1, PlaceKept DEF Owns, Holds, Verifying
  <2>4. RobbedInv' /\ AcceptInv'
    BY <2>1 DEF SkillsInv, RobbedInv, AcceptInv
  <2> QED
    BY <2>2, <2>3, <2>4 DEF SkillsInv
<1> QED
  BY <1>1, <1>2, <1>3, <1>4, <1>5, <1>6, <1>7, <1>8, <1>9, <1>10 DEF SkillsNext

\* In every reachable state the invariant holds: a skill has one command that may yet take
\* it away, and none but the import that put it once its installation stands; only the
\* commands whose copy was taken away from under them are outside it.
THEOREM SkillsInvariant == SkillsSpec => []SkillsInv
  BY InitSkillsInv, SkillsInvPreserved, PTL DEF SkillsSpec

\* What an installation has put in place is there until a removal, the handler of its own
\* import, or a command whose own copy had been taken away takes it away; and reviewers who
\* accept a proposal side by side install it once between them while nothing removes it.
THEOREM InstallationsHold == SkillsSpec => []InstallsHold
<1>1. SkillsInv => InstalledStays
  <2> SUFFICES ASSUME SkillsInv, NEW p \in installed PROVE packages[p[2]] # NoPackage
    BY DEF InstalledStays
  <2>1. PICK c \in SkillCommands, s \in SkillNames : p = <<c, s>>
    BY DEF SkillsInv, SkillsType
  <2> QED
    BY <2>1 DEF SkillsInv, PlaceInv
<1>2. SkillsInv => AcceptedOnce
  <2> SUFFICES ASSUME SkillsInv PROVE AcceptedOnce
    OBVIOUS
  <2>1. acceptances > 0 => skillProposal.skill \in SkillNames
    <3>1. acceptances > 0 => skillProposal \in ProposalType
      BY DEF SkillsInv, SkillsType, AcceptInv, NoProposal
    <3> QED
      BY <3>1 DEF ProposalType
  <2> QED
    BY <2>1 DEF SkillsInv, SkillsType, AcceptInv, AcceptedOnce
<1> QED
  BY <1>1, <1>2, SkillsInvariant, PTL DEF InstallsHold
-----------------------------------------------------------------------------

\* McpTasks and McpConnections.

TaskStates == {"none", "working", "input_required"} \union TaskFinal

HandleRecords == [status : TaskStates, outstanding : SUBSET TaskKeys,
                  answered : SUBSET TaskKeys, cancel : BOOLEAN]

ReadingRecords == [pc : {"idle", "paging", "listening", "listed", "answered", "refused"},
                   pages : Nat, bytes : Nat, events : Nat, limit : Nat]

TaskRecords == [status : TaskStates, asked : SUBSET TaskKeys, outstanding : SUBSET TaskKeys,
                received : Seq(TaskKeys), cancel : BOOLEAN]

ClientRecords == [pc : {"idle", "save", "send", "mark", "intent"}, holds : HandleRecords,
                  keys : SUBSET TaskKeys]

McpType ==
    /\ reading \in ReadingRecords /\ pagesOfServer \in Nat
    /\ task \in TaskRecords /\ handle \in HandleRecords
    /\ client \in [Clients -> ClientRecords]

\* What a handle says happened to a task.
Happened(h, t) ==
    /\ h.answered \subseteq ToSet(t.received)
    /\ h.cancel => t.cancel
    /\ h.status \in TaskFinal => h.status = t.status

\* What a process is about to save, or to mark, happened.
ClientInv ==
    \A c \in Clients :
        /\ client[c].pc = "save" => Happened(client[c].holds, task)
        /\ client[c].pc = "mark" => client[c].keys \subseteq ToSet(task.received)
        /\ client[c].pc = "intent" => task.cancel

McpInv == McpType /\ ListingWhole /\ Happened(handle, task) /\ ClientInv

\* What happened to a task stays so.
Grows(t, u) ==
    /\ ToSet(t.received) \subseteq ToSet(u.received)
    /\ t.cancel => u.cancel
    /\ t.status \in TaskFinal => u.status = t.status
-----------------------------------------------------------------------------
\* SetToSeq lists a finite set.
LEMMA SetToSeqLists ==
    ASSUME NEW S, IsFiniteSet(S)
    PROVE  SetToSeq(S) \in Seq(S) /\ ToSet(SetToSeq(S)) = S
<1> DEFINE n == Cardinality(S)
<1>1. n \in Nat /\ \E f : f \in Bijection(1..n, S)
  BY FS_CardinalityType DEF ExistsBijection
<1>2. PICK f \in Bijection(1..n, S) : TRUE
  BY <1>1
<1>3. f \in [1..n -> S] /\ IsInjective(f)
  BY <1>2 DEF Bijection, Injection, IsInjective
<1>4. SetToSeq(S) \in [1..n -> S] /\ IsInjective(SetToSeq(S))
  BY <1>3 DEF SetToSeq
<1>5. SetToSeq(S) \in Injection(1..n, S) /\ Cardinality(1..n) = n
  BY <1>1, <1>4, FS_Interval DEF Injection
<1>6. SetToSeq(S) \in Surjection(1..n, S)
  BY <1>5, FS_Injection
<1>7. \A e \in S : \E i \in 1..n : SetToSeq(S)[i] = e
  BY <1>6 DEF Surjection
<1>8. DOMAIN SetToSeq(S) = 1..n
  BY <1>4
<1>9. ToSet(SetToSeq(S)) = S
  BY <1>4, <1>7, <1>8 DEF ToSet
<1> QED
  BY <1>1, <1>4, <1>9
-----------------------------------------------------------------------------
LEMMA InitMcpInv == McpConnectionsInit /\ McpTasksInit => McpInv
<1> SUFFICES ASSUME McpConnectionsInit, McpTasksInit PROVE McpInv
  OBVIOUS
<1>1. reading \in ReadingRecords /\ ListingWhole /\ pagesOfServer \in Nat
  BY McpConnectionsAssumption DEF McpConnectionsInit, NoReading, ReadingRecords, ListingWhole
<1>2. <<>> \in Seq(TaskKeys)
  OBVIOUS
<1>3. NoHandle \in HandleRecords /\ Happened(NoHandle, task)
  BY DEF McpTasksInit, NoHandle, HandleRecords, TaskStates, TaskFinal, Happened
<1>4. task \in TaskRecords
  BY <1>2 DEF McpTasksInit, NoTask, TaskStates, TaskRecords
<1>5. [pc |-> "idle", holds |-> NoHandle, keys |-> {}] \in ClientRecords
  BY <1>3 DEF ClientRecords
<1>6. /\ client \in [Clients -> ClientRecords]
      /\ handle = NoHandle /\ \A c \in Clients : client[c].pc = "idle"
  BY <1>5 DEF McpTasksInit
<1> QED
  BY <1>1, <1>3, <1>4, <1>6 DEF McpInv, McpType, ClientInv

\* A step of the client to the server: its listing is whole or is not one.
LEMMA ConnectionsKept ==
    ASSUME McpInv, McpConnectionsNext, UNCHANGED mcpTasksVars
    PROVE  McpInv'
<1> DEFINE Listed == /\ reading' \in ReadingRecords
                     /\ pagesOfServer' = pagesOfServer /\ ListingWhole'
<1>1. MaxBytes \in Nat /\ MaxEvents \in Nat /\ PageBytes \subseteq Nat
  BY McpConnectionsAssumption
<1>t. /\ reading \in ReadingRecords /\ ListingWhole
      /\ reading.pages + 1 \in Nat /\ reading.events + 1 \in Nat
      /\ \A size \in PageBytes : size \in Nat /\ reading.bytes + size \in Nat
  BY <1>1 DEF McpInv, McpType, ReadingRecords
<1>r. NoReading \in ReadingRecords
  BY DEF NoReading, ReadingRecords
<1>2. Listed
  <2>1. ASSUME BeginListing \/ ListenTimesOut \/ ConnectionFails
        PROVE  Listed
    BY <1>r, <1>t, <2>1 DEF ReadingRecords, ListingWhole, BeginListing, ListenTimesOut,
       ConnectionFails
  <2>2. ASSUME NEW size \in PageBytes, Page(size)
        PROVE  Listed
    <3> DEFINE ends == IF reading.bytes + size > MaxBytes THEN "refused"
                       ELSE IF reading.pages + 1 = pagesOfServer THEN "listed"
                       ELSE IF reading.pages + 1 = MaxPages THEN "refused"
                       ELSE "paging"
    <3>1. reading' = [reading EXCEPT !.pages = reading.pages + 1,
                                     !.bytes = reading.bytes + size, !.pc = ends]
      BY <2>2 DEF Page
    <3>2. /\ ends \in {"refused", "listed", "paging"}
          /\ ends = "listed" => reading.pages + 1 = pagesOfServer /\ reading.bytes + size <= MaxBytes
      BY <1>1, <1>t
    <3> HIDE DEF ends
    <3>3. /\ reading' \in ReadingRecords /\ reading'.pc = ends
          /\ reading'.pages = reading.pages + 1 /\ reading'.bytes = reading.bytes + size
      BY <1>t, <3>1, <3>2 DEF ReadingRecords
    <3> QED
      BY <2>2, <3>2, <3>3 DEF Page, ListingWhole
  <2>3. ASSUME NEW size \in PageBytes, Request(size)
        PROVE  Listed
    <3>1. size \in Nat
      BY <1>t
    <3>2. reading' \in ReadingRecords /\ reading'.pc # "listed"
      BY <2>3, <3>1 DEF Request, ReadingRecords, NoReading
    <3> QED
      BY <2>3, <3>2 DEF Request, ListingWhole
  <2>4. ASSUME NEW size \in PageBytes, ChangeEvent(size)
        PROVE  Listed
    <3> DEFINE ends == IF reading.bytes + size > MaxBytes THEN "refused"
                       ELSE IF reading.events + 1 = reading.limit THEN "answered"
                       ELSE "listening"
    <3>1. /\ reading' = [reading EXCEPT !.events = reading.events + 1,
                                        !.bytes = reading.bytes + size, !.pc = ends]
          /\ ends \in {"refused", "answered", "listening"}
      BY <2>4 DEF ChangeEvent
    <3> HIDE DEF ends
    <3>2. reading' \in ReadingRecords /\ reading'.pc # "listed"
      BY <1>t, <3>1 DEF ReadingRecords
    <3> QED
      BY <2>4, <3>2 DEF ChangeEvent, ListingWhole
  <2>5. ASSUME NEW limit \in 1..MaxEvents, Listen(limit)
        PROVE  Listed
    <3>1. limit \in Nat
      BY <1>1
    <3>2. reading' \in ReadingRecords /\ reading'.pc # "listed"
      BY <2>5, <3>1 DEF Listen, ReadingRecords, NoReading
    <3> QED
      BY <2>5, <3>2 DEF Listen, ListingWhole
  <2>6. ASSUME NEW tools, NEW roots, BuildServer(tools, roots)
        PROVE  Listed
    BY <1>t, <2>6 DEF ListingWhole, BuildServer
  <2>7. ASSUME NEW tool, NEW ok, NEW size, Serve(tool, ok, size)
        PROVE  Listed
    BY <1>t, <2>7 DEF ListingWhole, Serve
  <2> QED
    BY <2>1, <2>2, <2>3, <2>4, <2>5, <2>6, <2>7 DEF McpConnectionsNext
<1> QED
  BY <1>2 DEF McpInv, McpType, Happened, ClientInv, mcpTasksVars

LEMMA GrowsIsTransitive ==
    ASSUME NEW t, NEW u, Grows(t, u)
    PROVE  \A h : Happened(h, t) => Happened(h, u)
  BY DEF Grows, Happened

\* The server's task only moves forward.
LEMMA ServerSteps ==
    ASSUME task \in TaskRecords,
           \/ \E keys \in SUBSET TaskKeys : ServerAsks(keys)
           \/ \E status \in TaskFinal : ServerEnds(status)
    PROVE  task' \in TaskRecords /\ Grows(task, task')
<1>1. ASSUME NEW keys \in SUBSET TaskKeys, ServerAsks(keys)
      PROVE  task' \in TaskRecords /\ Grows(task, task')
  <2>1. task' \in TaskRecords
    BY <1>1 DEF ServerAsks, TaskRecords, TaskStates, TaskFinal
  <2>2. task'.received = task.received /\ task'.cancel = task.cancel /\ task.status \notin TaskFinal
    BY <1>1 DEF ServerAsks, TaskRecords, TaskFinal
  <2> QED
    BY <2>1, <2>2 DEF Grows
<1>2. CASE \E status \in TaskFinal : ServerEnds(status)
  BY <1>2 DEF ServerEnds, TaskRecords, TaskStates, TaskFinal, Grows
<1> QED
  BY <1>1, <1>2

LEMMA ToldGrows ==
    ASSUME task \in TaskRecords, NEW keys \in SUBSET TaskKeys
    PROVE  /\ Told(keys) \in TaskRecords /\ Grows(task, Told(keys))
           /\ keys \subseteq ToSet(Told(keys).received)
<1> DEFINE sent == SetToSeq(keys)
<1>1. sent \in Seq(TaskKeys) /\ ToSet(sent) = keys
  BY SetToSeqLists, McpTasksAssumption, FS_Subset
<1>2. task.received \in Seq(TaskKeys)
  BY DEF TaskRecords
<1>3. Told(keys).received = task.received \o sent
  BY DEF Told, TaskRecords
<1> HIDE DEF sent
<1>4. /\ task.received \o sent \in Seq(TaskKeys)
      /\ ToSet(task.received \o sent) = ToSet(task.received) \union ToSet(sent)
  <2>1. /\ task.received \o sent \in Seq(TaskKeys)
        /\ Len(task.received \o sent) = Len(task.received) + Len(sent)
        /\ \A i \in 1..Len(task.received) : (task.received \o sent)[i] = task.received[i]
        /\ \A i \in 1..Len(sent) : (task.received \o sent)[Len(task.received) + i] = sent[i]
    BY <1>1, <1>2
  <2>2. Len(task.received) \in Nat /\ Len(sent) \in Nat
    BY <1>1, <1>2
  <2>3. ASSUME NEW i \in 1..Len(task.received) + Len(sent), i \notin 1..Len(task.received)
        PROVE  \E j \in 1..Len(sent) : i = Len(task.received) + j
    <3>1. i - Len(task.received) \in 1..Len(sent) /\ i = Len(task.received) + (i - Len(task.received))
      BY <2>2, <2>3
    <3> QED
      BY <3>1
  <2>4. \A i \in 1..Len(task.received) : i \in 1..Len(task.received) + Len(sent)
    BY <2>2
  <2>5. \A j \in 1..Len(sent) : Len(task.received) + j \in 1..Len(task.received) + Len(sent)
    BY <2>2
  <2>6. /\ DOMAIN task.received = 1..Len(task.received) /\ DOMAIN sent = 1..Len(sent)
        /\ DOMAIN (task.received \o sent) = 1..Len(task.received) + Len(sent)
    BY <1>1, <1>2, <2>1
  <2>7. ToSet(task.received \o sent) \subseteq ToSet(task.received) \union ToSet(sent)
    <3>1. ASSUME NEW i \in 1..Len(task.received) + Len(sent)
          PROVE  (task.received \o sent)[i] \in ToSet(task.received) \union ToSet(sent)
      BY <2>1, <2>3, <2>6 DEF ToSet
    <3>2. ASSUME NEW e \in ToSet(task.received \o sent)
          PROVE  e \in ToSet(task.received) \union ToSet(sent)
      BY <2>6, <3>1, <3>2 DEF ToSet
    <3> QED
      BY <3>2
  <2>8. /\ ToSet(task.received) \subseteq ToSet(task.received \o sent)
        /\ ToSet(sent) \subseteq ToSet(task.received \o sent)
    BY <2>1, <2>4, <2>5, <2>6 DEF ToSet
  <2> QED
    BY <2>1, <2>7, <2>8
<1> QED
  BY <1>1, <1>3, <1>4 DEF Told, TaskRecords, TaskStates, TaskFinal, Grows

\* A step of a process: what it then holds happened, and so did what the others hold.
LEMMA ClientMoves ==
    ASSUME McpInv, NEW c \in Clients, NEW label, NEW h \in HandleRecords, NEW keys \in SUBSET TaskKeys,
           label \in {"idle", "save", "send", "mark", "intent"},
           Turns(c, label, h, keys), task' \in TaskRecords, Grows(task, task'),
           label = "save" => Happened(h, task'),
           label = "mark" => keys \subseteq ToSet(task'.received),
           label = "intent" => task'.cancel
    PROVE  client' \in [Clients -> ClientRecords] /\ ClientInv'
<1>1. \A d \in Clients : client'[d] = IF d = c THEN [pc |-> label, holds |-> h, keys |-> keys]
                                      ELSE client[d]
  BY DEF Turns, McpInv, McpType
<1>2. client' \in [Clients -> ClientRecords]
  BY DEF Turns, McpInv, McpType, ClientRecords
<1>3. \A d \in Clients \ {c} :
          /\ client[d].pc = "save" => Happened(client[d].holds, task')
          /\ client[d].pc = "mark" => client[d].keys \subseteq ToSet(task'.received)
          /\ client[d].pc = "intent" => task'.cancel
  BY GrowsIsTransitive DEF McpInv, ClientInv, Grows
<1> QED
  BY <1>1, <1>2, <1>3 DEF ClientInv

LEMMA TasksKept ==
    ASSUME McpInv, McpTasksNext, UNCHANGED mcpConnectionsVars
    PROVE  McpInv' /\ RecordGrows
<1>t. /\ task \in TaskRecords /\ handle \in HandleRecords /\ Happened(handle, task)
      /\ client \in [Clients -> ClientRecords] /\ NoHandle \in HandleRecords
      /\ \A c \in Clients : client[c].holds \in HandleRecords /\ client[c].keys \in SUBSET TaskKeys
  BY DEF McpInv, McpType, ClientRecords, NoHandle, HandleRecords, TaskStates, TaskFinal
<1>n. NoHandle \in HandleRecords /\ {} \in SUBSET TaskKeys
  BY <1>t
<1>g. Grows(task, task)
  BY DEF Grows
<1> DEFINE Moves == task' \in TaskRecords /\ Grows(task, task')
<1>s. ASSUME handle' = handle, Moves, client' \in [Clients -> ClientRecords] /\ ClientInv'
      PROVE  McpInv' /\ RecordGrows
  <2>1. Happened(handle, task')
    BY <1>t, <1>s, GrowsIsTransitive
  <2>2. ListingWhole' /\ reading' = reading /\ pagesOfServer' = pagesOfServer
    BY DEF mcpConnectionsVars, McpInv, ListingWhole
  <2> QED
    BY <1>t, <1>s, <2>1, <2>2 DEF McpInv, McpType, RecordGrows
<1>1. ASSUME \/ \E keys \in SUBSET TaskKeys : ServerAsks(keys)
             \/ \E status \in TaskFinal : ServerEnds(status)
      PROVE  McpInv' /\ RecordGrows
  <2>1. Moves /\ UNCHANGED <<handle, client>>
    BY <1>t, <1>1, ServerSteps DEF ServerAsks, ServerEnds
  <2>2. ClientInv'
    BY <2>1, GrowsIsTransitive DEF McpInv, ClientInv, Grows
  <2> QED
    BY <1>s, <1>t, <2>1, <2>2
<1>2. ASSUME NEW c \in Clients, StartTask(c)
      PROVE  McpInv' /\ RecordGrows
  <2> DEFINE h == [NoHandle EXCEPT !.status = "working"]
  <2>1. Moves /\ handle' = handle
    BY <1>t, <1>2 DEF StartTask, TaskRecords, TaskStates, TaskFinal, Grows
  <2>2. h \in HandleRecords /\ Happened(h, task')
    BY DEF NoHandle, HandleRecords, TaskStates, TaskFinal, Happened
  <2> QED
    BY <1>2, <1>s, <2>1, <2>2, ClientMoves DEF StartTask
<1>3. ASSUME NEW c \in Clients, GetTask(c)
      PROVE  McpInv' /\ RecordGrows
  <2>1. FromReply \in HandleRecords /\ Happened(FromReply, task)
    BY <1>t DEF FromReply, NoHandle, HandleRecords, TaskRecords, Happened
  <2>2. Moves /\ handle' = handle /\ Happened(FromReply, task') /\ Turns(c, "save", FromReply, {})
    BY <1>3, <1>g, <1>t, <2>1 DEF GetTask
  <2>3. client' \in [Clients -> ClientRecords] /\ ClientInv'
    BY <2>1, <2>2, ClientMoves
  <2> QED
    BY <1>s, <2>2, <2>3
<1>4. ASSUME NEW c \in Clients, NEW keys \in SUBSET TaskKeys, UpdateTask(c, keys)
      PROVE  McpInv' /\ RecordGrows
  BY <1>4, <1>g, <1>s, <1>t, ClientMoves DEF UpdateTask
<1>5. ASSUME NEW c \in Clients, SendInput(c)
      PROVE  McpInv' /\ RecordGrows
  <2> DEFINE keys == client[c].keys
  <2>1. keys \in SUBSET TaskKeys
    BY <1>t
  <2>2. Moves /\ keys \subseteq ToSet(Told(keys).received) /\ task' = Told(keys)
    BY <1>5, <1>t, <2>1, ToldGrows DEF SendInput
  <2>3. handle' = handle /\ Turns(c, "mark", NoHandle, keys) /\ keys \subseteq ToSet(task'.received)
    BY <1>5, <2>2 DEF SendInput
  <2> HIDE DEF keys
  <2>4. client' \in [Clients -> ClientRecords] /\ ClientInv'
    BY <1>t, <2>1, <2>2, <2>3, ClientMoves
  <2> QED
    BY <1>s, <2>2, <2>3, <2>4
<1>6. ASSUME NEW c \in Clients, MarkAnswered(c)
      PROVE  McpInv' /\ RecordGrows
  <2> DEFINE h == [handle EXCEPT !.answered = @ \union client[c].keys]
  <2>1. client[c].keys \subseteq ToSet(task.received)
    BY <1>6 DEF MarkAnswered, At, McpInv, ClientInv
  <2>2. h \in HandleRecords /\ Happened(h, task)
    BY <1>t, <2>1 DEF HandleRecords, Happened
  <2> HIDE DEF h
  <2>3. Turns(c, "save", h, {}) \/ Rest(c)
    BY <1>6 DEF MarkAnswered, h
  <2>4. Moves /\ handle' = handle /\ Happened(h, task')
    BY <1>6, <1>g, <1>t, <2>2 DEF MarkAnswered
  <2>5. CASE Turns(c, "save", h, {})
    BY <1>s, <2>2, <2>4, <2>5, ClientMoves
  <2>6. CASE Rest(c)
    BY <1>n, <1>s, <2>4, <2>6, ClientMoves DEF Rest
  <2> QED
    BY <2>3, <2>5, <2>6
<1>7. ASSUME NEW c \in Clients, CancelTask(c)
      PROVE  McpInv' /\ RecordGrows
  <2>1. Moves /\ task'.cancel
    BY <1>t, <1>7 DEF CancelTask, TaskRecords, Grows
  <2>2. handle' = handle /\ Turns(c, "intent", NoHandle, {})
    BY <1>7 DEF CancelTask
  <2>3. client' \in [Clients -> ClientRecords] /\ ClientInv'
    BY <1>n, <2>1, <2>2, ClientMoves
  <2> QED
    BY <1>s, <2>1, <2>2, <2>3
<1>8. ASSUME NEW c \in Clients, MarkCancelled(c)
      PROVE  McpInv' /\ RecordGrows
  <2> DEFINE h == [handle EXCEPT !.cancel = TRUE]
  <2>1. task.cancel
    BY <1>8 DEF MarkCancelled, At, McpInv, ClientInv
  <2>2. h \in HandleRecords /\ Happened(h, task)
    BY <1>t, <2>1 DEF HandleRecords, Happened
  <2> HIDE DEF h
  <2>3. Moves /\ handle' = handle /\ Happened(h, task') /\ Turns(c, "save", h, {})
    BY <1>8, <1>g, <1>t, <2>2 DEF MarkCancelled, h
  <2>4. client' \in [Clients -> ClientRecords] /\ ClientInv'
    BY <2>2, <2>3, ClientMoves
  <2> QED
    BY <1>s, <2>3, <2>4
<1>9. ASSUME NEW c \in Clients, Fails(c)
      PROVE  McpInv' /\ RecordGrows
  BY <1>9, <1>g, <1>s, <1>t, ClientMoves DEF Fails, Rest
<1>10. ASSUME NEW c \in Clients, Save(c)
       PROVE  McpInv' /\ RecordGrows
  <2> DEFINE h == client[c].holds
  <2>1. Happened(h, task)
    BY <1>10 DEF Save, At, McpInv, ClientInv
  <2>2. client' \in [Clients -> ClientRecords] /\ ClientInv' /\ task' = task
    <3>1. task' = task /\ Moves /\ Turns(c, "idle", NoHandle, {})
      BY <1>10, <1>g, <1>t DEF Save, Rest
    <3> QED
      BY <1>n, <3>1, ClientMoves
  <2>3. handle' = handle \/ (handle' = Merged(h) /\ ~ChangesEnd(h))
    BY <1>10 DEF Save
  <2>4. /\ handle' \in HandleRecords /\ RecordGrows
        /\ Happened(handle', task)
    <3>1. CASE handle' = handle
      BY <1>t, <3>1 DEF RecordGrows
    <3>2. CASE handle' = Merged(h) /\ ~ChangesEnd(h)
      <4>1. h \in HandleRecords /\ handle \in HandleRecords /\ Happened(handle, task)
        BY <1>t
      <4> HIDE DEF h
      <4>2. /\ handle' = [h EXCEPT !.answered = @ \union handle.answered,
                                   !.cancel = @ \/ handle.cancel]
            /\ handle.status \in TaskFinal => h.status = handle.status
        BY <3>2 DEF Merged, ChangesEnd
      <4>3. /\ handle'.status = h.status /\ handle'.answered = h.answered \union handle.answered
            /\ handle'.cancel = (h.cancel \/ handle.cancel) /\ handle'.outstanding = h.outstanding
        BY <4>1, <4>2 DEF HandleRecords
      <4>4. h.answered \union handle.answered \in SUBSET TaskKeys
            /\ (h.cancel \/ handle.cancel) \in BOOLEAN
        BY <4>1 DEF HandleRecords
      <4>5. handle' \in HandleRecords
        BY <4>1, <4>2, <4>4 DEF HandleRecords
      <4>6. RecordGrows
        BY <4>2, <4>3 DEF RecordGrows
      <4>7. Happened(handle', task)
        BY <2>1, <4>1, <4>3 DEF Happened
      <4> QED
        BY <4>5, <4>6, <4>7
    <3> QED
      BY <2>3, <3>1, <3>2
  <2>5. ListingWhole' /\ reading' = reading /\ pagesOfServer' = pagesOfServer
    BY DEF mcpConnectionsVars, McpInv, ListingWhole
  <2> QED
    BY <1>t, <2>2, <2>4, <2>5 DEF McpInv, McpType
<1> QED
  BY <1>1, <1>2, <1>3, <1>4, <1>5, <1>6, <1>7, <1>8, <1>9, <1>10 DEF McpTasksNext

LEMMA McpInvPreserved ==
    McpInv /\ [\/ McpTasksNext /\ UNCHANGED mcpConnectionsVars
               \/ McpConnectionsNext /\ UNCHANGED mcpTasksVars]_<<mcpTasksVars, mcpConnectionsVars>>
        => McpInv' /\ RecordGrows
<1> SUFFICES ASSUME McpInv, [\/ McpTasksNext /\ UNCHANGED mcpConnectionsVars
                             \/ McpConnectionsNext /\ UNCHANGED mcpTasksVars]_<<mcpTasksVars, mcpConnectionsVars>>
             PROVE  McpInv' /\ RecordGrows
  OBVIOUS
<1>1. UNCHANGED mcpTasksVars => RecordGrows
  BY DEF mcpTasksVars, RecordGrows
<1>2. CASE UNCHANGED <<mcpTasksVars, mcpConnectionsVars>>
  BY <1>1, <1>2 DEF McpInv, McpType, ListingWhole, Happened, ClientInv, mcpTasksVars, mcpConnectionsVars
<1> QED
  BY <1>1, <1>2, TasksKept, ConnectionsKept

\* The invariant of tasks and listings holds.
THEOREM McpInvariant == McpTasksSpec => []McpInv
  BY InitMcpInv, McpInvPreserved, PTL DEF McpTasksSpec

(* For any processes, inputs and pages: a listing is whole or refused, what *)
(* the record says of a task happened, and it forgets none of it.           *)
THEOREM McpAnswersHoldAlways == McpTasksSpec => McpAnswersHold
<1>1. McpInv' => ListingWhole' /\ RecordHappened'
  BY DEF McpInv, Happened, RecordHappened
<1>2. McpInv /\ [\/ McpTasksNext /\ UNCHANGED mcpConnectionsVars
                 \/ McpConnectionsNext /\ UNCHANGED mcpTasksVars]_<<mcpTasksVars, mcpConnectionsVars>>
        => [ListingWhole' /\ RecordHappened' /\ RecordGrows]_<<mcpTasksVars, mcpConnectionsVars>>
  BY <1>1, McpInvPreserved
<1> QED
  BY <1>2, McpInvariant, PTL DEF McpTasksSpec, McpAnswersHold
-----------------------------------------------------------------------------

\* Configuration.

Wants == [ConfigKeys -> Values \union {Absent, "stdio", "http", Unchanged}]
FileRecords == [exists : BOOLEAN, keys : Config]
CommandNames == {"none", "mcp_add", "setup_mcp", "skill_import", "mcp_remove", "mcp_auth_add",
                 "mcp_auth_remove", "extension_add", "setup_webmcp", "setup_mcp_server", "setup",
                 "web_settings", "configure"}
WriterRecords ==
    [pc : {"idle", "decided", "read", "auditing"}, command : CommandNames, replace : BOOLEAN,
     writes : SUBSET ConfigKeys, want : Wants, view : Config, copy : FileRecords]

ConfigurationType ==
    /\ above \in Config /\ below \in Config /\ file \in FileRecords
    /\ writers \in [Writers -> WriterRecords]

\* The keys a reference relates are written together or not at all.
Related == {"profile", "credential"}
Whole(writes) == Related \subseteq writes \/ Related \intersect writes = {}

\* With these keys in the local file the credential of the server is defined.
Resolves(keys) == ReferencesValid(Over(above, Over(keys, below)))

\* What a command will write defines its credential, and the layers'.
ViewResolves(view) ==
    view["credential"] # Absent \/ above["credential"] # Absent \/ below["credential"] # Absent
        => view["profile"] # Absent

WriterInv ==
    \A w \in Writers : writers[w].pc # "idle" =>
        /\ Whole(writers[w].writes) /\ ViewResolves(writers[w].view)
        /\ writers[w].pc # "decided" => Resolves(writers[w].copy.keys)

ConfigurationInv == ConfigurationType /\ Resolves(file.keys) /\ WriterInv
-----------------------------------------------------------------------------
LEMMA RelatedAreKeys == Related \subseteq McpKeys /\ McpKeys \subseteq ConfigKeys
  BY DEF Related, McpKeys, ServerKeys, ConfigKeys

LEMMA OverType ==
    ASSUME NEW c \in Config, NEW d \in Config
    PROVE  Over(c, d) \in Config
  BY DEF Over, Config

\* The credential is defined in one of the layers.
LEMMA ResolvesInLayers ==
    ASSUME NEW keys
    PROVE  Resolves(keys) <=>
              (\/ above["credential"] # Absent
               \/ keys["credential"] # Absent
               \/ below["credential"] # Absent)
              => (\/ above["profile"] # Absent
                  \/ keys["profile"] # Absent
                  \/ below["profile"] # Absent)
<1>1. "credential" \in ConfigKeys /\ "profile" \in ConfigKeys
  BY DEF ConfigKeys, McpKeys, ServerKeys
<1> QED
  BY <1>1 DEF Resolves, ReferencesValid, Over

LEMMA InitConfigurationInv == ConfigurationInit => ConfigurationInv
<1> SUFFICES ASSUME ConfigurationInit PROVE ConfigurationInv
  OBVIOUS
<1>1. above \in Config /\ below \in Config /\ file \in FileRecords
  BY ConfigurationAssumption DEF ConfigurationInit, FileRecords
<1>2. Empty \in Config /\ Empty \in Wants
  BY DEF Empty, Config, Wants
<1>3. Idle \in WriterRecords
  <2>1. [exists |-> FALSE, keys |-> Empty] \in FileRecords
    BY <1>2 DEF FileRecords
  <2> QED
    BY <1>2, <2>1 DEF Idle, CommandNames, WriterRecords
<1>4. writers \in [Writers -> WriterRecords] /\ \A w \in Writers : writers[w].pc = "idle"
  BY <1>3 DEF ConfigurationInit, Idle
<1>5. Resolves(file.keys)
  BY DEF ConfigurationInit, Valid, Effective, Resolves
<1> QED
  BY <1>1, <1>4, <1>5 DEF ConfigurationInv, ConfigurationType, WriterInv

\* What a command wants of the two keys, given what it loaded.
WantsWell(want) ==
    /\ want["profile"] = Absent =>
          Effective["credential"] = Absent /\ want["credential"] = Unchanged
    /\ want["credential"] \notin {Absent, Unchanged} => Effective["profile"] # Absent

LEMMA BeginKept ==
    ASSUME ConfigurationInv, NEW w \in Writers, NEW command \in CommandNames, NEW replace \in BOOLEAN,
           NEW writes \in SUBSET ConfigKeys, NEW want \in Wants, Whole(writes), WantsWell(want),
           Begin(w, command, replace, writes, want)
    PROVE  ConfigurationInv'
<1> DEFINE view == [k \in ConfigKeys |-> IF want[k] = Unchanged THEN Effective[k] ELSE want[k]]
           r == [Idle EXCEPT !.pc = "decided", !.command = command, !.replace = replace,
                             !.writes = writes, !.want = want, !.view = view]
<1>t. /\ above \in Config /\ below \in Config /\ file.keys \in Config /\ Resolves(file.keys)
      /\ writers \in [Writers -> WriterRecords]
  BY DEF ConfigurationInv, ConfigurationType, FileRecords
<1>e. Effective \in Config
  BY <1>t, OverType DEF Effective
<1>1. view \in Config
  <2>1. ASSUME NEW k \in ConfigKeys
        PROVE  (IF want[k] = Unchanged THEN Effective[k] ELSE want[k]) \in Values \union {Absent, "stdio", "http"}
    BY <1>e DEF Config, Wants
  <2> QED
    BY <2>1 DEF Config
<1>k. "credential" \in ConfigKeys /\ "profile" \in ConfigKeys
  BY DEF ConfigKeys, McpKeys, ServerKeys
<1>2. Effective["credential"] # Absent => Effective["profile"] # Absent
  BY <1>t DEF Resolves, ReferencesValid, Effective
<1>3. above["credential"] # Absent \/ below["credential"] # Absent => Effective["credential"] # Absent
  BY <1>k DEF Effective, Over
<1>4. /\ view["credential"] = IF want["credential"] = Unchanged THEN Effective["credential"]
                              ELSE want["credential"]
      /\ view["profile"] = IF want["profile"] = Unchanged THEN Effective["profile"]
                           ELSE want["profile"]
  BY <1>k
<1> HIDE DEF view
<1>5. ViewResolves(view)
  BY <1>2, <1>3, <1>4, ConfigurationAssumption DEF ViewResolves, WantsWell
<1>6. r \in WriterRecords /\ r.pc = "decided" /\ r.view = view /\ r.writes = writes
  <2>1. Empty \in Config /\ Empty \in Wants
    BY DEF Empty, Config, Wants
  <2> QED
    BY <1>1, <2>1 DEF Idle, CommandNames, WriterRecords, FileRecords
<1>7. writers' = [writers EXCEPT ![w] = r] /\ UNCHANGED <<above, below, file>>
  BY DEF Begin, view
<1> HIDE DEF r
<1>8. /\ writers' \in [Writers -> WriterRecords] /\ writers'[w] = r
      /\ \A v \in Writers \ {w} : writers'[v] = writers[v]
  BY <1>t, <1>6, <1>7
<1>9. Resolves(file.keys)' /\ \A c : Resolves(c)' <=> Resolves(c)
  BY <1>t, <1>7 DEF Resolves
<1>10. \A c : ViewResolves(c)' <=> ViewResolves(c)
  BY <1>7 DEF ViewResolves
<1>11. WriterInv'
  BY <1>5, <1>6, <1>8, <1>9, <1>10 DEF ConfigurationInv, WriterInv
<1> QED
  BY <1>7, <1>8, <1>9, <1>11 DEF ConfigurationInv, ConfigurationType

\* A change of one key, other than the two, or of the server's keys.
LEMMA OneKey ==
    ASSUME NEW k \in ConfigKeys, NEW v \in Values \union {Absent, Unchanged}
    PROVE  /\ Only(k, v) \in Wants
           /\ k \notin Related => WantsWell(Only(k, v)) /\ Whole({k})
           /\ k = "profile" /\ v # Absent => WantsWell(Only(k, v))
<1>1. "credential" \in ConfigKeys /\ "profile" \in ConfigKeys
  BY DEF ConfigKeys, McpKeys, ServerKeys
<1>2. Only(k, v) \in Wants
  BY DEF Only, Wants
<1>3. /\ Only(k, v)["credential"] = IF k = "credential" THEN v ELSE Unchanged
      /\ Only(k, v)["profile"] = IF k = "profile" THEN v ELSE Unchanged
  BY <1>1 DEF Only
<1>4. Unchanged # Absent
  BY ConfigurationAssumption
<1> QED
  BY <1>2, <1>3, <1>4 DEF WantsWell, Whole, Related

LEMMA ServerWants ==
    ASSUME NEW credentials \in SUBSET (Values \union {Absent}), NEW s \in Servers(credentials)
    PROVE  /\ s \in Wants /\ s["profile"] = Unchanged
           /\ s["credential"] \in credentials \union {Absent}
<1>1. "credential" \in ConfigKeys /\ "profile" \in ConfigKeys
  BY DEF ConfigKeys, McpKeys, ServerKeys
<1>2. ASSUME NEW v \in Values,
             s = [j \in ConfigKeys |-> CASE j = "transport" -> "stdio"
                                         [] j = "command" -> v
                                         [] j \in {"url", "credential"} -> Absent
                                         [] OTHER -> Unchanged]
      PROVE  /\ s \in Wants /\ s["profile"] = Unchanged /\ s["credential"] = Absent
  <2>1. /\ DOMAIN s = ConfigKeys /\ s = [j \in ConfigKeys |-> s[j]]
        /\ \A j \in ConfigKeys : s[j] \in Values \union {Absent, "stdio", "http", Unchanged}
    BY <1>2
  <2> QED
    BY <1>1, <1>2, <2>1 DEF Wants
<1>3. ASSUME NEW v \in Values, NEW r \in credentials,
             s = [j \in ConfigKeys |-> CASE j = "transport" -> "http"
                                         [] j = "url" -> v
                                         [] j = "command" -> Absent
                                         [] j = "credential" -> r
                                         [] OTHER -> Unchanged]
      PROVE  /\ s \in Wants /\ s["profile"] = Unchanged /\ s["credential"] = r
  <2>1. /\ DOMAIN s = ConfigKeys /\ s = [j \in ConfigKeys |-> s[j]]
        /\ \A j \in ConfigKeys : s[j] \in Values \union {Absent, "stdio", "http", Unchanged}
    BY <1>3
  <2> QED
    BY <1>1, <1>3, <2>1 DEF Wants
<1> QED
  BY <1>2, <1>3 DEF Servers

\* Every command that begins writes the two keys together, and wants of them what
\* the layers it loaded allow.
CommandBegins(w) ==
    \E command \in CommandNames, replace \in BOOLEAN, writes \in SUBSET ConfigKeys, want \in Wants :
        Whole(writes) /\ WantsWell(want) /\ Begin(w, command, replace, writes, want)

LEMMA ServerBegins ==
    ASSUME NEW w, AddServer(w) \/ SetUpServer(w) \/ ImportServer(w)
    PROVE  CommandBegins(w)
<1>1. Whole(McpKeys) /\ McpKeys \in SUBSET ConfigKeys
  BY RelatedAreKeys DEF Whole
<1>u. Unchanged # Absent
  BY ConfigurationAssumption
<1>2. ASSUME NEW s \in Servers(Known(Optional))
      PROVE  s \in Wants /\ WantsWell(s)
  <2>1. CASE Effective["profile"] = Absent
    BY <1>u, <1>2, <2>1, ServerWants DEF Known, WantsWell
  <2>2. CASE Effective["profile"] # Absent
    BY <1>u, <1>2, <2>2, ServerWants DEF Known, Optional, WantsWell
  <2> QED
    BY <2>1, <2>2
<1>3. ASSUME NEW s \in Servers({Absent})
      PROVE  s \in Wants /\ WantsWell(s)
  BY <1>u, <1>3, ServerWants DEF WantsWell
<1>4. CASE AddServer(w)
  BY <1>1, <1>2, <1>4 DEF AddServer, CommandBegins, CommandNames
<1>5. CASE SetUpServer(w)
  BY <1>1, <1>2, <1>5 DEF SetUpServer, CommandBegins, CommandNames
<1>6. CASE ImportServer(w)
  BY <1>1, <1>3, <1>6 DEF ImportServer, CommandBegins, CommandNames
<1> QED
  BY <1>4, <1>5, <1>6

LEMMA RemovalBegins ==
    ASSUME NEW w, RemoveServer(w) \/ RemoveCredential(w)
    PROVE  CommandBegins(w)
<1>1. Whole(McpKeys) /\ McpKeys \in SUBSET ConfigKeys
  BY RelatedAreKeys DEF Whole
<1>2. "credential" \in ConfigKeys /\ "profile" \in ConfigKeys
  BY DEF ConfigKeys, McpKeys, ServerKeys
<1>3. Unchanged # Absent
  BY ConfigurationAssumption
<1>4. NoServer \in Wants /\ WantsWell(NoServer)
  <2>1. NoServer["profile"] = Unchanged /\ NoServer["credential"] = Absent
    BY <1>2 DEF NoServer, ServerKeys
  <2> QED
    BY <1>3, <2>1 DEF NoServer, Wants, WantsWell
<1>5. Only("profile", Absent) \in Wants
  BY <1>2, OneKey
<1>6. Effective["credential"] = Absent => WantsWell(Only("profile", Absent))
  BY <1>2 DEF WantsWell, Only
<1>7. CASE RemoveServer(w)
  BY <1>1, <1>4, <1>7 DEF RemoveServer, CommandBegins, CommandNames
<1>8. CASE RemoveCredential(w)
  BY <1>1, <1>5, <1>6, <1>8 DEF RemoveCredential, CommandBegins, CommandNames
<1> QED
  BY <1>7, <1>8

LEMMA McpKeyBegins ==
    ASSUME NEW w, AddCredential(w) \/ AddExtension(w) \/ SetUpWebMcp(w) \/ SetUpMcpServer(w)
    PROVE  CommandBegins(w)
<1>1. Whole(McpKeys) /\ McpKeys \in SUBSET ConfigKeys
  BY RelatedAreKeys DEF Whole
<1>2. \A v \in Values : v # Absent
  BY ConfigurationAssumption
<1>3. ASSUME NEW k \in {"profile", "extension", "webmcp", "exports"}, NEW s \in Gives(k, Values)
      PROVE  s \in Wants /\ WantsWell(s)
  <2>1. k \in ConfigKeys /\ (k = "profile" \/ k \notin Related)
    BY DEF ConfigKeys, McpKeys, Related
  <2>2. PICK v \in Values : s = Only(k, v)
    BY DEF Gives
  <2> QED
    BY <1>2, <2>1, <2>2, OneKey
<1> QED
  BY <1>1, <1>3 DEF AddCredential, AddExtension, SetUpWebMcp, SetUpMcpServer, CommandBegins, CommandNames

LEMMA SectionBegins ==
    ASSUME NEW w, NEW k \in ConfigKeys \ McpKeys,
           NEW values \in SUBSET (Values \union {Absent, Unchanged}), SetUp(w, k, values)
    PROVE  CommandBegins(w)
<1>1. PICK v \in values : Begin(w, "setup", FALSE, {k}, Only(k, v))
  BY DEF SetUp, Gives
<1>2. k \notin Related /\ {k} \in SUBSET ConfigKeys
  BY RelatedAreKeys
<1> QED
  BY <1>1, <1>2, OneKey DEF CommandBegins, CommandNames

LEMMA SetUpBegins ==
    ASSUME NEW w,
           \/ SetIdentity(w) \/ SetApprovals(w) \/ SetSkills(w) \/ SetSandbox(w)
           \/ SetAudit(w) \/ SetLocalMemory(w) \/ SetSharedMemory(w) \/ SetPolaris(w)
           \/ SetAgents(w) \/ SetGateway(w) \/ SetAccess(w)
    PROVE  CommandBegins(w)
<1> DEFINE Sections == {"subject", "approval_store", "scripts", "backend", "collector", "local_memory",
                        "warehouse", "realm", "default_profile", "endpoint", "access_rules"}
<1>1. Sections \subseteq ConfigKeys \ McpKeys
  BY DEF ConfigKeys, McpKeys, ServerKeys
<1>2. \E k \in Sections, values \in SUBSET (Values \union {Absent, Unchanged}) : SetUp(w, k, values)
  BY DEF SetIdentity, SetApprovals, SetSkills, SetSandbox, SetAudit, SetLocalMemory, SetSharedMemory,
     SetPolaris, SetAgents, SetGateway, SetAccess, Optional
<1> QED
  BY <1>1, <1>2, SectionBegins

LEMMA OtherBegins ==
    ASSUME NEW w, UpdateSettings(w) \/ Configure(w)
    PROVE  CommandBegins(w)
<1>1. /\ "default_profile" \in ConfigKeys \ Related /\ "base_url" \in ConfigKeys \ Related
      /\ "workspace_roots" \in ConfigKeys \ Related /\ "backend" \in ConfigKeys \ Related
  BY DEF ConfigKeys, McpKeys, ServerKeys, Related
<1>2. /\ Whole({"base_url", "default_profile"}) /\ Whole({"base_url"})
      /\ Whole({"base_url", "workspace_roots", "backend"})
  BY DEF Whole, Related
<1>3. ASSUME NEW v \in Optional
      PROVE  /\ Only("default_profile", v) \in Wants /\ WantsWell(Only("default_profile", v))
             /\ Only("base_url", v) \in Wants /\ WantsWell(Only("base_url", v))
  BY <1>1, OneKey DEF Optional
<1>4. ASSUME NEW v \in Optional, NEW root \in Values
      PROVE  /\ StrictLocalProfile(Only("base_url", v), root) \in Wants
             /\ WantsWell(StrictLocalProfile(Only("base_url", v), root))
  <2> DEFINE s == StrictLocalProfile(Only("base_url", v), root)
  <2>1. s \in Wants
    BY <1>3 DEF StrictLocalProfile, Wants
  <2>2. "credential" \in ConfigKeys /\ "profile" \in ConfigKeys
    BY DEF ConfigKeys, McpKeys, ServerKeys
  <2>3. s["profile"] = Unchanged /\ s["credential"] = Unchanged
    BY <2>2 DEF StrictLocalProfile, Only
  <2>4. Unchanged # Absent
    BY ConfigurationAssumption
  <2> QED
    BY <2>1, <2>3, <2>4 DEF WantsWell
<1>5. CASE UpdateSettings(w)
  BY <1>1, <1>2, <1>3, <1>5 DEF UpdateSettings, Gives, CommandBegins, CommandNames
<1>6. CASE Configure(w)
  <2>1. PICK v \in Optional, root \in Values :
            IF file.exists
            THEN Begin(w, "configure", FALSE, {"base_url"}, Only("base_url", v))
            ELSE Begin(w, "configure", FALSE, {"base_url", "workspace_roots", "backend"},
                       StrictLocalProfile(Only("base_url", v), root))
    BY <1>6 DEF Configure
  <2> QED
    BY <1>1, <1>2, <1>3, <1>4, <2>1 DEF CommandBegins, CommandNames
<1> QED
  BY <1>5, <1>6

-----------------------------------------------------------------------------
LEMMA SectionDataType ==
    ASSUME NEW c \in Config, NEW writes
    PROVE  SectionData(c, writes) \in Config
  BY DEF SectionData, Config

\* What a command writes over a copy of the file that resolves, resolves.
LEMMA WrittenResolves ==
    ASSUME NEW view \in Config, NEW keys \in Config, NEW writes,
           Whole(writes), ViewResolves(view), Resolves(keys)
    PROVE  LET data == SectionData(view, writes)
           IN  /\ MergedInto(keys, data) \in Config /\ Resolves(MergedInto(keys, data))
               /\ Replaced(keys, data, writes) \in Config /\ Resolves(Replaced(keys, data, writes))
<1> DEFINE data == SectionData(view, writes)
           merged == MergedInto(keys, data)
           put == Replaced(keys, data, writes)
<1>1. "credential" \in ConfigKeys /\ "profile" \in ConfigKeys
  BY DEF ConfigKeys, McpKeys, ServerKeys
<1>2. data \in Config
  BY SectionDataType
<1>3. merged \in Config /\ put \in Config
  BY <1>2, OverType DEF MergedInto, Replaced, Config
<1>4. \A k \in {"credential", "profile"} :
          /\ data[k] = IF k \in writes THEN view[k] ELSE Absent
          /\ merged[k] = IF data[k] # Absent THEN data[k] ELSE keys[k]
          /\ put[k] = IF k \in writes THEN data[k] ELSE keys[k]
  BY <1>1 DEF SectionData, MergedInto, Over, Replaced
<1> HIDE DEF data, merged, put
<1>5. \/ "credential" \in writes /\ "profile" \in writes
      \/ "credential" \notin writes /\ "profile" \notin writes
  BY DEF Whole, Related
<1>6. Resolves(merged) /\ Resolves(put)
  <2>1. Resolves(keys) /\ ViewResolves(view)
    OBVIOUS
  <2>2. ASSUME NEW c, c["credential"] # Absent \/ above["credential"] # Absent
                         \/ below["credential"] # Absent
                      => c["profile"] # Absent \/ above["profile"] # Absent
                         \/ below["profile"] # Absent
        PROVE  Resolves(c)
    BY <1>1, <2>2 DEF Resolves, ReferencesValid, Over
  <2>3. keys["credential"] # Absent \/ above["credential"] # Absent \/ below["credential"] # Absent
        => keys["profile"] # Absent \/ above["profile"] # Absent \/ below["profile"] # Absent
    BY <2>1, ResolvesInLayers
  <2>4. Resolves(merged)
    BY <1>4, <1>5, <2>1, <2>2, <2>3 DEF ViewResolves
  <2>5. Resolves(put)
    BY <1>4, <1>5, <2>1, <2>2, <2>3 DEF ViewResolves
  <2> QED
    BY <2>4, <2>5
<1> QED
  BY <1>3, <1>6 DEF data, merged, put

\* The file and the record of one writer change together.
LEMMA FileKept ==
    ASSUME ConfigurationInv, NEW w \in Writers, NEW r \in WriterRecords, NEW f \in FileRecords,
           writers' = [writers EXCEPT ![w] = r], file' = f, UNCHANGED <<above, below>>,
           Resolves(f.keys),
           r.pc # "idle" => /\ Whole(r.writes) /\ ViewResolves(r.view)
                            /\ r.pc # "decided" => Resolves(r.copy.keys)
    PROVE  ConfigurationInv'
<1>1. writers \in [Writers -> WriterRecords]
  BY DEF ConfigurationInv, ConfigurationType
<1>2. /\ writers' \in [Writers -> WriterRecords] /\ writers'[w] = r
      /\ \A v \in Writers \ {w} : writers'[v] = writers[v]
  BY <1>1
<1>3. \A c : (Resolves(c)' <=> Resolves(c)) /\ (ViewResolves(c)' <=> ViewResolves(c))
  BY DEF Resolves, ViewResolves
<1>4. Resolves(file.keys)'
  BY DEF Resolves
<1>5. WriterInv'
  BY <1>2, <1>3 DEF ConfigurationInv, WriterInv
<1> QED
  BY <1>2, <1>4, <1>5 DEF ConfigurationInv, ConfigurationType

LEMMA ConfigurationInvPreserved ==
    ConfigurationInv /\ [ConfigurationNext]_configurationVars => ConfigurationInv'
<1> SUFFICES ASSUME ConfigurationInv, [ConfigurationNext]_configurationVars
             PROVE  ConfigurationInv'
  OBVIOUS
<1>t. /\ file \in FileRecords /\ Resolves(file.keys) /\ writers \in [Writers -> WriterRecords]
      /\ Idle \in WriterRecords /\ Idle.pc = "idle"
  <2>1. Empty \in Config /\ Empty \in Wants
    BY DEF Empty, Config, Wants
  <2>2. [exists |-> FALSE, keys |-> Empty] \in FileRecords
    BY <2>1 DEF FileRecords
  <2>3. Idle \in WriterRecords /\ Idle.pc = "idle"
    BY <2>1, <2>2 DEF Idle, CommandNames, WriterRecords
  <2> QED
    BY <2>3 DEF ConfigurationInv, ConfigurationType
<1>1. ASSUME NEW w \in Writers, CommandBegins(w)
      PROVE  ConfigurationInv'
  BY <1>1, BeginKept DEF CommandBegins
<1>2. ASSUME NEW w \in Writers, ReadFile(w)
      PROVE  ConfigurationInv'
  <2> DEFINE r == [writers[w] EXCEPT !.pc = "read", !.copy = file]
  <2>1. /\ r \in WriterRecords /\ r.pc = "read" /\ r.copy = file
        /\ r.writes = writers[w].writes /\ r.view = writers[w].view
    BY <1>t DEF WriterRecords
  <2>2. Whole(writers[w].writes) /\ ViewResolves(writers[w].view)
    BY <1>2 DEF ReadFile, ConfigurationInv, WriterInv
  <2>3. writers' = [writers EXCEPT ![w] = r] /\ UNCHANGED <<file, above, below>>
    BY <1>2 DEF ReadFile
  <2> HIDE DEF r
  <2> QED
    BY <1>t, <2>1, <2>2, <2>3, FileKept
<1>3. ASSUME NEW w \in Writers, WriteFile(w)
      PROVE  ConfigurationInv'
  <2> DEFINE q == writers[w]
             data == SectionData(q.view, q.writes)
             f == [exists |-> TRUE, keys |-> IF q.replace THEN Replaced(q.copy.keys, data, q.writes)
                                             ELSE MergedInto(q.copy.keys, data)]
             r == IF q.command = "configure" THEN [q EXCEPT !.pc = "auditing"] ELSE Idle
  <2>1. /\ q \in WriterRecords /\ q.pc = "read" /\ Whole(q.writes) /\ ViewResolves(q.view)
        /\ Resolves(q.copy.keys) /\ q.view \in Config /\ q.copy.keys \in Config
    BY <1>3, <1>t DEF WriteFile, ConfigurationInv, WriterInv, WriterRecords, FileRecords
  <2>2. file' = f /\ writers' = [writers EXCEPT ![w] = r] /\ UNCHANGED <<above, below>>
    BY <1>3 DEF WriteFile
  <2>3. f \in FileRecords /\ Resolves(f.keys)
    BY <2>1, WrittenResolves DEF FileRecords
  <2>4. /\ r \in WriterRecords
        /\ r.pc # "idle" => r.writes = q.writes /\ r.view = q.view /\ r.copy = q.copy
    BY <1>t, <2>1 DEF WriterRecords
  <2> HIDE DEF q, f, r
  <2> QED
    BY <2>1, <2>2, <2>3, <2>4, FileKept
<1>4. ASSUME NEW w \in Writers, RollBack(w)
      PROVE  ConfigurationInv'
  <2>1. writers[w].copy \in FileRecords /\ Resolves(writers[w].copy.keys)
    BY <1>4, <1>t DEF RollBack, ConfigurationInv, WriterInv, WriterRecords
  <2> QED
    BY <1>4, <1>t, <2>1, FileKept DEF RollBack
<1>5. ASSUME NEW w \in Writers, Finish(w)
      PROVE  ConfigurationInv'
  BY <1>5, <1>t, FileKept DEF Finish
<1>6. CASE UNCHANGED configurationVars
  BY <1>6 DEF ConfigurationInv, ConfigurationType, WriterInv, Resolves, ViewResolves, configurationVars
<1> QED
  BY <1>1, <1>2, <1>3, <1>4, <1>5, <1>6, ServerBegins, RemovalBegins, McpKeyBegins, SetUpBegins,
     OtherBegins DEF ConfigurationNext

\* The invariant of the local file and its writers holds.
THEOREM ConfigurationInvariant == ConfigurationSpec => []ConfigurationInv
  BY InitConfigurationInv, ConfigurationInvPreserved, PTL DEF ConfigurationSpec

(* For any writers, layers and values, whatever stale copies are written *)
(* and rolled back: a server's credential is defined in some layer.      *)
THEOREM ReferencesResolveAlways == ConfigurationSpec => []ReferencesResolve
<1>1. ConfigurationInv => ReferencesResolve
  BY DEF ConfigurationInv, Resolves, ReferencesResolve, Effective
<1> QED
  BY <1>1, ConfigurationInvariant, PTL
-----------------------------------------------------------------------------

\* ProfileDocuments.

Deltas == [base : Nat, spec : Specs \union {"none"}, op : {"add", "remove"}, fact : Facts]
DraftRecords == [status : {"pending", "rejected", "applied"}, delta : Deltas]

\* A document, whatever facts it has.
IsDocument(d) ==
    d \in [exists : BOOLEAN, valid : BOOLEAN, revision : Nat, spec : Specs, facts : {d.facts},
           log : Seq(Nat)]

\* The log of a document: no proposal twice, each made for a revision before it.
LogSound(d) ==
    /\ IsInjective(d.log)
    /\ \A i \in DOMAIN d.log :
          d.log[i] \in DOMAIN profileDrafts /\ profileDrafts[d.log[i]].delta.base < d.revision

ProfilesType ==
    /\ profileDrafts \in Seq(DraftRecords)
    /\ session \in [Agents -> [on : BOOLEAN, revision : Nat, spec : Specs \union {"none"}]]
    /\ DOMAIN user = Users

\* The documents that a user will write back, and the proposal in review.
TaskSound(t) ==
    /\ t.pc \in {"reviewing", "applied"} => t.proposal \in DOMAIN profileDrafts
    /\ t.pc = "applied" => t.proposal \in everApplied
    /\ t.pc \in {"saving", "restoring"} => IsDocument(t.previous) /\ LogSound(t.previous)
    /\ t.pc = "saving" => IsDocument(t.document) /\ LogSound(t.document)
    /\ t.pc = "creating" => t.spec \in Specs

UserInv == \A u \in Users : TaskSound(user[u])

ProfilesInv ==
    ProfilesType /\ IsDocument(profile) /\ LogSound(profile) /\ UserInv /\ AppliedWasWritten
-----------------------------------------------------------------------------
LEMMA InitProfilesInv == ProfileDocumentsInit => ProfilesInv
<1> SUFFICES ASSUME ProfileDocumentsInit PROVE ProfilesInv
  OBVIOUS
<1>1. IsDocument(profile) /\ profile.log = <<>>
  <2> PICK s \in Specs : \E known : profile = [FreshDelta(s) EXCEPT !.facts = known]
    BY DEF ProfileDocumentsInit
  <2>1. PICK known : profile = [FreshDelta(s) EXCEPT !.facts = known]
    OBVIOUS
  <2>2. profile = [exists |-> TRUE, valid |-> TRUE, revision |-> 1, spec |-> s, facts |-> known,
                   log |-> <<>>]
    BY <2>1 DEF FreshDelta
  <2>3. <<>> \in Seq(Nat)
    OBVIOUS
  <2> QED
    BY <2>2, <2>3 DEF IsDocument
<1>2. ProfilesType
  BY DEF ProfileDocumentsInit, ProfilesType, NoSession
<1>3. LogSound(profile)
  BY <1>1 DEF LogSound, IsInjective
<1>4. UserInv /\ AppliedWasWritten
  BY DEF ProfileDocumentsInit, UserInv, TaskSound, AppliedWasWritten
<1> QED
  BY <1>1, <1>2, <1>3, <1>4 DEF ProfilesInv

\* Proposals are added and decided, and their deltas stay.
DraftsGrow ==
    /\ profileDrafts' \in Seq(DraftRecords) /\ DOMAIN profileDrafts \subseteq DOMAIN profileDrafts'
    /\ \A p \in DOMAIN profileDrafts : profileDrafts'[p].delta = profileDrafts[p].delta

LEMMA SoundStays ==
    ASSUME DraftsGrow, NEW d, LogSound(d)
    PROVE  LogSound(d)'
  BY DEF DraftsGrow, LogSound

LEMMA TaskStays ==
    ASSUME DraftsGrow, everApplied \subseteq everApplied', NEW t, TaskSound(t)
    PROVE  TaskSound(t)'
<1>1. \A d : LogSound(d) => LogSound(d)'
  BY SoundStays
<1> QED
  BY <1>1 DEF TaskSound, DraftsGrow

LEMMA UsersKept ==
    ASSUME ProfilesInv, DraftsGrow, everApplied \subseteq everApplied',
           \/ user' = user
           \/ \E u \in Users : \E t : Becomes(u, t) /\ TaskSound(t)'
    PROVE  DOMAIN user' = Users /\ UserInv'
<1>1. \A t : TaskSound(t) => TaskSound(t)'
  BY TaskStays
<1>2. \A v \in Users : TaskSound(user[v])
  BY DEF ProfilesInv, UserInv
<1>3. CASE user' = user
  <2>1. ASSUME NEW v \in Users PROVE TaskSound(user[v])'
    <3>1. PICK t : t = user[v]
      OBVIOUS
    <3>2. TaskSound(t) /\ t = user'[v]
      BY <1>2, <1>3, <3>1
    <3>3. TaskSound(t)'
      BY <1>1, <3>2
    <3> QED
      BY <3>2, <3>3 DEF TaskSound
  <2> QED
    BY <1>3, <2>1 DEF UserInv, ProfilesInv, ProfilesType
<1>4. ASSUME NEW u \in Users, NEW doing, Becomes(u, doing), TaskSound(doing)'
      PROVE  DOMAIN user' = Users /\ UserInv'
  <2>1. /\ DOMAIN user' = Users /\ user'[u] = doing
        /\ \A v \in Users \ {u} : user'[v] = user[v]
    BY <1>4 DEF Becomes, ProfilesInv, ProfilesType
  <2>2. ASSUME NEW v \in Users PROVE TaskSound(user[v])'
    <3>1. PICK t : t = user'[v]
      OBVIOUS
    <3>2. TaskSound(t)'
      BY <1>1, <1>2, <1>4, <2>1, <3>1
    <3> QED
      BY <3>1, <3>2 DEF TaskSound
  <2> QED
    BY <2>1, <2>2 DEF UserInv
<1> QED
  BY <1>3, <1>4

SessionsTyped == session \in [Agents -> [on : BOOLEAN, revision : Nat, spec : Specs \union {"none"}]]

UserMoves ==
    \/ user' = user
    \/ \E u \in Users : \E t : Becomes(u, t) /\ TaskSound(t)'

LEMMA ProfilesKept ==
    ASSUME ProfilesInv, DraftsGrow, everApplied \subseteq everApplied', SessionsTyped', UserMoves,
           IsDocument(profile)', LogSound(profile)', AppliedWasWritten'
    PROVE  ProfilesInv'
  BY UsersKept DEF ProfilesInv, ProfilesType, DraftsGrow, SessionsTyped, UserMoves

\* Whoever leaves the document and the proposals alone.
LEMMA Untouched ==
    ASSUME ProfilesInv, UNCHANGED <<profile, profileDrafts, everApplied>>
    PROVE  /\ DraftsGrow /\ everApplied \subseteq everApplied' /\ IsDocument(profile)'
           /\ LogSound(profile)' /\ AppliedWasWritten'
  BY DEF ProfilesInv, ProfilesType, DraftsGrow, IsDocument, LogSound, AppliedWasWritten

LEMMA InjectiveAppend ==
    ASSUME NEW s \in Seq(Nat), NEW p \in Nat, IsInjective(s), \A i \in DOMAIN s : s[i] # p
    PROVE  IsInjective(s \o <<p>>)
<1> DEFINE n == Len(s)
           t == s \o <<p>>
<1>1. /\ n \in Nat /\ DOMAIN s = 1..n /\ t \in Seq(Nat) /\ Len(t) = n + 1 /\ DOMAIN t = 1..n + 1
      /\ \A i \in 1..n : t[i] = s[i]
      /\ t[n + 1] = p
  OBVIOUS
<1> HIDE DEF n, t
<1>2. \A i \in DOMAIN t : i \in 1..n \/ i = n + 1
  BY <1>1
<1>3. ASSUME NEW i \in DOMAIN t, NEW j \in DOMAIN t, t[i] = t[j]
      PROVE  i = j
  BY <1>1, <1>2, <1>3 DEF IsInjective
<1> QED
  BY <1>3 DEF IsInjective, t

\* apply_delta writes the next revision, with at most one proposal more in its log,
\* which was made for the revision before.
LEMMA WriteSound ==
    ASSUME ProfilesInv, NEW d, NEW from, Write(d, from), profileDrafts' = profileDrafts,
           \/ from = <<>>
           \/ \E p \in DOMAIN profileDrafts : from = <<p>> /\ Applies(profileDrafts[p].delta)
    PROVE  /\ DraftsGrow /\ everApplied' = everApplied \union Range(from) /\ IsDocument(profile)'
           /\ LogSound(profile)' /\ AppliedWasWritten'
<1>1. /\ IsDocument(profile) /\ profile.log \in Seq(Nat) /\ profile.revision \in Nat
      /\ profileDrafts \in Seq(DraftRecords)
      /\ \A p \in DOMAIN profileDrafts : p \in Nat /\ profileDrafts[p].delta.base \in Nat
      /\ LogSound(profile)
  <2>1. IsDocument(profile) /\ LogSound(profile) /\ profileDrafts \in Seq(DraftRecords)
    BY DEF ProfilesInv, ProfilesType
  <2>2. profile.log \in Seq(Nat) /\ profile.revision \in Nat
    BY <2>1 DEF IsDocument
  <2>3. DOMAIN profileDrafts = 1..Len(profileDrafts)
    BY <2>1
  <2>4. ASSUME NEW p \in DOMAIN profileDrafts
        PROVE  p \in Nat /\ profileDrafts[p].delta.base \in Nat
    <3>1. p \in Nat /\ profileDrafts[p] \in DraftRecords
      BY <2>1, <2>3
    <3> QED
      BY <3>1 DEF DraftRecords, Deltas
  <2> QED
    BY <2>1, <2>2, <2>4
<1>2. from \in Seq(Nat)
  <2>1. CASE from = <<>>
    BY <2>1
  <2>2. ASSUME NEW p \in DOMAIN profileDrafts, from = <<p>> PROVE from \in Seq(Nat)
    BY <1>1, <2>2
  <2> QED
    BY <2>1, <2>2
<1>3. /\ IsDocument(profile') /\ profile'.log = profile.log \o from
      /\ profile'.revision = profile.revision + 1
  <2>1. profile.log \o from \in Seq(Nat)
    BY <1>1, <1>2
  <2>2. PICK f : f = Learned(profile.facts, d)
    OBVIOUS
  <2>3. profile' = [profile EXCEPT !.revision = profile.revision + 1, !.facts = f,
                                   !.log = profile.log \o from]
    BY <2>2 DEF Write
  <2>4. /\ profile' = [exists |-> profile.exists, valid |-> profile.valid,
                        revision |-> profile.revision + 1, spec |-> profile.spec, facts |-> f,
                        log |-> profile.log \o from]
        /\ profile.exists \in BOOLEAN /\ profile.valid \in BOOLEAN /\ profile.spec \in Specs
    BY <1>1, <2>3 DEF IsDocument
  <2> QED
    <3>1. profile.revision + 1 \in Nat
      BY <1>1
    <3>2. /\ profile'.facts = f /\ profile'.log = profile.log \o from
          /\ profile'.revision = profile.revision + 1
      BY <2>4
    <3>3. profile' \in [exists : BOOLEAN, valid : BOOLEAN, revision : Nat, spec : Specs,
                        facts : {f}, log : Seq(Nat)]
      BY <2>1, <2>4, <3>1
    <3> QED
      BY <3>2, <3>3 DEF IsDocument
<1> DEFINE Logs == IsInjective(profile'.log) /\ \A i \in DOMAIN profile'.log :
          /\ profile'.log[i] \in DOMAIN profileDrafts
          /\ profileDrafts[profile'.log[i]].delta.base < profile.revision + 1
<1>4. Logs
  <2>1. CASE from = <<>>
    <3>1. profile'.log = profile.log
      BY <1>1, <1>3, <2>1
    <3> QED
      BY <1>1, <3>1 DEF LogSound
  <2>2. ASSUME NEW p \in DOMAIN profileDrafts, from = <<p>>, Applies(profileDrafts[p].delta)
        PROVE  Logs
    <3>1. profileDrafts[p].delta.base = profile.revision
      BY <2>2 DEF Applies
    <3>2. \A i \in DOMAIN profile.log : profile.log[i] # p
      BY <1>1, <3>1 DEF LogSound
    <3>3. IsInjective(profile'.log)
      BY <1>1, <1>3, <2>2, <3>2, InjectiveAppend DEF LogSound
    <3>4. \A i \in DOMAIN profile'.log :
             \/ i \in DOMAIN profile.log /\ profile'.log[i] = profile.log[i]
             \/ profile'.log[i] = p
      <4>1. profile'.log = profile.log \o <<p>>
        BY <1>1, <1>3, <2>2
      <4>2. profile.log \in Seq(Nat) /\ p \in Nat
        BY <1>1
      <4> QED
        BY <4>1, <4>2
    <3>5. ASSUME NEW i \in DOMAIN profile'.log
          PROVE  /\ profile'.log[i] \in DOMAIN profileDrafts
                 /\ profileDrafts[profile'.log[i]].delta.base < profile.revision + 1
      <4>1. CASE i \in DOMAIN profile.log /\ profile'.log[i] = profile.log[i]
        <5>1. /\ profile.log[i] \in DOMAIN profileDrafts
              /\ profileDrafts[profile.log[i]].delta.base < profile.revision
          BY <1>1, <4>1 DEF LogSound
        <5>2. profileDrafts[profile.log[i]].delta.base \in Nat /\ profile.revision \in Nat
          BY <1>1, <5>1
        <5> QED
          BY <4>1, <5>1, <5>2
      <4>2. CASE profile'.log[i] = p
        BY <1>1, <3>1, <4>2
      <4> QED
        BY <3>4, <4>1, <4>2
    <3> QED
      BY <3>3, <3>5
  <2> QED
    BY <2>1, <2>2
<1>5. LogSound(profile)'
  BY <1>3, <1>4 DEF LogSound
<1>6. everApplied' = everApplied \union Range(from)
  BY DEF Write
<1> QED
  BY <1>1, <1>3, <1>5, <1>6 DEF ProfilesInv, DraftsGrow, AppliedWasWritten, IsDocument

\* The agent: it starts, ends, proposes and learns.
LEMMA AgentSteps ==
    ASSUME ProfilesInv, NEW a \in Agents,
           StartSession(a) \/ EndSession(a) \/ \E f \in Facts : ProposeDelta(a, f) \/ Learn(a, f)
    PROVE  ProfilesInv'
<1>t. /\ SessionsTyped /\ IsDocument(profile) /\ profile.revision \in Nat /\ profile.spec \in Specs
      /\ NoSession \in [on : BOOLEAN, revision : Nat, spec : Specs \union {"none"}]
      /\ profileDrafts \in Seq(DraftRecords) /\ AppliedWasWritten
  BY DEF ProfilesInv, ProfilesType, SessionsTyped, IsDocument, NoSession
<1> DEFINE SessionRecords == [on : BOOLEAN, revision : Nat, spec : Specs \union {"none"}]
<1>s. ASSUME NEW r \in SessionRecords, session' = [session EXCEPT ![a] = r]
      PROVE  SessionsTyped'
  BY <1>s, <1>t DEF SessionsTyped
<1>n. NoSession \in SessionRecords
  BY <1>t
<1>1. CASE StartSession(a) \/ EndSession(a)
  <2>1. [on |-> TRUE, revision |-> profile.revision, spec |-> profile.spec] \in SessionRecords
    BY <1>t
  <2>2. SessionsTyped'
    BY <1>1, <1>n, <1>s, <2>1 DEF StartSession, EndSession
  <2>3. SessionsTyped' /\ UserMoves /\ UNCHANGED <<profile, profileDrafts, everApplied>>
    BY <1>1, <2>2 DEF StartSession, EndSession, UserMoves
  <2> QED
    BY <2>3, Untouched, ProfilesKept
<1>2. ASSUME NEW f \in Facts, ProposeDelta(a, f)
      PROVE  ProfilesInv'
  <2> DEFINE d == Pending(DeltaOf(a, f))
  <2>1. d \in DraftRecords /\ d.status = "pending"
    BY <1>t DEF SessionsTyped, Pending, DeltaOf, DraftRecords, Deltas
  <2>2. profileDrafts' = Append(profileDrafts, d) /\ UNCHANGED <<profile, session, user, everApplied>>
    BY <1>2 DEF ProposeDelta
  <2> HIDE DEF d
  <2>3. /\ profileDrafts' \in Seq(DraftRecords)
        /\ \A p \in DOMAIN profileDrafts :
              p \in DOMAIN profileDrafts' /\ profileDrafts'[p] = profileDrafts[p]
        /\ \A p \in DOMAIN profileDrafts' : p \in DOMAIN profileDrafts \/ profileDrafts'[p] = d
    BY <1>t, <2>1, <2>2
  <2>4. DraftsGrow
    BY <2>3 DEF DraftsGrow
  <2>5. AppliedWasWritten'
    BY <1>t, <2>1, <2>2, <2>3 DEF AppliedWasWritten
  <2>6. LogSound(profile)'
    BY <2>2, <2>4, SoundStays DEF ProfilesInv, LogSound, DraftsGrow
  <2>7. SessionsTyped' /\ UserMoves /\ IsDocument(profile)'
    BY <1>t, <2>2 DEF SessionsTyped, UserMoves, IsDocument
  <2> QED
    BY <2>2, <2>4, <2>5, <2>6, <2>7, ProfilesKept
<1>3. ASSUME NEW f \in Facts, Learn(a, f)
      PROVE  ProfilesInv'
  <2>0. session' = session \/ session' = [session EXCEPT ![a] = NoSession]
    BY <1>3 DEF Learn
  <2>t. SessionsTyped'
    BY <1>n, <1>s, <1>t, <2>0 DEF SessionsTyped
  <2>1. SessionsTyped' /\ UserMoves /\ profileDrafts' = profileDrafts
    BY <1>3, <2>t DEF Learn, UserMoves
  <2>2. Write(DeltaOf(a, f), <<>>) \/ UNCHANGED <<profile, everApplied>>
    BY <1>3 DEF Learn
  <2>3. CASE Write(DeltaOf(a, f), <<>>)
    BY <2>1, <2>3, WriteSound, ProfilesKept
  <2>4. CASE UNCHANGED <<profile, everApplied>>
    BY <2>1, <2>4, Untouched, ProfilesKept
  <2> QED
    BY <2>2, <2>3, <2>4
<1> QED
  BY <1>1, <1>2, <1>3

\* The reviewers of proposals, and the commands that apply a delta of their own.
LEMMA ReviewSteps ==
    ASSUME ProfilesInv, NEW u \in Users,
           \/ \E p \in 1..MaxProposals : Review(u, p)
           \/ RejectDelta(u) \/ Accept(u) \/ RecordApplied(u)
           \/ \E op \in {"add", "remove"}, f \in Facts : BeginDelta(u, op, f)
           \/ ApplyDelta(u)
    PROVE  ProfilesInv'
<1>t. /\ SessionsTyped /\ profileDrafts \in Seq(DraftRecords) /\ AppliedWasWritten
      /\ IsDocument(profile) /\ LogSound(profile) /\ TaskSound(user[u])
  BY DEF ProfilesInv, ProfilesType, SessionsTyped, UserInv
<1>i. TaskSound([pc |-> "idle"])'
  BY DEF TaskSound
<1>1. ASSUME NEW p, Review(u, p)
      PROVE  ProfilesInv'
  <2>1. TaskSound([pc |-> "reviewing", proposal |-> p])'
    BY <1>1 DEF Review, TaskSound
  <2>2. UserMoves /\ SessionsTyped' /\ UNCHANGED <<profile, profileDrafts, everApplied>>
    BY <1>1, <1>t, <2>1 DEF Review, UserMoves, SessionsTyped
  <2> QED
    BY <2>2, Untouched, ProfilesKept
<1>2. ASSUME NEW op, NEW f, BeginDelta(u, op, f)
      PROVE  ProfilesInv'
  <2> DEFINE doing == [pc |-> "delta", delta |->
                [base |-> profile.revision, spec |-> profile.spec, op |-> op, fact |-> f]]
  <2>1. TaskSound(doing)'
    BY DEF TaskSound
  <2>2. Becomes(u, doing) /\ UNCHANGED <<profile, session, profileDrafts, everApplied>>
    BY <1>2 DEF BeginDelta
  <2>3. PICK t : t = doing
    OBVIOUS
  <2>4. Becomes(u, t) /\ TaskSound(t)'
    BY <2>2, <2>3 DEF TaskSound
  <2>5. UserMoves /\ SessionsTyped'
    BY <1>t, <2>2, <2>4 DEF UserMoves, SessionsTyped
  <2> QED
    BY <2>2, <2>5, Untouched, ProfilesKept
<1>3. ASSUME ApplyDelta(u)
      PROVE  ProfilesInv'
  <2>1. UserMoves /\ SessionsTyped' /\ profileDrafts' = profileDrafts
    BY <1>3, <1>i, <1>t DEF ApplyDelta, UserMoves, SessionsTyped
  <2>2. Write(user[u].delta, <<>>) \/ UNCHANGED <<profile, everApplied>>
    BY <1>3 DEF ApplyDelta
  <2>3. CASE Write(user[u].delta, <<>>)
    BY <2>1, <2>3, WriteSound, ProfilesKept
  <2>4. CASE UNCHANGED <<profile, everApplied>>
    BY <2>1, <2>4, Untouched, ProfilesKept
  <2> QED
    BY <2>2, <2>3, <2>4
<1>4. ASSUME RejectDelta(u) \/ RecordApplied(u)
      PROVE  ProfilesInv'
  <2> DEFINE p == user[u].proposal
  <2>1. PICK s \in {"rejected", "applied"} :
            /\ profileDrafts' = [profileDrafts EXCEPT ![p].status = s]
            /\ s = "applied" => p \in everApplied
    BY <1>4, <1>t DEF RejectDelta, RecordApplied, TaskSound
  <2>2. p \in DOMAIN profileDrafts
    BY <1>4, <1>t DEF RejectDelta, RecordApplied, TaskSound
  <2>3. Becomes(u, [pc |-> "idle"]) /\ UNCHANGED <<profile, session, everApplied>>
    BY <1>4 DEF RejectDelta, RecordApplied
  <2>4. /\ DOMAIN profileDrafts' = DOMAIN profileDrafts
        /\ \A q \in DOMAIN profileDrafts :
              /\ profileDrafts'[q].delta = profileDrafts[q].delta
              /\ profileDrafts'[q].status = IF q = p THEN s ELSE profileDrafts[q].status
        /\ profileDrafts' \in Seq(DraftRecords)
    <3>1. DOMAIN profileDrafts = 1..Len(profileDrafts)
      BY <1>t
    <3>2. \A q \in DOMAIN profileDrafts : profileDrafts[q] \in DraftRecords
      BY <1>t, <3>1
    <3>3. profileDrafts' = [profileDrafts EXCEPT ![p] = [profileDrafts[p] EXCEPT !.status = s]]
      BY <2>1
    <3> HIDE DEF p
    <3>4. /\ [profileDrafts[p] EXCEPT !.status = s] \in DraftRecords
          /\ [profileDrafts[p] EXCEPT !.status = s].status = s
          /\ [profileDrafts[p] EXCEPT !.status = s].delta = profileDrafts[p].delta
      BY <2>2, <3>2 DEF DraftRecords
    <3>5. profileDrafts' \in Seq(DraftRecords) /\ DOMAIN profileDrafts' = DOMAIN profileDrafts
      BY <1>t, <2>2, <3>3, <3>4
    <3>6. \A q \in DOMAIN profileDrafts :
              profileDrafts'[q] = IF q = p THEN [profileDrafts[p] EXCEPT !.status = s]
                                  ELSE profileDrafts[q]
      BY <2>2, <3>3
    <3> QED
      BY <3>4, <3>5, <3>6
  <2>5. DraftsGrow
    BY <2>4 DEF DraftsGrow
  <2>6. AppliedWasWritten'
    BY <1>t, <2>1, <2>3, <2>4 DEF AppliedWasWritten
  <2>7. LogSound(profile)' /\ IsDocument(profile)'
    BY <1>t, <2>3, <2>4 DEF LogSound, IsDocument
  <2>8. UserMoves /\ SessionsTyped'
    BY <1>i, <1>t, <2>3 DEF UserMoves, SessionsTyped
  <2> QED
    BY <2>3, <2>5, <2>6, <2>7, <2>8, ProfilesKept
<1>5. ASSUME Accept(u)
      PROVE  ProfilesInv'
  <2> DEFINE p == user[u].proposal
  <2>1. p \in DOMAIN profileDrafts /\ SessionsTyped' /\ profileDrafts' = profileDrafts
    BY <1>5, <1>t DEF Accept, TaskSound, SessionsTyped
  <2>2. CASE Applies(profileDrafts[p].delta) /\ profile.revision < MaxRevision
    <3>1. /\ Write(profileDrafts[p].delta, <<p>>)
          /\ Becomes(u, [pc |-> "applied", proposal |-> p])
      BY <1>5, <2>2 DEF Accept
    <3>2. /\ DraftsGrow /\ everApplied' = everApplied \union Range(<<p>>) /\ IsDocument(profile)'
          /\ LogSound(profile)' /\ AppliedWasWritten'
      BY <2>1, <2>2, <3>1, WriteSound
    <3>3. PICK q : q = p
      OBVIOUS
    <3>4. q \in everApplied' /\ q \in DOMAIN profileDrafts'
      BY <2>1, <3>2, <3>3 DEF Range
    <3>5. TaskSound([pc |-> "applied", proposal |-> q])'
      BY <3>4 DEF TaskSound
    <3>6. UserMoves
      BY <3>1, <3>3, <3>5 DEF UserMoves
    <3> QED
      BY <2>1, <3>2, <3>6, ProfilesKept
  <2>3. CASE ~(Applies(profileDrafts[p].delta) /\ profile.revision < MaxRevision)
    <3>1. UNCHANGED <<profile, everApplied>> /\ UserMoves
      BY <1>5, <1>i, <2>3 DEF Accept, UserMoves
    <3> QED
      BY <2>1, <3>1, Untouched, ProfilesKept
  <2> QED
    BY <2>2, <2>3
<1> QED
  BY <1>1, <1>2, <1>3, <1>4, <1>5

\* The editor, and whoever creates or deletes the profile.
LEMMA EditorSteps ==
    ASSUME ProfilesInv, NEW u \in Users,
           \/ OpenPage(u)
           \/ \E sp \in Specs :
                 \/ BeginSave(u, sp) \/ CommandCreates(u, sp) \/ WizardCreates(u, sp)
                 \/ GeneratorCreates(u, sp) \/ EditorCreates(u, sp) \/ EditorImports(u, sp)
           \/ \E ok \in BOOLEAN : WriteSave(u, ok) \/ WriteNew(u, ok)
           \/ RestoreSave(u) \/ DiscardNew(u) \/ DeleteProfile(u) \/ Leave(u)
    PROVE  ProfilesInv'
<1>t. /\ SessionsTyped /\ profileDrafts \in Seq(DraftRecords) /\ AppliedWasWritten
      /\ IsDocument(profile) /\ LogSound(profile) /\ TaskSound(user[u])
  BY DEF ProfilesInv, ProfilesType, SessionsTyped, UserInv
<1>s. ASSUME UNCHANGED <<session, profileDrafts, everApplied>>
      PROVE  /\ SessionsTyped' /\ DraftsGrow /\ everApplied \subseteq everApplied'
             /\ AppliedWasWritten' /\ \A d : LogSound(d) => LogSound(d)'
  BY <1>s, <1>t DEF SessionsTyped, DraftsGrow, AppliedWasWritten, LogSound
\* A user turns to a task, and the document becomes one that is sound.
<1>k. ASSUME NEW t, Becomes(u, t), TaskSound(t)', NEW d, profile' = d, IsDocument(d), LogSound(d),
             UNCHANGED <<session, profileDrafts, everApplied>>
      PROVE  ProfilesInv'
  <2>1. UserMoves
    BY <1>k DEF UserMoves
  <2>2. LogSound(profile)' /\ IsDocument(profile)'
    BY <1>k DEF LogSound, IsDocument
  <2> QED
    BY <1>k, <1>s, <2>1, <2>2, ProfilesKept
<1>i. \A l \in {"idle", "discarding"} : TaskSound([pc |-> l])'
  BY DEF TaskSound
\* The steps that begin something and leave the document.
<1>1. ASSUME NEW t, Becomes(u, t), TaskSound(t)',
             UNCHANGED <<profile, session, profileDrafts, everApplied>>
      PROVE  ProfilesInv'
  BY <1>1, <1>k, <1>t
<1>2. CASE OpenPage(u)
  <2>1. PICK t : t = [pc |-> "editing", page |-> profile]
    OBVIOUS
  <2>2. TaskSound(t)'
    BY <2>1 DEF TaskSound
  <2> QED
    BY <1>1, <1>2, <2>1, <2>2 DEF OpenPage
<1>3. CASE Leave(u)
  BY <1>1, <1>3, <1>i DEF Leave
<1>4. ASSUME NEW sp \in Specs, NEW keeps, BeginCreate(u, keeps, sp)
      PROVE  ProfilesInv'
  <2>1. TaskSound([pc |-> "creating", keeps |-> keeps, spec |-> sp])'
    BY DEF TaskSound
  <2> QED
    BY <1>1, <1>4, <2>1 DEF BeginCreate
<1>5. ASSUME NEW sp \in Specs, BeginSave(u, sp)
      PROVE  ProfilesInv'
  <2>1. PICK old, new, f :
            /\ old = profile /\ f = user[u].page.facts
            /\ new = [profile EXCEPT !.revision = profile.revision + 1, !.spec = sp, !.facts = f]
    OBVIOUS
  <2>2. new = [exists |-> profile.exists, valid |-> profile.valid, revision |-> profile.revision + 1,
               spec |-> sp, facts |-> f, log |-> profile.log]
    BY <1>t, <2>1 DEF IsDocument
  <2>3. IsDocument(new) /\ new.log = profile.log /\ new.revision = profile.revision + 1
    BY <1>t, <2>2 DEF IsDocument
  <2>4. LogSound(new)
    <3>1. profile.revision \in Nat /\ \A i \in DOMAIN profile.log :
              /\ profile.log[i] \in DOMAIN profileDrafts
              /\ profileDrafts[profile.log[i]].delta.base \in Nat
      <4>1. profile.revision \in Nat /\ DOMAIN profileDrafts = 1..Len(profileDrafts)
        BY <1>t DEF IsDocument
      <4>2. \A p \in DOMAIN profileDrafts : profileDrafts[p] \in DraftRecords
        BY <1>t, <4>1
      <4> QED
        BY <1>t, <4>1, <4>2 DEF LogSound, DraftRecords, Deltas
    <3> QED
      BY <1>t, <2>3, <3>1 DEF LogSound
  <2>5. /\ UNCHANGED <<profile, session, profileDrafts, everApplied>>
        /\ Becomes(u, [pc |-> "saving", previous |-> old, document |-> new])
    BY <1>5, <2>1 DEF BeginSave
  <2>6. /\ IsDocument(old)' /\ LogSound(old)' /\ IsDocument(new)' /\ LogSound(new)'
    BY <1>s, <1>t, <2>1, <2>3, <2>4, <2>5 DEF IsDocument
  <2>7. TaskSound([pc |-> "saving", previous |-> old, document |-> new])'
    BY <2>6 DEF TaskSound
  <2> QED
    BY <1>1, <2>5, <2>7
<1>6. ASSUME NEW ok \in BOOLEAN, WriteSave(u, ok)
      PROVE  ProfilesInv'
  <2>1. PICK old, new, d :
            /\ old = user[u].previous /\ new = user[u].document
            /\ d = [new EXCEPT !.valid = ok]
    OBVIOUS
  <2>2. IsDocument(old) /\ LogSound(old) /\ IsDocument(new) /\ LogSound(new)
    BY <1>6, <1>t, <2>1 DEF WriteSave, TaskSound
  <2>3. IsDocument(d) /\ LogSound(d)
    <3>1. d = [exists |-> new.exists, valid |-> ok, revision |-> new.revision, spec |-> new.spec,
               facts |-> new.facts, log |-> new.log]
      BY <2>1, <2>2 DEF IsDocument
    <3> QED
      BY <2>2, <3>1 DEF IsDocument, LogSound
  <2>4. profile' = d /\ UNCHANGED <<session, profileDrafts, everApplied>>
    BY <1>6, <2>1 DEF WriteSave
  <2>5. Becomes(u, [pc |-> "idle"]) \/ Becomes(u, [pc |-> "restoring", previous |-> old])
    BY <1>6, <2>1 DEF WriteSave
  <2>6. TaskSound([pc |-> "restoring", previous |-> old])'
    <3>1. IsDocument(old)' /\ LogSound(old)'
      BY <1>s, <2>2, <2>4 DEF IsDocument
    <3> QED
      BY <3>1 DEF TaskSound
  <2> QED
    BY <1>i, <1>k, <2>3, <2>4, <2>5, <2>6
<1>7. CASE RestoreSave(u)
  <2>1. PICK old : old = user[u].previous
    OBVIOUS
  <2>2. IsDocument(old) /\ LogSound(old)
    BY <1>7, <1>t, <2>1 DEF RestoreSave, TaskSound
  <2> QED
    BY <1>7, <1>i, <1>k, <2>1, <2>2 DEF RestoreSave
<1>8. ASSUME NEW ok \in BOOLEAN, WriteNew(u, ok)
      PROVE  ProfilesInv'
  <2>1. PICK d : d = [FreshDelta(user[u].spec) EXCEPT !.valid = ok]
    OBVIOUS
  <2>2. user[u].spec \in Specs
    BY <1>8, <1>t DEF WriteNew, TaskSound
  <2>3. IsDocument(d) /\ LogSound(d)
    <3>1. d = [exists |-> TRUE, valid |-> ok, revision |-> 1, spec |-> user[u].spec,
               facts |-> <<>>, log |-> <<>>]
      BY <2>1 DEF FreshDelta
    <3>2. <<>> \in Seq(Nat) /\ DOMAIN <<>> = {}
      OBVIOUS
    <3> QED
      BY <2>2, <3>1, <3>2 DEF IsDocument, LogSound, IsInjective
  <2>4. PICK l \in {"idle", "discarding"} : Becomes(u, [pc |-> l])
    BY <1>8 DEF WriteNew
  <2> QED
    BY <1>8, <1>i, <1>k, <2>1, <2>3, <2>4 DEF WriteNew
\* A profile that is taken away.
<1>9. PICK gone : gone = [profile EXCEPT !.exists = FALSE]
  OBVIOUS
<1>10. IsDocument(gone) /\ LogSound(gone)
  <2>1. gone = [exists |-> FALSE, valid |-> profile.valid, revision |-> profile.revision,
                spec |-> profile.spec, facts |-> profile.facts, log |-> profile.log]
    BY <1>9, <1>t DEF IsDocument
  <2> QED
    BY <1>t, <2>1 DEF IsDocument, LogSound
<1>11. CASE DiscardNew(u)
  BY <1>9, <1>10, <1>11, <1>i, <1>k DEF DiscardNew
<1>12. CASE DeleteProfile(u)
  <2>1. profile' = gone /\ user' = user /\ UNCHANGED <<session, profileDrafts, everApplied>>
    BY <1>9, <1>12 DEF DeleteProfile
  <2>2. LogSound(profile)' /\ IsDocument(profile)' /\ UserMoves
    BY <1>10, <2>1 DEF LogSound, IsDocument, UserMoves
  <2> QED
    BY <1>s, <2>1, <2>2, ProfilesKept
<1> QED
  BY <1>2, <1>3, <1>4, <1>5, <1>6, <1>7, <1>8, <1>11, <1>12 DEF CommandCreates, WizardCreates,
     GeneratorCreates, EditorCreates, EditorImports

LEMMA ProfilesInvPreserved ==
    ProfilesInv /\ [ProfileDocumentsNext]_profileDocumentsVars => ProfilesInv'
<1> SUFFICES ASSUME ProfilesInv, [ProfileDocumentsNext]_profileDocumentsVars
             PROVE  ProfilesInv'
  OBVIOUS
<1>1. CASE UNCHANGED profileDocumentsVars
  <2>1. UNCHANGED <<profile, profileDrafts, everApplied, session, user>>
    BY <1>1 DEF profileDocumentsVars
  <2>2. SessionsTyped' /\ UserMoves
    BY <2>1 DEF ProfilesInv, ProfilesType, SessionsTyped, UserMoves
  <2> QED
    BY <2>1, <2>2, Untouched, ProfilesKept
<1> QED
  BY <1>1, AgentSteps, ReviewSteps, EditorSteps DEF ProfileDocumentsNext

\* The invariant of a profile, its proposals and its editors holds.
THEOREM ProfilesInvariant == ProfileDocumentsSpec => []ProfilesInv
  BY InitProfilesInv, ProfilesInvPreserved, PTL DEF ProfileDocumentsSpec

(* For any agents, users, facts and revisions: the delta of a proposal is in *)
(* a document at most once, and at least once when it is recorded as applied. *)
THEOREM DeltasAppliedOnceHolds == ProfileDocumentsSpec => []DeltasAppliedOnce
<1>1. ProfilesInv => DeltasAppliedOnce
  BY DEF ProfilesInv, LogSound, DeltasAppliedOnce, DeltaOnce
<1> QED
  BY <1>1, ProfilesInvariant, PTL
=============================================================================
