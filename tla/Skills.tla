------------------------------- MODULE Skills -------------------------------
(***************************************************************************)
(* SkillRegistry (src/src/loro/skills.py): skill packages in the project's *)
(* directory, the file of their states, and proposals that a review        *)
(* installs; and the import of the skills of another tool                  *)
(* (src/src/loro/skill_compat.py), which installs them one by one and      *)
(* takes them all away again when one fails.  Every command makes a        *)
(* registry of its own, which reads the state file once and later writes   *)
(* the whole of what it then holds.  Several commands run side by side,    *)
(* and a package may be edited at any time.  A content stands for its      *)
(* digest.                                                                 *)
(***************************************************************************)
EXTENDS Integers, FiniteSets

CONSTANTS SkillNames,       \* names of skills
          Contents,         \* contents of a package
          NoPackage,        \* the content of a directory that is not there
          SkillCommands,    \* processes that run a command
          MaxSkillCommands, \* bound on the commands
          MaxSourceEdits    \* bound on the edits of packages

ASSUME SkillsAssumption ==
    /\ NoPackage \notin Contents /\ IsFiniteSet(SkillCommands)
    /\ MaxSkillCommands \in Nat /\ MaxSourceEdits \in Nat

VARIABLES
    packages,      \* packages[s]: the content of s's directory, or NoPackage
    skillStates,   \* the state file: [state, digest] of the names it holds
    skillSource,   \* skillSource[s]: the content of the directory s is made in
    skillProposal, \* the proposal: its content, digest, skill and status
    skillCommand,  \* skillCommand[c]: [step, skill, states, expected, from, record,
                   \*   and of an import: staged, left, put]
    commandsRun,   \* commands begun so far
    sourceEdits,   \* edits so far
    installed,     \* <<c, s>>: c's installation of s went through and stands
    robbed,        \* <<c, s>>: what c had put at s was taken away under it
    removed,       \* skills that a removal, or the end of an import, took away
    acceptances    \* installations of the proposal that went through

skillsVars == <<packages, skillStates, skillSource, skillProposal, skillCommand,
                commandsRun, sourceEdits, installed, robbed, removed, acceptances>>

placeVars == <<installed, robbed, removed>>

SkillStates == {"enabled", "disabled", "quarantined"}

NoProposal == [status |-> "none"]
NoCommand  == [step |-> "idle", put |-> {}]
NotStaged  == [s \in SkillNames |-> NoPackage]

Registry(step, s, expected, from, record) ==
    [step |-> step, skill |-> s, states |-> skillStates, expected |-> expected,
     from |-> from, record |-> record, staged |-> NotStaged, left |-> {}, put |-> {}]

SkillsInit ==
    /\ packages = [s \in SkillNames |-> NoPackage]
    /\ skillSource \in [SkillNames -> Contents]
    /\ skillStates = [s \in {} |-> NoCommand]
    /\ skillProposal = NoProposal
    /\ skillCommand = [c \in SkillCommands |-> NoCommand]
    /\ commandsRun = 0 /\ sourceEdits = 0
    /\ installed = {} /\ robbed = {} /\ removed = {} /\ acceptances = 0

AtStep(c, step) == skillCommand[c].step = step

StepTo(c, step) == skillCommand' = [skillCommand EXCEPT ![c].step = step]

CommandEnds(c) == skillCommand' = [skillCommand EXCEPT ![c] = NoCommand]

(* An installation fails: an import takes away what it has put so far. *)
InstallFails(c) ==
    IF skillCommand[c].from = "import" THEN StepTo(c, "undo") ELSE CommandEnds(c)

Verifying(c, s) == skillCommand[c].step = "verify" /\ skillCommand[c].skill = s

(* c may yet take s away: a copy that it has to verify, or one that its    *)
(* import has put.                                                         *)
Holds(c, s) == Verifying(c, s) \/ s \in skillCommand[c].put

(* c takes s away from the others that count on what is there. *)
RobsOthers(c, s) ==
    robbed' = robbed \cup {<<d, s>> : d \in {e \in SkillCommands \ {c} : Holds(e, s)}}

OpenRegistry(c, registry) ==
    /\ AtStep(c, "idle") /\ commandsRun < MaxSkillCommands
    /\ commandsRun' = commandsRun + 1
    /\ skillCommand' = [skillCommand EXCEPT ![c] = registry]
    /\ robbed' = {p \in robbed : p[1] # c}
    /\ UNCHANGED <<packages, skillStates, skillSource, skillProposal, sourceEdits,
                   installed, removed, acceptances>>

(* enable, disable, quarantine and remove name a skill that is found.      *)
AskState(c, s) ==
    packages[s] # NoPackage /\ OpenRegistry(c, Registry("set", s, NoPackage, "", ""))

AskRemove(c, s) ==
    packages[s] # NoPackage /\ OpenRegistry(c, Registry("remove", s, NoPackage, "", ""))

(* An installation with the digest somebody reviewed. *)
AskInstall(c, s, digest) ==
    OpenRegistry(c, Registry("check", s, digest, "source", ""))

AskPropose(c, s) ==
    OpenRegistry(c, Registry("propose", s, skillSource[s], "source", ""))

(* An import of the skills of a reviewed directory: they are staged as they *)
(* are now (the directory's digest is compared before and after).          *)
AskImport(c, names) ==
    /\ names # {}
    /\ OpenRegistry(c, [Registry("next", CHOOSE s \in names : TRUE, NoPackage, "import", "")
                        EXCEPT !.staged = skillSource, !.left = names])

(* The record of the proposal is read once: it must be pending. *)
AskReview(c, verdict) ==
    /\ skillProposal.status = "pending"
    /\ OpenRegistry(c, Registry(IF verdict = "accepted" THEN "check" ELSE "record",
                                skillProposal.skill, skillProposal.digest, "proposal",
                                verdict))

WithState(states, s, record) ==
    [n \in (DOMAIN states) \cup {s} |-> IF n = s THEN record ELSE states[n]]

WithoutState(states, s) == [n \in (DOMAIN states) \ {s} |-> states[n]]

(* The digest is taken now; the file becomes what the registry holds. *)
SetState(c) ==
    LET s == skillCommand[c].skill
    IN  /\ AtStep(c, "set")
        /\ IF packages[s] = NoPackage THEN UNCHANGED skillStates
           ELSE \E state \in SkillStates :
                    skillStates' = WithState(skillCommand[c].states, s,
                                             [state |-> state, digest |-> packages[s]])
        /\ CommandEnds(c)
        /\ UNCHANGED <<packages, skillSource, skillProposal, commandsRun, sourceEdits,
                       placeVars, acceptances>>

RemovePackage(c) ==
    LET s == skillCommand[c].skill
    IN  /\ AtStep(c, "remove")
        /\ IF packages[s] = NoPackage THEN CommandEnds(c) ELSE StepTo(c, "forget")
        /\ packages' = [packages EXCEPT ![s] = NoPackage]
        /\ IF packages[s] = NoPackage THEN UNCHANGED placeVars
           ELSE /\ installed' = {p \in installed : p[2] # s}
                /\ removed' = removed \cup {s}
                /\ RobsOthers(c, s)
        /\ UNCHANGED <<skillStates, skillSource, skillProposal, commandsRun, sourceEdits,
                       acceptances>>

ForgetState(c) ==
    /\ AtStep(c, "forget")
    /\ skillStates' = WithoutState(skillCommand[c].states, skillCommand[c].skill)
    /\ CommandEnds(c)
    /\ UNCHANGED <<packages, skillSource, skillProposal, commandsRun, sourceEdits,
                   placeVars, acceptances>>
-----------------------------------------------------------------------------
(* The proposal is what the source is when it is copied, under the digest  *)
(* that was taken before.  Only the first proposal is followed further.    *)
ProposeSkill(c) ==
    LET s == skillCommand[c].skill
    IN  /\ AtStep(c, "propose")
        /\ skillProposal' = IF skillProposal # NoProposal THEN skillProposal
                            ELSE [status |-> "pending", skill |-> s,
                                  content |-> skillSource[s],
                                  digest |-> skillCommand[c].expected]
        /\ CommandEnds(c)
        /\ UNCHANGED <<packages, skillStates, skillSource, commandsRun, sourceEdits,
                       placeVars, acceptances>>

(* An import goes on with one of the skills that are left. *)
NextImport(c) ==
    /\ AtStep(c, "next")
    /\ IF skillCommand[c].left = {} THEN CommandEnds(c)
       ELSE \E s \in skillCommand[c].left :
                skillCommand' = [skillCommand EXCEPT
                    ![c] = [skillCommand[c] EXCEPT !.step = "check", !.skill = s,
                                !.left = skillCommand[c].left \ {s},
                                !.expected = skillCommand[c].staged[s]]]
    /\ UNCHANGED <<packages, skillStates, skillSource, skillProposal, commandsRun,
                   sourceEdits, placeVars, acceptances>>

(* What an installation copies from. *)
Offered(c) ==
    CASE skillCommand[c].from = "source"   -> skillSource[skillCommand[c].skill]
      [] skillCommand[c].from = "import"   -> skillCommand[c].staged[skillCommand[c].skill]
      [] skillCommand[c].from = "proposal" -> skillProposal.content

CheckCandidate(c) ==
    /\ AtStep(c, "check")
    /\ IF /\ Offered(c) = skillCommand[c].expected
          /\ packages[skillCommand[c].skill] = NoPackage
       THEN StepTo(c, "copy") ELSE InstallFails(c)
    /\ UNCHANGED <<packages, skillStates, skillSource, skillProposal, commandsRun,
                   sourceEdits, placeVars, acceptances>>

(* Faulty variant: the copy is inside the try, whose handler removes the   *)
(* destination.                                                            *)
AfterRefusedCopyCleared(s) == NoPackage

(* copytree does not write into a directory that is there by now, and      *)
(* raises before the try.                                                  *)
AfterRefusedCopy(s) == packages[s]

CopyPackage(c) ==
    LET s == skillCommand[c].skill
    IN  /\ AtStep(c, "copy")
        /\ IF packages[s] = NoPackage
           THEN /\ packages' = [packages EXCEPT ![s] = Offered(c)]
                /\ StepTo(c, "verify")
           ELSE /\ packages' = [packages EXCEPT ![s] = AfterRefusedCopy(s)]
                /\ InstallFails(c)
        /\ UNCHANGED <<skillStates, skillSource, skillProposal, commandsRun, sourceEdits,
                       placeVars, acceptances>>

(* A review goes on to its record, an import to its next skill. *)
CopyStays(c, s) ==
    LET from == skillCommand[c].from
    IN  /\ installed' = IF <<c, s>> \in robbed THEN installed
                        ELSE installed \cup {<<c, s>>}
        /\ acceptances' = IF from = "proposal" THEN acceptances + 1 ELSE acceptances
        /\ CASE from = "source"   -> CommandEnds(c)
             [] from = "proposal" -> StepTo(c, "record")
             [] from = "import"   ->
                  skillCommand' = [skillCommand EXCEPT
                      ![c] = [skillCommand[c] EXCEPT !.step = "next",
                                  !.put = skillCommand[c].put \cup {s}]]
        /\ UNCHANGED <<packages, robbed, removed>>

(* What one that was robbed takes away need not be its own: those whose     *)
(* installation it was have lost it.                                       *)
Loses(c, s) ==
    installed' = IF <<c, s>> \in robbed THEN {p \in installed : p[2] # s}
                 ELSE installed \ {<<c, s>>}

CopyTaken(c, s) ==
    /\ packages' = [packages EXCEPT ![s] = NoPackage]
    /\ Loses(c, s) /\ RobsOthers(c, s)
    /\ InstallFails(c)
    /\ UNCHANGED <<removed, acceptances>>

(* The digest of what arrived.  What is there may be another's by now: an   *)
(* installation stands only when it found its own copy.                    *)
VerifyCopy(c) ==
    LET s     == skillCommand[c].skill
        right == packages[s] = skillCommand[c].expected
    IN  /\ AtStep(c, "verify")
        /\ IF right THEN CopyStays(c, s) ELSE CopyTaken(c, s)
        /\ UNCHANGED <<skillStates, skillSource, skillProposal, commandsRun, sourceEdits>>

(* The import's handler takes away what it has put, one directory after     *)
(* the other and whatever is there by now.                                 *)
UndoImport(c) ==
    /\ AtStep(c, "undo")
    /\ IF skillCommand[c].put = {}
       THEN CommandEnds(c) /\ UNCHANGED <<packages, placeVars>>
       ELSE \E s \in skillCommand[c].put :
                /\ packages' = [packages EXCEPT ![s] = NoPackage]
                /\ Loses(c, s) /\ RobsOthers(c, s) /\ removed' = removed \cup {s}
                /\ skillCommand' = [skillCommand EXCEPT ![c].put = @ \ {s}]
    /\ UNCHANGED <<skillStates, skillSource, skillProposal, commandsRun, sourceEdits,
                   acceptances>>

(* The review's verdict replaces whatever the record says by now. *)
RecordReview(c) ==
    /\ AtStep(c, "record")
    /\ skillProposal' = [skillProposal EXCEPT !.status = skillCommand[c].record]
    /\ CommandEnds(c)
    /\ UNCHANGED <<packages, skillStates, skillSource, commandsRun, sourceEdits,
                   placeVars, acceptances>>

(* A command dies, at any of its steps; what a copy cut short leaves is as  *)
(* good as an edit of what it would have left.                             *)
CommandDies(c) ==
    /\ ~AtStep(c, "idle") /\ CommandEnds(c)
    /\ UNCHANGED <<packages, skillStates, skillSource, skillProposal, commandsRun,
                   sourceEdits, placeVars, acceptances>>

(* Somebody edits a package, where it is made or where it is installed. *)
EditPackage(s, content) ==
    /\ sourceEdits < MaxSourceEdits /\ sourceEdits' = sourceEdits + 1
    /\ \/ /\ skillSource' = [skillSource EXCEPT ![s] = content] /\ UNCHANGED packages
       \/ /\ packages[s] # NoPackage
          /\ packages' = [packages EXCEPT ![s] = content] /\ UNCHANGED skillSource
    /\ UNCHANGED <<skillStates, skillProposal, skillCommand, commandsRun, placeVars,
                   acceptances>>

SkillsNext ==
    \/ \E c \in SkillCommands :
         \/ \E s \in SkillNames :
              \/ AskState(c, s) \/ AskRemove(c, s) \/ AskPropose(c, s)
              \/ \E digest \in Contents : AskInstall(c, s, digest)
         \/ \E names \in SUBSET SkillNames : AskImport(c, names)
         \/ \E verdict \in {"accepted", "rejected"} : AskReview(c, verdict)
         \/ SetState(c) \/ RemovePackage(c) \/ ForgetState(c) \/ ProposeSkill(c)
         \/ NextImport(c) \/ CheckCandidate(c) \/ CopyPackage(c) \/ VerifyCopy(c)
         \/ UndoImport(c) \/ RecordReview(c) \/ CommandDies(c)
    \/ \E s \in SkillNames, content \in Contents : EditPackage(s, content)

SkillsSpec == SkillsInit /\ [][SkillsNext]_skillsVars
-----------------------------------------------------------------------------
(* What an installation has put in place is there until a removal, or the  *)
(* handler of its own import, takes it away: no other command that fails,  *)
(* whatever the order of their steps, does so, unless its own copy of that *)
(* skill had been taken away from under it (install,                       *)
(* import_compatible_skills).                                              *)
InstalledStays == \A p \in installed : packages[p[2]] # NoPackage

(* A proposal that is recorded as accepted was installed, and reviewers    *)
(* who accept it side by side install it once between them, as long as     *)
(* nothing takes it away again (review).                                   *)
AcceptedOnce ==
    /\ skillProposal.status = "accepted" => acceptances > 0
    /\ acceptances > 1 => skillProposal.skill \in removed

(* Installations neither undo nor repeat each other. *)
InstallsHold == InstalledStays /\ AcceptedOnce

(* "Accept or reject a staged skill proposal exactly once"                 *)
(* (cli/skills.py:270): a proposal that was installed is not recorded as   *)
(* rejected.                                                               *)
ReviewedOnce == acceptances > 0 => skillProposal.status # "rejected"

(* A state that was set for a skill is the file's until a command names    *)
(* that skill again.                                                       *)
StateKept ==
    [][\A s \in DOMAIN skillStates :
          (s \notin DOMAIN skillStates' \/ skillStates'[s] # skillStates[s])
          => \E c \in SkillCommands : skillCommand[c] # skillCommand'[c]
                                      /\ skillCommand[c].skill = s]_skillsVars
=============================================================================
