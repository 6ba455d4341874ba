-------------------------- MODULE WorkspacePatches --------------------------
(***************************************************************************)
(* patch.apply (src/src/loro/tool_runtime.py:_apply_patch) and the         *)
(* algorithm behind it (src/src/loro/tools/patching.py): locate every hunk *)
(* of every file of a unified diff, then write the files one by one.       *)
(* A file is [lines, breaks, ended]: its lines, whether a break between    *)
(* them is a CRLF ("crlf") or all are LF ("lf"), and whether the last line *)
(* has a break.  A diff is a sequence of sections                          *)
(* [form, old, new, hunks, unended]: "headed" by --- and +++ lines, "bare" *)
(* without them or "malformed"; a name that is NoFile stands for /dev/null;*)
(* unended says that the marker of a missing last newline stands in it for *)
(* the new file.  A hunk is [at, before, after]: the line its header names *)
(* in the old file and the lines it expects and leaves there.  Another     *)
(* program may write the same files meanwhile.                             *)
(***************************************************************************)
EXTENDS Integers, Sequences, SequencesExt, FiniteSetsExt

CONSTANTS Files,      \* names of workspace files
          TextLines,  \* what a line can be
          NoFile,     \* /dev/null, and the content of a file that is not there
          Diffs,      \* [from, sections, to]: a diff with the trees it was made of
          MaxOffset,  \* MAX_OFFSET, how far a hunk may have drifted
          MaxForeign, \* bound on the writes of other programs
          ForeignTexts \* what they write

Texts == [lines : Seq(TextLines), breaks : {"lf", "crlf"}, ended : BOOLEAN]

ASSUME PatchAssumption ==
    /\ NoFile \notin Files /\ NoFile \notin Texts
    /\ MaxOffset \in Nat /\ MaxForeign \in Nat

VARIABLES diff,      \* the diff of the call, a member of Diffs
          dryRun,    \* the call only reports
          tree,      \* tree[f]: the text of f, or NoFile
          patchPhase, \* "asked", "planning", "writing", "over"
          planned,   \* the texts to write, one per section located so far
          conflicts, \* sections with a hunk that does not match
          section,   \* the section being planned or written
          foreign,   \* writes of other programs so far
          outcome,   \* "none", "invalid", "denied", "conflict", "reported", "applied", "raised"
          touched    \* files this call has changed

patchVars == <<diff, dryRun, tree, patchPhase, planned, conflicts, section, foreign,
               outcome, touched>>

Sections == diff.sections

Kind(part) ==
    IF part.old = NoFile THEN "create"
    ELSE IF part.new = NoFile THEN "delete"
    ELSE IF part.old = part.new THEN "modify"
    ELSE "rename"

Target(part) == IF part.new = NoFile THEN part.old ELSE part.new

(* parse_unified_diff: a section without its headers is passed over, as    *)
(* long as another one has them, and the marker of a missing last newline  *)
(* is dropped.                                                             *)
Invalid ==
    \/ \E i \in 1..Len(Sections) : Sections[i].form = "malformed"
    \/ \A i \in 1..Len(Sections) : Sections[i].form = "bare"

(* The places a hunk's lines are found at. *)
Matches(lines, hunk) ==
    {i \in 0..(Len(lines) - Len(hunk.before)) :
        SubSeq(lines, i + 1, i + Len(hunk.before)) = hunk.before}

Distance(a, b) == IF a < b THEN b - a ELSE a - b

Within(lines, hint) == Max({0, Min({hint, Len(lines)})})

(* _locate: the match nearest to the place the header gives, either of two *)
(* as near; a hunk that expects nothing goes to that place itself.         *)
Locations(lines, hunk, hint) ==
    IF hunk.before = <<>> THEN {Within(lines, hint)}
    ELSE LET near == {i \in Matches(lines, hunk) : Distance(i, hint) <= MaxOffset}
         IN  {i \in near : \A j \in near : Distance(i, hint) <= Distance(j, hint)}

Spliced(lines, hunk, i) ==
    SubSeq(lines, 1, i) \o hunk.after
    \o SubSeq(lines, i + Len(hunk.before) + 1, Len(lines))

(* How many lines of the old file come before the hunk, as it says.        *)
HunkStart(hunk) == Max({hunk.at - 1, 0})

(* Where the hunk is looked for first: earlier hunks of the section have   *)
(* moved the lines after them by drift.                                    *)
HintWith(hunk, drift) == HunkStart(hunk) + drift

(* Faulty variant: the drift of the earlier hunks is left out. *)
HintAsStated(hunk, drift) == HintWith(hunk, 0)

Hint(hunk, drift) == HintWith(hunk, drift)

(* A hunk is located in each text made so far, and replaced there.         *)
Located(partial, hunk) ==
    UNION {{[lines |-> Spliced(p.lines, hunk, i),
             drift |-> p.drift + Len(hunk.after) - Len(hunk.before)] :
            i \in Locations(p.lines, hunk, Hint(hunk, p.drift))} : p \in partial}

(* The texts a section's hunks can make of lines: all of them located in   *)
(* turn, or nothing.                                                       *)
Results(lines, hunks) ==
    LET Partial[i \in 0..Len(hunks)] ==
            IF i = 0 THEN {[lines |-> lines, drift |-> 0]}
            ELSE Located(Partial[i - 1], hunks[i])
    IN  {p.lines : p \in Partial[Len(hunks)]}

(* Lines become a text again: joined by LF, with a last newline if the old *)
(* text had one and there are any.                                         *)
Stored(lines, ended) ==
    [lines |-> lines, breaks |-> "lf", ended |-> lines # <<>> /\ ended]

(* What planning a section finds: a set of texts, empty for a conflict.    *)
(* A file is read with its breaks turned into LF.                          *)
Plans(part) ==
    IF Kind(part) = "create"
    THEN IF tree[part.new] # NoFile THEN {}
         ELSE {Stored(lines, TRUE) : lines \in Results(<<>>, part.hunks)}
    ELSE IF tree[part.old] = NoFile THEN {}
    ELSE IF Kind(part) = "delete"
    THEN {NoFile : lines \in Results(tree[part.old].lines, part.hunks) \cap {<<>>}}
    ELSE {Stored(lines, tree[part.old].ended) :
             lines \in Results(tree[part.old].lines, part.hunks)}

(* What a diff says, read as its format defines it: the old file from its  *)
(* beginning, with each hunk's lines in place of those it stands for.      *)
HunkEnd(hunks, i) ==
    IF i = 0 THEN 0 ELSE HunkStart(hunks[i]) + Len(hunks[i].before)

Rewritten(lines, hunks) ==
    LET Made[i \in 0..Len(hunks)] ==
            IF i = 0 THEN <<>>
            ELSE Made[i - 1] \o SubSeq(lines, HunkEnd(hunks, i - 1) + 1, HunkStart(hunks[i]))
                 \o hunks[i].after
    IN  Made[Len(hunks)] \o SubSeq(lines, HunkEnd(hunks, Len(hunks)) + 1, Len(lines))

(* The hunks stand in the order of the file, where its lines are as each   *)
(* of them says.                                                           *)
Fits(lines, hunks) ==
    \A i \in 1..Len(hunks) :
        /\ HunkEnd(hunks, i - 1) <= HunkStart(hunks[i])
        /\ HunkEnd(hunks, i) <= Len(lines)
        /\ SubSeq(lines, HunkStart(hunks[i]) + 1, HunkEnd(hunks, i)) = hunks[i].before

OldLines(from, part) == IF part.old = NoFile THEN <<>> ELSE from[part.old].lines

NewLines(from, part) == Rewritten(OldLines(from, part), part.hunks)

(* Breaks stay as they are, and so does the end of a file that no hunk     *)
(* reaches.                                                                *)
NewText(from, part) ==
    IF Kind(part) = "delete" THEN NoFile
    ELSE [lines |-> NewLines(from, part),
          breaks |-> IF part.old = NoFile THEN "lf" ELSE from[part.old].breaks,
          ended |-> /\ NewLines(from, part) # <<>>
                    /\ IF HunkEnd(part.hunks, Len(part.hunks)) = Len(OldLines(from, part))
                       THEN ~part.unended ELSE from[part.old].ended]

NewTexts(d) == [i \in 1..Len(d.sections) |-> NewText(d.from, d.sections[i])]

Contextual(part) == \A i \in 1..Len(part.hunks) :
    part.hunks[i].before # <<>> \/ part.old = NoFile

Makes(part) == {part.new} \ {NoFile}

Removes(part) == {part.old} \ {part.new, NoFile}

(* No section makes or removes what an earlier one has made: a rename of f *)
(* to g and one of g to f would leave no g.                                *)
Orderly(sections) ==
    \A i, j \in 1..Len(sections) :
        i < j => Makes(sections[i]) \cap (Makes(sections[j]) \cup Removes(sections[j])) = {}

(* The tree a diff leaves once the texts of its first sections are         *)
(* written: each section is about the files as they were before any.       *)
Remade(d, n, texts) ==
    [f \in Files |->
        LET makers == {i \in 1..n : d.sections[i].new = f}
        IN  IF makers # {} THEN texts[Max(makers)]
            ELSE IF \E i \in 1..n : d.sections[i].old = f THEN NoFile
            ELSE d.from[f]]

(* The diffs PatchReproduces is about.                                     *)
Plain(d) ==
    /\ Orderly(d.sections)
    /\ \A i \in 1..Len(d.sections) :
          d.sections[i].form = "headed" /\ Contextual(d.sections[i])

(* The last newline a section's file has from what was there before.       *)
EndKept(from, part) == IF part.old = NoFile THEN TRUE ELSE from[part.old].ended

(* A diff leaves LF for the breaks of a file and its last newline as it    *)
(* was, or makes a file that has one.                                      *)
KeepsStyle(d, f) ==
    \A i \in 1..Len(d.sections) : d.sections[i].new = f =>
        /\ d.to[f].breaks = "lf"
        /\ d.to[f].lines # <<>> => d.to[f].ended = EndKept(d.from, d.sections[i])

HunksTyped(hunks) ==
    /\ hunks \in Seq(Range(hunks))
    /\ \A k \in 1..Len(hunks) : /\ hunks[k].at \in Nat
                                /\ hunks[k].before \in Seq(TextLines)
                                /\ hunks[k].after \in Seq(TextLines)

PartTyped(part, from) ==
    /\ part.old \in Files \cup {NoFile} /\ part.new \in Files \cup {NoFile}
    /\ {part.old, part.new} # {NoFile}
    /\ HunksTyped(part.hunks) /\ part.unended \in BOOLEAN
    /\ part.old # NoFile => from[part.old] \in Texts

(* A plain diff fits the tree it is made from, and is made to the tree it  *)
(* says (Remade), which does not go by what _locate finds.                 *)
ASSUME DiffsAssumption ==
    \A d \in Diffs :
        /\ d.from = [f \in Files |-> d.from[f]]
        /\ d.sections \in Seq(Range(d.sections))
        /\ Plain(d) =>
              /\ \A i \in 1..Len(d.sections) :
                    /\ PartTyped(d.sections[i], d.from)
                    /\ Fits(OldLines(d.from, d.sections[i]), d.sections[i].hunks)
              /\ d.to = Remade(d, Len(d.sections), NewTexts(d))

PatchInit ==
    /\ diff \in Diffs /\ dryRun \in BOOLEAN
    /\ tree = diff.from
    /\ patchPhase = "asked" /\ planned = <<>> /\ conflicts = {} /\ section = 1
    /\ foreign = 0 /\ outcome = "none" /\ touched = {}

(* What cannot be parsed is refused before policy and approval.            *)
RejectDiff ==
    /\ patchPhase = "asked" /\ Invalid
    /\ patchPhase' = "over" /\ outcome' = "invalid"
    /\ UNCHANGED <<diff, dryRun, tree, planned, conflicts, section, foreign, touched>>

(* Policy and approval come before anything is read; a dry run needs only  *)
(* the permission to read.                                                 *)
Authorize ==
    /\ patchPhase = "asked" /\ ~Invalid
    /\ \/ patchPhase' = "planning" /\ UNCHANGED outcome
       \/ patchPhase' = "over" /\ outcome' = "denied"
    /\ UNCHANGED <<diff, dryRun, tree, planned, conflicts, section, foreign, touched>>

PlanSection ==
    LET part == Sections[section]
    IN  /\ patchPhase = "planning" /\ section <= Len(Sections) /\ part.form = "headed"
        /\ IF Plans(part) = {}
           THEN conflicts' = conflicts \cup {section} /\ UNCHANGED planned
           ELSE /\ \E text \in Plans(part) :
                      planned' = Append(planned, [part |-> part, text |-> text])
                /\ UNCHANGED conflicts
        /\ section' = section + 1
        /\ UNCHANGED <<diff, dryRun, tree, patchPhase, foreign, outcome, touched>>

PassOverSection ==
    /\ patchPhase = "planning" /\ section <= Len(Sections) /\ Sections[section].form = "bare"
    /\ section' = section + 1
    /\ UNCHANGED <<diff, dryRun, tree, patchPhase, planned, conflicts, foreign, outcome,
                   touched>>

(* Faulty variant: what could be located is written all the same. *)
RefusedIfNothing == planned = <<>>

Refused == conflicts # {}

PlanEnds ==
    /\ patchPhase = "planning" /\ section > Len(Sections)
    /\ IF Refused \/ dryRun
       THEN /\ patchPhase' = "over" /\ UNCHANGED section
            /\ outcome' = IF Refused THEN "conflict" ELSE "reported"
       ELSE patchPhase' = "writing" /\ section' = 1 /\ UNCHANGED outcome
    /\ UNCHANGED <<diff, dryRun, tree, planned, conflicts, foreign, touched>>

(* One file: replaced atomically, or unlinked; a rename then unlinks the   *)
(* old name.                                                               *)
Written(part, text) ==
    LET put == [tree EXCEPT ![Target(part)] = text]
    IN  IF Kind(part) = "rename" THEN [put EXCEPT ![part.old] = NoFile] ELSE put

WriteSection ==
    LET next == planned[section]
    IN  /\ patchPhase = "writing" /\ section <= Len(planned)
        /\ ~(Kind(next.part) = "delete" /\ tree[next.part.old] = NoFile)
        /\ tree' = Written(next.part, next.text)
        /\ touched' = touched \cup {Target(next.part)}
        /\ section' = section + 1
        /\ UNCHANGED <<diff, dryRun, patchPhase, planned, conflicts, foreign, outcome>>

(* A write or an unlink the system refuses ends the call where it stands. *)
PatchWriteRefused ==
    /\ patchPhase = "writing" /\ section <= Len(planned)
    /\ patchPhase' = "over" /\ outcome' = "raised"
    /\ UNCHANGED <<diff, dryRun, tree, planned, conflicts, section, foreign, touched>>

WritesEnd ==
    /\ patchPhase = "writing" /\ section > Len(planned)
    /\ patchPhase' = "over" /\ outcome' = "applied"
    /\ UNCHANGED <<diff, dryRun, tree, planned, conflicts, section, foreign, touched>>

(* Another program writes a file of the workspace. *)
WriteElsewhere ==
    /\ patchPhase # "over" /\ foreign < MaxForeign
    /\ foreign' = foreign + 1
    /\ \E f \in Files, text \in ForeignTexts : tree' = [tree EXCEPT ![f] = text]
    /\ UNCHANGED <<diff, dryRun, patchPhase, planned, conflicts, section, outcome, touched>>

PatchOver == patchPhase = "over" /\ UNCHANGED patchVars

PatchNext ==
    \/ RejectDiff \/ Authorize \/ PlanSection \/ PassOverSection \/ PlanEnds
    \/ WriteSection \/ PatchWriteRefused \/ WritesEnd \/ WriteElsewhere \/ PatchOver

PatchSpec == PatchInit /\ [][PatchNext]_patchVars
-----------------------------------------------------------------------------
(* "If any hunk's context does not match, nothing is written"              *)
(* (docs/coding-tools.md:17), whichever section it is in and whatever      *)
(* other programs do while the diff is being planned.                      *)
ConflictWritesNothing ==
    (conflicts # {} \/ dryRun) => touched = {}

LinesOf(text) == IF text = NoFile THEN NoFile ELSE text.lines

(* A diff with context whose sections all have their headers, and none of  *)
(* which makes or removes what an earlier one made, applied to the files   *)
(* it was made from while nobody else writes them, makes the lines of the  *)
(* files it was made to, however often lines repeat there (_locate,        *)
(* drift), and these files themselves where it keeps to LF and to the last *)
(* newline (KeepsStyle); it leaves all others.  A CRLF file is rewritten   *)
(* with LF, and a change of its last newline is lost.                      *)
PatchReproduces ==
    outcome = "applied" /\ foreign = 0 /\ Plain(diff) =>
        \A f \in Files : /\ LinesOf(tree[f]) = LinesOf(diff.to[f])
                         /\ KeepsStyle(diff, f) => tree[f] = diff.to[f]

(* "A patch is all-or-nothing" (patching.py:3): once the call is over its  *)
(* files are all changed as the diff says or all as they were.             *)
PatchWhole ==
    (patchPhase = "over" /\ foreign = 0) => tree \in {diff.from, diff.to}

(* A diff that applies does what it says, and one that does not writes     *)
(* nothing.                                                                *)
PatchExact == ConflictWritesNothing /\ PatchReproduces
=============================================================================
