-------------------------- MODULE ContentProtection --------------------------
(***************************************************************************)
(* DataProtectionEngine (src/src/loro/data_protection.py): the one engine  *)
(* every surface (model input and output, memory, sessions, audit, ...)    *)
(* asks what may be done with a text.  A text is the sequence of its       *)
(* positions 1..TextLength; what the scanners recognise in it is a set of  *)
(* findings, spans start+1..end of it, each of a pattern of a kind and a   *)
(* classification.  Classifications are their rank: public 0, internal 1,  *)
(* confidential 2, restricted 3.                                           *)
(***************************************************************************)
EXTENDS Integers, Sequences, SequencesExt, FiniteSetsExt

CONSTANTS TextLength,      \* how many positions a text has
          Patterns,        \* [kind, classification]: the scanners' patterns
          MaxFindings,     \* bound on the findings in one text
          SurfacePolicies, \* [maximum, action, allowed]: one surface's policy
          SafetySettings   \* [enabled, blocks, override, default]

ASSUME ProtectionAssumption ==
    /\ TextLength \in Nat /\ MaxFindings \in Nat
    /\ IsFiniteSet(Patterns) /\ \A p \in Patterns : p.classification \in 0..3
    /\ \A s \in SurfacePolicies : s.action \in {"allow", "redact", "block"}

VARIABLES protectRequest,  \* what evaluate is asked about
          protectDecision  \* the decision it returns, or Undecided

protectionVars == <<protectRequest, protectDecision>>

Unlabelled == -1
Undecided  == [action |-> "undecided", content |-> <<>>]
Marker     == 0

PlainText == [i \in 1..TextLength |-> i]

Findings ==
    {f \in [start: 0..(TextLength - 1), end: 1..TextLength, pattern: Patterns] :
        f.start < f.end}

Covers(f, i) == f.start < i /\ i <= f.end

(* The findings of kinds the surface does not let through. *)
Reported(request) ==
    {f \in request.findings : f.pattern.kind \notin request.surface.allowed}

Before(f, g) == f.start < g.start \/ (f.start = g.start /\ f.end < g.end)

(* The findings one after the other, none after one it comes before.       *)
Orders(found) ==
    {s \in [1..Cardinality(found) -> found] :
        /\ \A f \in found : \E i \in DOMAIN s : s[i] = f
        /\ \A i, j \in DOMAIN s : i < j => ~Before(s[j], s[i])}

FindingsInOrder(found) == CHOOSE s \in Orders(found) : TRUE

(* One finding joins the interval before it when they touch or overlap. *)
ExtendTo(spans, f, upTo) ==
    IF spans # <<>> /\ f.start <= Last(spans).end
    THEN [spans EXCEPT ![Len(spans)].end = upTo]
    ELSE Append(spans, [start |-> f.start, end |-> f.end])

(* Faulty variant: the joined interval ends where its last finding ends. *)
JoinSpanToLast(spans, f) == ExtendTo(spans, f, f.end)

JoinSpan(spans, f) ==
    ExtendTo(spans, f, IF spans # <<>> /\ Last(spans).end > f.end
                       THEN Last(spans).end ELSE f.end)

Intervals(found) ==
    LET s == FindingsInOrder(found)
        Spans[i \in 0..Cardinality(found)] ==
            IF i = 0 THEN <<>> ELSE JoinSpan(Spans[i - 1], s[i])
    IN  Spans[Cardinality(found)]

Cut(span, text) ==
    SubSeq(text, 1, span.start) \o <<Marker>> \o SubSeq(text, span.end + 1, Len(text))

(* The intervals are cut out from the right, so that positions stay valid. *)
RedactJoined(spans) ==
    LET n == Len(spans)
        Text[i \in 0..n] ==
            IF i = 0 THEN PlainText ELSE Cut(spans[n + 1 - i], Text[i - 1])
    IN  Text[n]

Redact(found) == IF found = {} THEN <<Marker>> ELSE RedactJoined(Intervals(found))

Declared(request) ==
    IF request.given # Unlabelled THEN request.given
    ELSE IF request.label # Unlabelled THEN request.label
    ELSE request.safety.default

Detected(request) ==
    Max({Declared(request)} \cup {f.pattern.classification : f \in Reported(request)})

AboveCeiling(request) ==
    \/ Declared(request) > request.surface.maximum
    \/ /\ Reported(request) # {} /\ request.safety.blocks
       /\ Detected(request) > request.surface.maximum

Triggered(request) ==
    \/ Reported(request) # {} /\ request.safety.blocks
    \/ AboveCeiling(request)

(* The development override, when the settings admit it. *)
Overridden(request) == request.sensitive /\ request.safety.override

Action(request) ==
    IF ~request.safety.enabled \/ Overridden(request) \/ ~Triggered(request)
    THEN "allow"
    ELSE request.surface.action

(* enforce raises on a block; otherwise the caller goes on with the content. *)
Decision(request) ==
    [action  |-> Action(request),
     content |-> CASE Action(request) = "block"  -> <<>>
                   [] Action(request) = "redact" -> Redact(Reported(request))
                   [] OTHER                      -> PlainText]

ProtectionRequests ==
    [findings: UNION {kSubset(k, Findings) : k \in 0..MaxFindings},
     label: {Unlabelled, 3}, given: {Unlabelled, 0}, sensitive: BOOLEAN,
     surface: SurfacePolicies, safety: SafetySettings]

ProtectionInit == protectRequest \in ProtectionRequests /\ protectDecision = Undecided

Enforce ==
    /\ protectDecision = Undecided
    /\ protectDecision' = Decision(protectRequest)
    /\ UNCHANGED protectRequest

ProtectionNext == Enforce

ProtectionSpec == ProtectionInit /\ [][ProtectionNext]_protectionVars
-----------------------------------------------------------------------------
(* What must be kept back is any finding of a kind the surface does not    *)
(* let through, where protection is on, findings count and no override is  *)
(* given.                                                                  *)
Protects(request) ==
    /\ request.safety.enabled /\ ~Overridden(request)
    /\ request.surface.action # "allow"

(* The places of a content that hold text of the caller's.                 *)
Shown(content) == {i \in 1..Len(content) : content[i] # Marker}

Delivered(content) == {content[i] : i \in Shown(content)}

Ascending(content) ==
    \A i, j \in Shown(content) : i < j => content[i] < content[j]

(* However the findings of a text overlap, touch or nest, what the caller  *)
(* goes on with holds no position of any of them, and a redaction drops    *)
(* nothing else: the rest of the text is there, in order (evaluate,        *)
(* _redact).                                                               *)
FindingsContained ==
    LET found == Reported(protectRequest)
        content == protectDecision.content
    IN  (/\ protectDecision # Undecided /\ Protects(protectRequest)
         /\ protectRequest.safety.blocks /\ found # {})
        => /\ Ascending(content)
           /\ Delivered(content) = IF protectRequest.surface.action = "block" THEN {}
                 ELSE {i \in 1..TextLength : \A f \in found : ~Covers(f, i)}

(* A text declared above what the surface admits does not pass it: "each   *)
(* surface chooses allow, redact, or block when a finding is present or    *)
(* content exceeds its ceiling" (docs/data-protection.md:16), and a        *)
(* redaction for the ceiling leaves nothing of it (tests).                 *)
CeilingHeld ==
    (/\ protectDecision # Undecided /\ Protects(protectRequest)
     /\ Declared(protectRequest) > protectRequest.surface.maximum)
    => Delivered(protectDecision.content) = {}
=============================================================================
