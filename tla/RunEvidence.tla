----------------------------- MODULE RunEvidence -----------------------------
(***************************************************************************)
(* Evidence bundles (src/src/loro/evidence.py): export_run reads one run   *)
(* out of the hash-chained audit log, which other runs are still writing,  *)
(* and then the session record, which later runs of the session replace;   *)
(* verify_bundle checks a bundle by itself and against the log.            *)
(*                                                                         *)
(* A log line is [run, what, prev, hash].  Hashes are collision-free: the  *)
(* hash of a chained line is its number, NoHash that of a line written     *)
(* before chaining was enabled.  The first chained line after such lines   *)
(* starts the chain.                                                       *)
(***************************************************************************)
EXTENDS Integers, Sequences, SequencesExt, FiniteSetsExt, Subsequences

CONSTANTS EvidenceRuns,  \* run ids (the trace ids of the events)
          SessionOf,     \* [EvidenceRuns -> sessions]
          MaxLines,      \* bound on the log
          MaxExports     \* bound on the exports

ASSUME EvidenceAssumption == MaxLines \in Nat /\ MaxExports \in Nat

VARIABLES auditLog, \* the lines of the audit log
          chaining, \* the writers chain their events
          records,  \* records[s]: the run of session s's record, or NoRun
          bundle,   \* the bundle last written to the path, or NoBundle
          export,   \* the export under way: [step, run, slice, links, completed, results]
          exports   \* exports begun so far

evidenceVars == <<auditLog, chaining, records, bundle, export, exports>>

NoHash   == 0
NoRun    == "no_run"
NoBundle == [run |-> NoRun]
NoExport == [step |-> "idle"]

LogSessions == {SessionOf[r] : r \in EvidenceRuns}

Lines == 1..Len(auditLog)

LastHash == IF auditLog = <<>> THEN NoHash ELSE auditLog[Len(auditLog)].hash

Logged(run, what) == \E i \in Lines : auditLog[i].run = run /\ auditLog[i].what = what

EvidenceInit ==
    /\ auditLog = <<>> /\ chaining \in BOOLEAN
    /\ records = [s \in LogSessions |-> NoRun]
    /\ bundle = NoBundle /\ export = NoExport /\ exports = 0

AppendLine(run, what) ==
    /\ Len(auditLog) < MaxLines
    /\ auditLog' = Append(auditLog,
                          [run |-> run, what |-> what, prev |-> LastHash,
                           hash |-> IF chaining THEN Len(auditLog) + 1 ELSE NoHash])

(* Chaining came with a later version: older lines stay as they are. *)
EnableChaining ==
    /\ ~chaining /\ chaining' = TRUE
    /\ UNCHANGED <<auditLog, records, bundle, export, exports>>

StartRun(run) ==
    /\ ~Logged(run, "started") /\ AppendLine(run, "started")
    /\ UNCHANGED <<chaining, records, bundle, export, exports>>

RunTool(run) ==
    /\ Logged(run, "started") /\ ~Logged(run, "completed") /\ AppendLine(run, "tool")
    /\ UNCHANGED <<chaining, records, bundle, export, exports>>

(* A run saves the session record and then logs its completion. *)
SaveRecord(run) ==
    /\ Logged(run, "started") /\ ~Logged(run, "completed")
    /\ records' = [records EXCEPT ![SessionOf[run]] = run]
    /\ UNCHANGED <<auditLog, chaining, bundle, export, exports>>

CompleteRun(run) ==
    /\ Logged(run, "started") /\ ~Logged(run, "completed")
    /\ AppendLine(run, "completed")
    /\ UNCHANGED <<chaining, records, bundle, export, exports>>

-----------------------------------------------------------------------------
RunLines(run) == {i \in Lines : auditLog[i].run = run}

First(run) == CHOOSE i \in RunLines(run) : \A j \in RunLines(run) : i <= j

Final(run) == CHOOSE i \in RunLines(run) : \A j \in RunLines(run) : j <= i

(* Another run's line contributes its hashes, never its content. *)
Link(i, run) == [line |-> i, hash |-> auditLog[i].hash, prev |-> auditLog[i].prev,
                 ours |-> auditLog[i].run = run]

(* The segment: every line from the run's first to its last. *)
Segment(run) ==
    [k \in 1..(Final(run) - First(run) + 1) |-> Link(First(run) + k - 1, run)]

OursOf(links) == Filtered(links, {k \in DOMAIN links : links[k].ours})

(* Faulty variant: the lines of other runs are left out. *)
LinksOfRun(run) == OursOf(Segment(run))

Links(run) == Segment(run)

Slice(run) == Filtered(auditLog, RunLines(run))

(* Events from before chaining cannot be exported as evidence. *)
Chained(run) == \A i \in RunLines(run) : auditLog[i].hash # NoHash

BeginExport(run) ==
    /\ export = NoExport /\ exports < MaxExports /\ exports' = exports + 1
    /\ RunLines(run) # {} /\ Chained(run)
    /\ export' = [step |-> "read", run |-> run, slice |-> Slice(run),
                  links |-> Links(run), completed |-> Logged(run, "completed")]
    /\ UNCHANGED <<auditLog, chaining, records, bundle>>

(* Nothing of the run in the log, or only unchained lines of it. *)
RefuseExport(run) ==
    /\ export = NoExport /\ exports < MaxExports /\ exports' = exports + 1
    /\ RunLines(run) = {} \/ ~Chained(run)
    /\ UNCHANGED <<auditLog, chaining, records, bundle, export>>

(* Faulty variant: whatever record the session has now. *)
TakenFromAny(record, run) == record

(* The record may be that of a later run by now. *)
ResultsTaken(record, run) == IF record = run THEN record ELSE NoRun

(* The session is known from the completion event only. *)
WriteBundle ==
    /\ export.step = "read"
    /\ bundle' = [run |-> export.run, slice |-> export.slice, links |-> export.links,
                  start |-> export.links[1].prev,
                  end |-> export.links[Len(export.links)].hash,
                  results |-> IF export.completed
                              THEN ResultsTaken(records[SessionOf[export.run]], export.run)
                              ELSE NoRun]
    /\ export' = NoExport
    /\ UNCHANGED <<auditLog, chaining, records, exports>>

EvidenceNext ==
    \/ EnableChaining \/ WriteBundle
    \/ \E run \in EvidenceRuns :
         \/ StartRun(run) \/ RunTool(run) \/ SaveRecord(run) \/ CompleteRun(run)
         \/ BeginExport(run) \/ RefuseExport(run)

EvidenceSpec == EvidenceInit /\ [][EvidenceNext]_evidenceVars
-----------------------------------------------------------------------------
(* What verify_bundle accepts: the slice is the run's and hashes to what   *)
(* it says, the links connect, the run's links are the slice in order, and *)
(* the bounds are those of the segment.                                    *)
ChainAccepted(b) ==
    /\ b.slice # <<>> /\ \A k \in 1..Len(b.slice) : b.slice[k].run = b.run
    /\ \A k \in 2..Len(b.links) : b.links[k].prev = b.links[k - 1].hash
    /\ Len(OursOf(b.links)) = Len(b.slice)
    /\ \A k \in 1..Len(b.slice) : OursOf(b.links)[k].hash = b.slice[k].hash
    /\ b.start = b.links[1].prev /\ b.end = b.links[Len(b.links)].hash

ChainedBefore(i) == {j \in 1..(i - 1) : auditLog[j].hash # NoHash}

(* loro audit verify: unchained lines come first, and every later line     *)
(* carries the hash of the one before it.                                  *)
LogVerifies ==
    \A i \in Lines :
        IF auditLog[i].hash = NoHash THEN ChainedBefore(i) = {}
        ELSE auditLog[i].prev = IF ChainedBefore(i) = {} THEN NoHash
                                ELSE auditLog[Max(ChainedBefore(i))].hash

LogAccepted(b) ==
    /\ LogVerifies
    /\ \A k \in 1..Len(b.links) : /\ b.links[k].line \in Lines
                                  /\ auditLog[b.links[k].line].hash = b.links[k].hash

(* Every bundle exported passes loro run verify, by itself and against the *)
(* log as it has grown since, however the events of other runs lie between *)
(* those of its run, and however many unchained lines come before.         *)
ExportsVerify ==
    bundle # NoBundle => ChainAccepted(bundle) /\ LogAccepted(bundle)

(* The tool results in a bundle are those of its run: a session record     *)
(* that a later run has replaced while the export was reading the log is   *)
(* not taken for it (docs/run-evidence.md).                                *)
ResultsAreOfRun ==
    bundle # NoBundle => bundle.results \in {NoRun, bundle.run}

(* A bundle is the evidence of its run: its links verify, and its results  *)
(* are not another run's.                                                  *)
BundlesSound == ExportsVerify /\ ResultsAreOfRun
=============================================================================
