---------------------------- MODULE MemoryReview ----------------------------
(***************************************************************************)
(* Local memories and the queue of memory proposals: loro/memory/          *)
(* proposals.py, local.py and drafts.py, decided by the web interface      *)
(* (webui/memory.py) and by the commands of cli/memory.py.                 *)
(*                                                                         *)
(* Each reviewer is one process and does one thing at a time: the web      *)
(* server answers these requests on its event loop.  The queue is read and *)
(* rewritten under a file lock, which the operating system takes back from *)
(* a process that dies; memories.jsonl is appended to and replaced without *)
(* one.                                                                    *)
(***************************************************************************)
EXTENDS Integers, Sequences, FiniteSets, SequencesExt

CONSTANTS
    Proposals,       \* identifiers of the proposals that may be made
    Shared,          \* those whose target is the shared memory
    Reviewers,       \* processes
    WebServer,       \* the one of them that serves the web interface
    MaxRequests      \* bound on decisions, new memories and revisions together

ASSUME MemoryReviewAssumption ==
    /\ Shared \subseteq Proposals /\ WebServer \in Reviewers /\ "free" \notin Reviewers
    /\ MaxRequests \in Nat

VARIABLES
    queue,           \* memory-proposals.jsonl
    local,           \* memories.jsonl: what each memory came from
    drafts,          \* shared-memory-drafts.jsonl: the same
    queueLock,       \* the process that holds the lock of the queue, or "free"
    reviewer,        \* process -> what it is doing and what it has read
    requests,        \* decisions, new memories and revisions so far
    made             \* history: proposals made, and written to memory or drafts

memoryReviewVars == <<queue, local, drafts, queueLock, reviewer, requests, made>>

Resting == [pc |-> "idle", of |-> "none", to |-> "none", copy |-> <<>>]

MemoryReviewInit ==
    /\ queue = <<>> /\ local = <<>> /\ drafts = <<>>
    /\ queueLock = "free"
    /\ reviewer = [r \in Reviewers |-> Resting]
    /\ requests = 0
    /\ made = [proposed |-> {}, written |-> {}]

Proposed == {queue[i].id : i \in DOMAIN queue}

StatusOf(p) == queue[CHOOSE i \in DOMAIN queue : queue[i].id = p].status

Accepted(p) == IF p \in Shared THEN "accepted_as_shared_draft" ELSE "accepted"

\* file_lock: whoever wants the queue waits until nobody holds it.
QueueFree == queueLock = "free"

Requested == requests < MaxRequests /\ requests' = requests + 1

Rests(r) == reviewer' = [reviewer EXCEPT ![r] = Resting]

---------------------------------------------------------------------------
\* Faulty variant: the line is appended without the lock.
ProposeUnlocked(r, p) ==
    /\ reviewer[r].pc = "idle" /\ p \notin made.proposed
    /\ queue' = Append(queue, [id |-> p, status |-> "proposed"])
    /\ made' = [made EXCEPT !.proposed = @ \union {p}]
    /\ UNCHANGED <<local, drafts, queueLock, reviewer, requests>>

\* propose, from the command line or from an agent.
Propose(r, p) ==
    /\ reviewer[r].pc = "idle" /\ p \notin made.proposed
    /\ QueueFree
    /\ queue' = Append(queue, [id |-> p, status |-> "proposed"])
    /\ made' = [made EXCEPT !.proposed = @ \union {p}]
    /\ UNCHANGED <<local, drafts, queueLock, reviewer, requests>>

\* The web interface decides what is pending; the command line does not look.
Decidable(r, p) == r = WebServer => StatusOf(p) = "proposed"

\* Faulty variant: the status first and the memory second.
LookAndMark(r, p) ==
    /\ reviewer[r].pc = "idle" /\ QueueFree
    /\ p \in Proposed /\ Decidable(r, p)
    /\ Requested
    /\ reviewer' = [reviewer EXCEPT ![r] = [Resting EXCEPT
           !.pc = "mark", !.of = p, !.to = Accepted(p)]]
    /\ UNCHANGED <<queue, local, drafts, queueLock, made>>

\* accept looks the proposal up ...
LookUp(r, p) ==
    /\ reviewer[r].pc = "idle" /\ QueueFree
    /\ p \in Proposed /\ Decidable(r, p)
    /\ Requested
    /\ reviewer' = [reviewer EXCEPT ![r] = [Resting EXCEPT
           !.pc = "write", !.of = p, !.to = Accepted(p)]]
    /\ UNCHANGED <<queue, local, drafts, queueLock, made>>

\* ... writes the memory or stages the draft ...
WriteMemory(r) ==
    LET p == reviewer[r].of IN
    /\ reviewer[r].pc = "write"
    /\ IF p \in Shared
       THEN drafts' = Append(drafts, p) /\ UNCHANGED local
       ELSE local' = Append(local, p) /\ UNCHANGED drafts
    /\ made' = [made EXCEPT !.written = @ \union {p}]
    /\ reviewer' = [reviewer EXCEPT ![r].pc = "mark"]
    /\ UNCHANGED <<queue, queueLock, requests>>

\* ... unless its content or its tenant is refused ...
WriteRefused(r) ==
    /\ reviewer[r].pc = "write"
    /\ Rests(r)
    /\ UNCHANGED <<queue, local, drafts, queueLock, requests, made>>

\* ... and marks it; reject, of the web interface only, does nothing else.
Reject(p) ==
    /\ reviewer[WebServer].pc = "idle" /\ QueueFree
    /\ p \in Proposed /\ StatusOf(p) = "proposed"
    /\ Requested
    /\ reviewer' = [reviewer EXCEPT ![WebServer] = [Resting EXCEPT
           !.pc = "mark", !.of = p, !.to = "rejected"]]
    /\ UNCHANGED <<queue, local, drafts, queueLock, made>>

\* update_status reads and rewrites the queue under one lock.
ReadQueue(r) ==
    /\ reviewer[r].pc = "mark" /\ QueueFree
    /\ queueLock' = r
    /\ reviewer' = [reviewer EXCEPT ![r].pc = "rewrite", ![r].copy = queue]
    /\ UNCHANGED <<queue, local, drafts, requests, made>>

RewriteQueue(r) ==
    LET me == reviewer[r] IN
    /\ me.pc = "rewrite"
    /\ queue' = [i \in DOMAIN me.copy |->
                    IF me.copy[i].id = me.of THEN [me.copy[i] EXCEPT !.status = me.to]
                    ELSE me.copy[i]]
    /\ queueLock' = "free" /\ Rests(r)
    /\ UNCHANGED <<local, drafts, requests, made>>

---------------------------------------------------------------------------
\* remember, or a new memory of the web interface.
Remember(r) ==
    /\ reviewer[r].pc = "idle"
    /\ Requested
    /\ local' = Append(local, "user")
    /\ UNCHANGED <<queue, drafts, queueLock, reviewer, made>>

\* update and delete of the web interface read all memories ...
ReadMemories ==
    /\ reviewer[WebServer].pc = "idle"
    /\ local # <<>>
    /\ Requested
    /\ reviewer' = [reviewer EXCEPT ![WebServer] =
                        [Resting EXCEPT !.pc = "revise", !.copy = local]]
    /\ UNCHANGED <<queue, local, drafts, queueLock, made>>

\* ... and replace the file by what they read, one memory changed or removed.
ReplaceMemories(i, removed) ==
    /\ reviewer[WebServer].pc = "revise"
    /\ i \in DOMAIN reviewer[WebServer].copy
    /\ local' = IF removed THEN RemoveAt(reviewer[WebServer].copy, i)
                ELSE reviewer[WebServer].copy
    /\ Rests(WebServer)
    /\ UNCHANGED <<queue, drafts, queueLock, requests, made>>

ReviewerDies(r) ==
    /\ reviewer[r].pc # "idle"
    /\ Rests(r)
    /\ queueLock' = IF queueLock = r THEN "free" ELSE queueLock
    /\ UNCHANGED <<queue, local, drafts, requests, made>>

---------------------------------------------------------------------------
MemoryReviewNext ==
    \/ \E r \in Reviewers, p \in Proposals : Propose(r, p) \/ LookUp(r, p)
    \/ \E r \in Reviewers :
          \/ WriteMemory(r) \/ WriteRefused(r)
          \/ ReadQueue(r) \/ RewriteQueue(r)
          \/ Remember(r) \/ ReviewerDies(r)
    \/ \E p \in Proposals : Reject(p)
    \/ ReadMemories
    \/ \E i \in 1..Len(reviewer[WebServer].copy), removed \in BOOLEAN :
          ReplaceMemories(i, removed)

MemoryReviewSpec == MemoryReviewInit /\ [][MemoryReviewNext]_memoryReviewVars

---------------------------------------------------------------------------
(* No proposal is lost or doubled: whatever is decided, proposed, crashes  *)
(* and interleaves, the queue holds each proposal that was made once.      *)
ProposalsKept ==
    /\ Proposed = made.proposed
    /\ Len(queue) = Cardinality(Proposed)

(* A proposal says that it was accepted only after its content was written *)
(* to the memories or staged as a draft: a process that dies between the   *)
(* two may write it twice but never drops it.                              *)
AcceptedWasWritten ==
    \A i \in DOMAIN queue :
        queue[i].status \in {"accepted", "accepted_as_shared_draft"}
            => queue[i].id \in made.written

MemoryReviewTypeOK ==
    /\ queue \in Seq([id : Proposals, status : {"proposed", "accepted", "rejected",
                                                "accepted_as_shared_draft"}])
    /\ local \in Seq(Proposals \union {"user"}) /\ drafts \in Seq(Proposals)
    /\ queueLock \in Reviewers \union {"free"}
    /\ requests \in 0..MaxRequests

(* A review loses nothing: neither a proposal nor the content of one that  *)
(* says it was accepted.                                                   *)
ReviewLosesNothing == MemoryReviewTypeOK /\ ProposalsKept /\ AcceptedWasWritten
=============================================================================
