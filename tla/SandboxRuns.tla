----------------------------- MODULE SandboxRuns -----------------------------
(***************************************************************************)
(* SandboxRunner.run and _run_bounded (src/src/loro/sandbox.py): one call  *)
(* that starts a command under a sandbox profile, two threads that drain   *)
(* its pipes into buffers of one shared limit, and the wait with a timeout *)
(* and the cleanup that ends it.  The command may start a process of its   *)
(* own that inherits the pipes and outlives it.                            *)
(*                                                                         *)
(* What ends with what depends on the backend.  Under bubblewrap and in a  *)
(* container the command is the first process of a PID namespace, and      *)
(* everything in it dies with it; killing bwrap kills the command          *)
(* (--die-with-parent).  The process the call starts for a container is    *)
(* the engine's client: killing it closes the pipes and leaves the         *)
(* container running, which is what the cleanup command is for.            *)
(***************************************************************************)
EXTENDS Integers, FiniteSetsExt

CONSTANTS Backends,      \* of {"process", "bubblewrap", "container"}
          Executables,   \* [byPath, byName, writable, trusted]: the lookups
          OutputLimit,   \* max_output_bytes, in chunks
          MaxOutput      \* bound on the chunks a command writes

ASSUME SandboxAssumption ==
    /\ Backends \subseteq {"process", "bubblewrap", "container"}
    /\ OutputLimit \in Nat /\ MaxOutput \in Nat

VARIABLES backend,    \* the backend of the call's profile
          executable, \* what the command's name resolves to
          runPhase,   \* "prepare", "waiting", "cleanup", "joining", "over"
          command,    \* the command: "none", "running", "exited", "killed"
          spawned,    \* a process it left behind: "none", "running", "gone"
          client,     \* the process the call holds is alive (its own or the engine's)
          wrote,      \* chunks written to the pipes so far
          piped,      \* piped[s]: chunks in pipe s not yet read
          held,       \* held[s]: a chunk read by the thread of s, not yet stored
          drained,    \* drained[s]: the thread of s has returned
          captured,   \* chunks stored in the two buffers
          truncated,  \* the limit was crossed
          removed,    \* the cleanup command: "no", "ran", "failed"
          verdict     \* what the caller gets: "none", "ok", "failed", "timeout", "refused"

sandboxVars == <<backend, executable, runPhase, command, spawned, client, wrote,
                 piped, held, drained, captured, truncated, removed, verdict>>

Streams == {"stdout", "stderr"}

(* A path pattern admits the resolved file; a name pattern only a file     *)
(* outside every root the agent can write and under the trusted prefixes.  *)
Allowed(exe) ==
    \/ exe.byPath
    \/ exe.byName /\ ~exe.writable /\ exe.trusted

(* In a container the image provides the file: only the name is compared.  *)
Launchable ==
    IF backend = "container" THEN executable.byPath \/ executable.byName
    ELSE Allowed(executable)

(* Faulty variant: the sandboxed command outlives bwrap when it is killed. *)
DiesAlone == FALSE

(* Killing the process the call holds kills the command under bwrap, which *)
(* passes --die-with-parent; a plain process is the command itself.        *)
DiesWithParent == backend = "bubblewrap"

(* The PID namespace ends with its first process. *)
Isolated == backend # "process"

Alive == command = "running" \/ spawned = "running"

(* The writers of the pipes: a container writes through the client. *)
PipesOpen == IF backend = "container" THEN client ELSE Alive

SandboxInit ==
    /\ backend \in Backends /\ executable \in Executables
    /\ runPhase = "prepare" /\ command = "none" /\ spawned = "none"
    /\ client = FALSE /\ wrote = 0
    /\ piped = [s \in Streams |-> 0] /\ held = [s \in Streams |-> 0]
    /\ drained = [s \in Streams |-> FALSE]
    /\ captured = 0 /\ truncated = FALSE /\ removed = "no" /\ verdict = "none"

Prepare ==
    /\ runPhase = "prepare"
    /\ IF Launchable
       THEN /\ runPhase' = "waiting" /\ command' = "running" /\ client' = TRUE
            /\ UNCHANGED verdict
       ELSE /\ runPhase' = "over" /\ verdict' = "refused"
            /\ UNCHANGED <<command, client>>
    /\ UNCHANGED <<backend, executable, spawned, wrote, piped, held, drained,
                   captured, truncated, removed>>

(* The command, or what it left behind, writes a chunk. *)
WriteOutput(s) ==
    /\ Alive /\ PipesOpen /\ wrote < MaxOutput
    /\ wrote' = wrote + 1 /\ piped' = [piped EXCEPT ![s] = @ + 1]
    /\ UNCHANGED <<backend, executable, runPhase, command, spawned, client, held,
                   drained, captured, truncated, removed, verdict>>

LeaveBehind ==
    /\ command = "running" /\ spawned = "none"
    /\ spawned' = "running"
    /\ UNCHANGED <<backend, executable, runPhase, command, client, wrote, piped,
                   held, drained, captured, truncated, removed, verdict>>

(* The command ends; the process the call holds ends with it. *)
CommandExits ==
    /\ command = "running" /\ command' = "exited"
    /\ client' = FALSE
    /\ spawned' = IF Isolated /\ spawned = "running" THEN "gone" ELSE spawned
    /\ UNCHANGED <<backend, executable, runPhase, wrote, piped, held, drained,
                   captured, truncated, removed, verdict>>

SpawnedExits ==
    /\ spawned = "running" /\ spawned' = "gone"
    /\ UNCHANGED <<backend, executable, runPhase, command, client, wrote, piped,
                   held, drained, captured, truncated, removed, verdict>>

(* process.kill(): what dies with the process the call holds.  A process   *)
(* that has ended already is left as it is.                                *)
Kill ==
    LET dies == backend = "process" \/ DiesWithParent
    IN  /\ client' = FALSE
        /\ command' = IF client /\ command = "running" /\ dies THEN "killed" ELSE command
        /\ spawned' = IF client /\ spawned = "running" /\ dies /\ Isolated
                      THEN "gone" ELSE spawned

(* stream.read outside the lock. *)
ReadChunk(s) ==
    /\ runPhase \in {"waiting", "cleanup", "joining"}
    /\ ~drained[s] /\ held[s] = 0 /\ piped[s] > 0
    /\ held' = [held EXCEPT ![s] = piped[s]] /\ piped' = [piped EXCEPT ![s] = 0]
    /\ UNCHANGED <<backend, executable, runPhase, command, spawned, client, wrote,
                   drained, captured, truncated, removed, verdict>>

(* Under the lock: keep what the limit still admits, kill on what it does  *)
(* not.                                                                    *)
StoreChunk(s) ==
    LET remaining == OutputLimit - captured
    IN  /\ held[s] > 0
        /\ captured' = captured + Min({held[s], remaining})
        /\ held' = [held EXCEPT ![s] = 0]
        /\ IF held[s] > remaining /\ ~truncated
           THEN truncated' = TRUE /\ Kill
           ELSE UNCHANGED <<truncated, client, command, spawned>>
        /\ UNCHANGED <<backend, executable, runPhase, wrote, piped, drained,
                       removed, verdict>>

(* read returns nothing once no process holds the pipe open. *)
EndOfStream(s) ==
    /\ runPhase \in {"waiting", "cleanup", "joining"}
    /\ ~drained[s] /\ held[s] = 0 /\ piped[s] = 0 /\ ~PipesOpen
    /\ drained' = [drained EXCEPT ![s] = TRUE]
    /\ UNCHANGED <<backend, executable, runPhase, command, spawned, client, wrote,
                   piped, held, captured, truncated, removed, verdict>>

WaitReturns ==
    /\ runPhase = "waiting" /\ ~client
    /\ runPhase' = "joining"
    /\ UNCHANGED <<backend, executable, command, spawned, client, wrote, piped, held,
                   drained, captured, truncated, removed, verdict>>

WaitTimesOut ==
    /\ runPhase = "waiting" /\ client
    /\ Kill
    /\ runPhase' = "cleanup" /\ verdict' = "timeout"
    /\ UNCHANGED <<backend, executable, wrote, piped, held, drained, captured,
                   truncated, removed>>

(* engine rm --force: its failure is swallowed. *)
RemoveContainer ==
    IF backend = "container"
    THEN \/ /\ removed' = "ran"
            /\ command' = IF command = "running" THEN "killed" ELSE command
            /\ spawned' = IF spawned = "running" THEN "gone" ELSE spawned
         \/ removed' = "failed" /\ UNCHANGED <<command, spawned>>
    ELSE UNCHANGED <<removed, command, spawned>>

CleanUp ==
    /\ runPhase = "cleanup"
    /\ RemoveContainer
    /\ runPhase' = IF verdict = "timeout" THEN "joining" ELSE "over"
    /\ UNCHANGED <<backend, executable, client, wrote, piped, held, drained, captured,
                   truncated, verdict>>

(* A call whose output was cut returns a failure whatever the exit status. *)
Result ==
    IF verdict # "none" THEN verdict
    ELSE IF truncated THEN "failed" ELSE "ok"

(* Faulty variants: a call cut short at the limit leaves the container to   *)
(* itself; the call does not wait for the second thread.                   *)
NeedsNoCleanup == FALSE

OneDrained == \E s \in Streams : drained[s]

NeedsCleanup == truncated /\ verdict = "none"

AllDrained == \A s \in Streams : drained[s]

JoinThreads ==
    /\ runPhase = "joining" /\ AllDrained
    /\ verdict' = Result
    /\ runPhase' = IF NeedsCleanup THEN "cleanup" ELSE "over"
    /\ UNCHANGED <<backend, executable, command, spawned, client, wrote, piped, held,
                   drained, captured, truncated, removed>>

(* One of the two threads, or the call that waits for both. *)
DrainThread(s) == ReadChunk(s) \/ StoreChunk(s) \/ EndOfStream(s)

CallThread == Prepare \/ WaitReturns \/ WaitTimesOut \/ CleanUp \/ JoinThreads

CallOver == runPhase = "over" /\ UNCHANGED sandboxVars

SandboxNext ==
    \/ CallThread \/ CommandExits \/ SpawnedExits \/ LeaveBehind
    \/ \E s \in Streams : WriteOutput(s) \/ DrainThread(s)
    \/ CallOver

(* The call and its two threads run; the timeout of the wait passes.  No   *)
(* process the sandbox starts owes an exit.                                *)
SandboxFairness ==
    WF_sandboxVars(CallThread) /\ \A s \in Streams : WF_sandboxVars(DrainThread(s))

SandboxSpec == SandboxInit /\ [][SandboxNext]_sandboxVars /\ SandboxFairness
-----------------------------------------------------------------------------
(* A call that succeeds returns all that was written, whatever order the   *)
(* two threads, the exit and the kill come in; one whose output was cut    *)
(* does not succeed, and no call keeps more than the limit                 *)
(* (docs/sandbox.md:161).                                                  *)
OutputAccounted ==
    /\ captured <= OutputLimit
    /\ (runPhase = "over" /\ verdict = "ok") => (captured = wrote /\ ~truncated)

(* No container runs on after its call is over, on whichever path the call *)
(* ended, unless the engine failed to remove it (_run_cleanup).            *)
ContainerRemoved ==
    (runPhase = "over" /\ backend = "container") => (~Alive \/ removed = "failed")

(* Under an isolating backend a call ends, whatever the command and the    *)
(* processes it started do: the timeout reaches all of them.               *)
IsolatedCallsReturn == (runPhase = "waiting" /\ Isolated) ~> (runPhase = "over")

(* "The profile timeout is a ceiling" (docs/sandbox.md:162), for every     *)
(* backend.                                                                *)
TimeoutIsCeiling == (runPhase = "waiting") ~> (runPhase = "over")

(* What a call leaves: the output it reports, and no container.            *)
SandboxSound == OutputAccounted /\ ContainerRemoved
=============================================================================
