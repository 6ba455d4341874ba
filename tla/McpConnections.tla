--------------------------- MODULE McpConnections ---------------------------
(***************************************************************************)
(* Loro as a client of an MCP server and as one: loro/mcp/client.py,       *)
(* registry.py, security.py, extensions.py and server.py.                  *)
(*                                                                         *)
(* What stands between a command and the server is a set of obstacles, one *)
(* for each check on the way.  The server is external: it pages its        *)
(* listings, and sends change events when it likes.                        *)
(***************************************************************************)
EXTENDS Integers, FiniteSets

CONSTANTS
    ObstacleSets,    \* the obstacles a configuration may put in the way
    PageCounts,      \* the numbers of pages a listing of the server may have
    PageBytes,       \* the sizes a page may have
    MaxPages,        \* config.mcp.max_pagination_pages
    MaxBytes,        \* config.mcp.max_output_bytes
    MaxEvents,       \* config.mcp.subscription_max_events
    ExportSets       \* what config.mcp.server may ask to be exported

VARIABLES
    obstacles,       \* the checks this configuration and server fail
    pagesOfServer,   \* the pages the listing has
    reading,         \* the command in progress, or the last one
    served           \* server mode: what is exported, and what it last did

mcpConnectionsVars == <<obstacles, pagesOfServer, reading, served>>

\* Checks on the configuration, before anything is sent.
Unreachable == {"mcp_disabled", "server_disabled", "unsafe_endpoint",
                "command_not_allowed", "environment_missing", "credential_missing"}

\* Checks on what was negotiated.
Unacceptable == {"protocol_not_allowed", "protocol_below_minimum"}

\* Reasons for which an extension is inert.
Inert == {"not_attached", "disabled", "not_allowlisted", "no_adapter",
          "unsupported_version", "invalid_settings"}

Obstacles == Unreachable \union Unacceptable \union Inert
                 \union {"classic_protocol", "not_advertised"}

ASSUME McpConnectionsAssumption ==
    /\ ObstacleSets \subseteq SUBSET Obstacles
    /\ PageCounts \subseteq Nat \ {0} /\ PageBytes \subseteq Nat
    /\ {MaxPages, MaxBytes, MaxEvents} \subseteq Nat

PathTools == {"file.read", "file.search", "agraph.validate", "agraph.plan"}
AllowedTools == PathTools \union {"git.status", "git.diff", "git.show"}

NoReading == [pc |-> "idle", pages |-> 0, bytes |-> 0, events |-> 0, limit |-> 0]

NotServing == [tools |-> {}, roots |-> FALSE, last |-> "none"]

McpConnectionsInit ==
    /\ obstacles \in ObstacleSets
    /\ pagesOfServer \in PageCounts
    /\ reading = NoReading
    /\ served = NotServing

---------------------------------------------------------------------------
\* connect: the registry, the transport policy, then the negotiated version.
Connects == obstacles \intersect (Unreachable \union Unacceptable) = {}

Modern == "classic_protocol" \notin obstacles

\* require_active, and what the server advertises once it is connected.
TasksServed ==
    Connects /\ Modern /\ obstacles \intersect (Inert \union {"not_advertised"}) = {}

Busy == reading.pc \in {"paging", "listening"}

---------------------------------------------------------------------------
\* list_tools, list_resources or list_prompts.
BeginListing ==
    /\ ~Busy /\ Connects
    /\ reading' = [NoReading EXCEPT !.pc = "paging"]
    /\ UNCHANGED <<obstacles, pagesOfServer, served>>

\* Faulty variant: what the last page allowed holds is returned.
PageTruncating(size) ==
    /\ reading.pc = "paging"
    /\ reading' = [reading EXCEPT
           !.pages = @ + 1, !.bytes = @ + size,
           !.pc = IF reading.bytes + size > MaxBytes THEN "refused"
                  ELSE IF reading.pages + 1 \in {pagesOfServer, MaxPages} THEN "listed"
                  ELSE "paging"]
    /\ UNCHANGED <<obstacles, pagesOfServer, served>>

\* _collect_pages: one page, which ends the listing if it is too much, the
\* last one of the server or the last one allowed.
Page(size) ==
    /\ reading.pc = "paging"
    /\ reading' = [reading EXCEPT
           !.pages = @ + 1, !.bytes = @ + size,
           !.pc = IF reading.bytes + size > MaxBytes THEN "refused"
                  ELSE IF reading.pages + 1 = pagesOfServer THEN "listed"
                  ELSE IF reading.pages + 1 = MaxPages THEN "refused"
                  ELSE "paging"]
    /\ UNCHANGED <<obstacles, pagesOfServer, served>>

\* call_tool, read_resource, get_prompt: one request, one bounded answer.
Request(size) ==
    /\ ~Busy /\ Connects
    /\ reading' = [NoReading EXCEPT
           !.pc = IF size > MaxBytes THEN "refused" ELSE "answered", !.bytes = size]
    /\ UNCHANGED <<obstacles, pagesOfServer, served>>

\* listen_changes, of no more events than the configuration allows.
Listen(limit) ==
    /\ ~Busy /\ limit \in 1..MaxEvents
    /\ Connects /\ Modern
    /\ reading' = [NoReading EXCEPT !.pc = "listening", !.limit = limit]
    /\ UNCHANGED <<obstacles, pagesOfServer, served>>

ChangeEvent(size) ==
    /\ reading.pc = "listening"
    /\ reading' = [reading EXCEPT
           !.events = @ + 1, !.bytes = @ + size,
           !.pc = IF reading.bytes + size > MaxBytes THEN "refused"
                  ELSE IF reading.events + 1 = reading.limit THEN "answered"
                  ELSE "listening"]
    /\ UNCHANGED <<obstacles, pagesOfServer, served>>

\* max_seconds have passed: what arrived is the answer.
ListenTimesOut ==
    /\ reading.pc = "listening"
    /\ reading' = [reading EXCEPT !.pc = "answered"]
    /\ UNCHANGED <<obstacles, pagesOfServer, served>>

ConnectionFails ==
    /\ Busy
    /\ reading' = [reading EXCEPT !.pc = "refused"]
    /\ UNCHANGED <<obstacles, pagesOfServer, served>>

---------------------------------------------------------------------------
\* LoroMCPServerCatalog: what may be exported, and under which roots.
MayExport(tools, roots) ==
    /\ tools \subseteq AllowedTools
    /\ tools \intersect PathTools # {} => roots

BuildServer(tools, roots) ==
    /\ served.tools = {} /\ tools # {} /\ MayExport(tools, roots)
    /\ served' = [NotServing EXCEPT !.tools = tools, !.roots = roots]
    /\ UNCHANGED <<obstacles, pagesOfServer, reading>>

\* One call of an exported tool, audited whatever comes of it: a bounded
\* answer, or an error.
Serve(tool, ok, size) ==
    /\ tool \in served.tools
    /\ served' = [served EXCEPT !.last = IF ok /\ size <= MaxBytes THEN "answered" ELSE "error"]
    /\ UNCHANGED <<obstacles, pagesOfServer, reading>>

---------------------------------------------------------------------------
McpConnectionsNext ==
    \/ BeginListing \/ ListenTimesOut \/ ConnectionFails
    \/ \E size \in PageBytes : Page(size) \/ Request(size) \/ ChangeEvent(size)
    \/ \E limit \in 1..MaxEvents : Listen(limit)
    \/ \E tools \in ExportSets, roots \in BOOLEAN : BuildServer(tools, roots)
    \/ \E tool \in served.tools, ok \in BOOLEAN, size \in PageBytes : Serve(tool, ok, size)

McpConnectionsSpec == McpConnectionsInit /\ [][McpConnectionsNext]_mcpConnectionsVars

---------------------------------------------------------------------------
(* A listing is returned whole or refused: whatever the server's pages and *)
(* the limits are, what the caller takes for the tools of a server is not  *)
(* a part of them.                                                         *)
ListingWhole ==
    reading.pc = "listed" => reading.pages = pagesOfServer /\ reading.bytes <= MaxBytes
=============================================================================
