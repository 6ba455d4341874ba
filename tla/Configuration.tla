---------------------------- MODULE Configuration ----------------------------
(***************************************************************************)
(* The layered configuration of loro/config.py and the commands that       *)
(* change its local file.                                                  *)
(*                                                                         *)
(* A layer gives some keys a value.  A command loads the merged layers,    *)
(* changes its copy and writes a section of that copy, a table of          *)
(* everything but what is unset, into .loro/config.local.toml.  Loading,   *)
(* reading the file and writing it are three steps, and nothing locks      *)
(* them: the command line and the web interface take turns.                *)
(***************************************************************************)
EXTENDS Integers

CONSTANTS
    Writers,        \* processes that run configuration commands
    Values,         \* values of the keys whose value does not matter
    Absent,         \* no value
    Unchanged,      \* a key a command leaves as it is
    Layers,         \* what the layers around the local file may say
    LocalFiles,     \* what the local file may say at first
    Troubles,       \* what may be wrong with the sources of a load
    MaxCommands

VARIABLES
    below, above,   \* the layers merged before and after the local file
    trouble,        \* what is wrong with the sources, or "none"
    file,           \* the local file: whether it exists, and its keys
    writers,        \* the command each writer runs
    commands        \* how many commands have begun

configurationVars == <<below, above, trouble, file, writers, commands>>

ServerKeys == {"transport", "url", "command", "credential"}
McpKeys == ServerKeys \union {"profile", "extension", "webmcp", "exports"}

\* One key stands for each of the other sections a command writes.
ConfigKeys == McpKeys \union
    {"subject", "approval_store", "scripts", "backend", "collector",
     "local_memory", "warehouse", "realm", "base_url", "workspace_roots",
     "default_profile", "endpoint", "access_rules"}

Config == [ConfigKeys -> Values \union {Absent, "stdio", "http"}]
Empty == [k \in ConfigKeys |-> Absent]

ASSUME ConfigurationAssumption ==
    /\ Unchanged \notin Values \union {Absent, "stdio", "http"}
    /\ Absent \notin Values \union {"stdio", "http"}
    /\ Layers \subseteq Config \X Config /\ LocalFiles \subseteq Config
    /\ MaxCommands \in Nat

\* _merge, for one key; LoroConfig is what the layers give together.
Over(override, base) ==
    [k \in ConfigKeys |-> IF override[k] # Absent THEN override[k] ELSE base[k]]

Effective == Over(above, Over(file.keys, below))

---------------------------------------------------------------------------
\* MCPServerConfig._validate_transport, for the one server.
ServerValid(c) ==
    \/ \A k \in ServerKeys : c[k] = Absent
    \/ c["transport"] # "http" /\ c["command"] # Absent /\ c["url"] = Absent
    \/ c["transport"] = "http" /\ c["url"] # Absent /\ c["command"] = Absent

\* MCPConfig._validate_server_profiles.
ReferencesValid(c) == c["credential"] # Absent => c["profile"] # Absent

Valid(c) == ServerValid(c) /\ ReferencesValid(c)

\* _verify_managed_sources, the parsers and migrate_config_data.
SourcesTrusted == trouble = "none"

Loads == SourcesTrusted /\ Valid(Effective)

Idle == [pc |-> "idle", command |-> "none", replace |-> FALSE, writes |-> {},
         want |-> Empty, view |-> Empty, copy |-> [exists |-> FALSE, keys |-> Empty]]

ConfigurationInit ==
    /\ \E l \in Layers : below = l[1] /\ above = l[2]
    /\ \E exists \in BOOLEAN, c \in LocalFiles :
          /\ c # Empty => exists
          /\ file = [exists |-> exists, keys |-> c]
    /\ trouble \in Troubles
    /\ Valid(Effective)
    /\ writers = [w \in Writers |-> Idle]
    /\ commands = 0

---------------------------------------------------------------------------
\* A command: load_config, the change, and the sections it will write.  A
\* command that is refused, by the load or by its own checks, has no effect.
Begin(w, command, replace, writes, want) ==
    /\ commands < MaxCommands
    /\ writers[w].pc = "idle" /\ Loads
    /\ commands' = commands + 1
    /\ writers' = [writers EXCEPT ![w] =
           [Idle EXCEPT !.pc = "decided", !.command = command, !.replace = replace,
               !.writes = writes, !.want = want,
               !.view = [k \in ConfigKeys |-> IF want[k] = Unchanged
                                        THEN Effective[k] ELSE want[k]]]]
    /\ UNCHANGED <<below, above, trouble, file>>

Only(k, v) == [j \in ConfigKeys |-> IF j = k THEN v ELSE Unchanged]

Gives(k, values) == {Only(k, v) : v \in values}

Optional == Values \union {Absent}

\* A server as the arguments describe it: all four of its keys.
Servers(credentials) ==
    {[j \in ConfigKeys |-> CASE j = "transport" -> "stdio"
                       [] j = "command" -> v
                       [] j \in {"url", "credential"} -> Absent
                       [] OTHER -> Unchanged] : v \in Values}
      \union
    {[j \in ConfigKeys |-> CASE j = "transport" -> "http"
                       [] j = "url" -> v
                       [] j = "command" -> Absent
                       [] j = "credential" -> r
                       [] OTHER -> Unchanged] : v \in Values, r \in credentials}

NoServer == [j \in ConfigKeys |-> IF j \in ServerKeys THEN Absent ELSE Unchanged]

Known(credentials) == IF Effective["profile"] = Absent THEN {Absent} ELSE credentials

\* loro mcp add: the section is merged into the file.
AddServer(w) ==
    \E s \in Servers(Known(Optional)) : Begin(w, "mcp_add", FALSE, McpKeys, s)

\* loro setup mcp, and the save of the web interface: the section replaces.
SetUpServer(w) ==
    \E s \in Servers(Known(Optional)) : Begin(w, "setup_mcp", TRUE, McpKeys, s)

\* loro skills import with MCP servers: never over a server that is there.
ImportServer(w) ==
    /\ \A k \in ServerKeys : Effective[k] = Absent
    /\ \E s \in Servers({Absent}) : Begin(w, "skill_import", FALSE, McpKeys, s)

\* loro mcp remove, and the delete of the web interface.
RemoveServer(w) ==
    /\ \E k \in ServerKeys : Effective[k] # Absent
    /\ Begin(w, "mcp_remove", TRUE, McpKeys, NoServer)

AddCredential(w) ==
    \E s \in Gives("profile", Values) : Begin(w, "mcp_auth_add", FALSE, McpKeys, s)

\* Faulty variant: a profile that is still attached can be removed.
RemoveAttached(w) ==
    /\ Effective["profile"] # Absent
    /\ Begin(w, "mcp_auth_remove", TRUE, McpKeys, Only("profile", Absent))

RemoveCredential(w) ==
    /\ Effective["profile"] # Absent /\ Effective["credential"] = Absent
    /\ Begin(w, "mcp_auth_remove", TRUE, McpKeys, Only("profile", Absent))

AddExtension(w) ==
    \E s \in Gives("extension", Values) : Begin(w, "extension_add", FALSE, McpKeys, s)

SetUpWebMcp(w) ==
    \E s \in Gives("webmcp", Values) : Begin(w, "setup_webmcp", FALSE, McpKeys, s)

SetUpMcpServer(w) ==
    \E s \in Gives("exports", Values) : Begin(w, "setup_mcp_server", FALSE, McpKeys, s)

\* loro setup ..., each with its own section.  What is optional in the section
\* can be cleared.
SetUp(w, k, values) == \E s \in Gives(k, values) : Begin(w, "setup", FALSE, {k}, s)

SetIdentity(w)     == SetUp(w, "subject", Optional)
SetApprovals(w)    == SetUp(w, "approval_store", Values)
SetSkills(w)       == SetUp(w, "scripts", Values)
SetSandbox(w)      == SetUp(w, "backend", Values)
SetAudit(w)        == SetUp(w, "collector", Optional)
SetLocalMemory(w)  == SetUp(w, "local_memory", Values)
SetSharedMemory(w) == SetUp(w, "warehouse", Optional)
SetPolaris(w)      == SetUp(w, "realm", Optional)
SetAgents(w)       == SetUp(w, "default_profile", {Unchanged})
SetGateway(w)      == SetUp(w, "endpoint", Values)
SetAccess(w)       == SetUp(w, "access_rules", Optional)

\* SettingsService.update: the model and the default profile.
UpdateSettings(w) ==
    \E s \in Gives("default_profile", Optional) :
        Begin(w, "web_settings", FALSE, {"base_url", "default_profile"}, s)

\* _strict_local_profile, for a project without a file of its own.
StrictLocalProfile(change, root) ==
    [change EXCEPT !["workspace_roots"] = root, !["backend"] = root]

\* loro configure: a new file also gets a strict local profile.
Configure(w) ==
    \E v \in Optional, root \in Values :
        IF file.exists
        THEN Begin(w, "configure", FALSE, {"base_url"}, Only("base_url", v))
        ELSE Begin(w, "configure", FALSE, {"base_url", "workspace_roots", "backend"},
                   StrictLocalProfile(Only("base_url", v), root))

---------------------------------------------------------------------------
\* _config_section_data: the keys of the sections that have a value.
SectionData(c, writes) == [k \in ConfigKeys |-> IF k \in writes THEN c[k] ELSE Absent]

\* write_config_sections.
MergedInto(keys, data) == Over(data, keys)

\* replace_config_section.
Replaced(keys, data, writes) ==
    [k \in ConfigKeys |-> IF k \in writes THEN data[k] ELSE keys[k]]

ReadFile(w) ==
    /\ writers[w].pc = "decided"
    /\ writers' = [writers EXCEPT ![w].pc = "read", ![w].copy = file]
    /\ UNCHANGED <<below, above, trouble, file, commands>>

WriteFile(w) ==
    LET r == writers[w]
        data == SectionData(r.view, r.writes)
    IN  /\ r.pc = "read"
        /\ file' = [exists |-> TRUE,
                    keys |-> IF r.replace THEN Replaced(r.copy.keys, data, r.writes)
                             ELSE MergedInto(r.copy.keys, data)]
        /\ writers' = [writers EXCEPT ![w] =
               IF r.command = "configure" THEN [r EXCEPT !.pc = "auditing"] ELSE Idle]
        /\ UNCHANGED <<below, above, trouble, commands>>

\* loro configure puts the file back if the audit trail refuses its event.
RollBack(w) ==
    /\ writers[w].pc = "auditing"
    /\ file' = writers[w].copy
    /\ writers' = [writers EXCEPT ![w] = Idle]
    /\ UNCHANGED <<below, above, trouble, commands>>

\* The event is recorded, or the process ends at any earlier point.
Finish(w) ==
    /\ writers[w].pc # "idle"
    /\ writers' = [writers EXCEPT ![w] = Idle]
    /\ UNCHANGED <<below, above, trouble, file, commands>>

ConfigurationNext ==
    \E w \in Writers :
        \/ AddServer(w) \/ SetUpServer(w) \/ ImportServer(w) \/ RemoveServer(w)
        \/ AddCredential(w) \/ RemoveCredential(w) \/ AddExtension(w)
        \/ SetUpWebMcp(w) \/ SetUpMcpServer(w)
        \/ SetIdentity(w) \/ SetApprovals(w) \/ SetSkills(w) \/ SetSandbox(w)
        \/ SetAudit(w) \/ SetLocalMemory(w) \/ SetSharedMemory(w) \/ SetPolaris(w)
        \/ SetAgents(w) \/ SetGateway(w) \/ SetAccess(w)
        \/ UpdateSettings(w) \/ Configure(w)
        \/ ReadFile(w) \/ WriteFile(w) \/ RollBack(w) \/ Finish(w)

ConfigurationSpec == ConfigurationInit /\ [][ConfigurationNext]_configurationVars

---------------------------------------------------------------------------
\* However the commands of two processes interleave, whatever stale copies
\* they write and whichever is rolled back, a server never names a credential
\* profile that no layer defines (mcp_auth_remove, MCPConfig).
ReferencesResolve == ReferencesValid(Effective)

\* A command leaves behind a configuration that the next one can load
\* (mcp_add: "Add or replace an MCP server configuration").
ConfigurationLoads == SourcesTrusted => Valid(Effective)
=============================================================================
