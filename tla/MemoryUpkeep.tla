----------------------------- MODULE MemoryUpkeep -----------------------------
(***************************************************************************)
(* The upkeep of shared memory on Postgres: loro memory apply-schema and   *)
(* migrate, loro operations backup and restore (memory/postgres.py,        *)
(* memory/migrations.py, recovery.py).                                     *)
(*                                                                         *)
(* A migration is one transaction under an advisory lock.  A backup and a  *)
(* restore take several steps, on a dump and a manifest that lie beside    *)
(* each other under one name.  Of the database the model keeps its tables, *)
(* the row policy, the column of operation identifiers, the rows, the      *)
(* migration table and what it records: the baseline, whose checksum       *)
(* depends on the configured tenant isolation, and version 2.              *)
(*                                                                         *)
(* Of commits this module has only the rows they leave; how a commit and a *)
(* change of its state go is SharedMemory's, and MemorySpec has both.      *)
(***************************************************************************)
EXTENDS SharedMemory

CONSTANTS
    StoredRows,      \* memories that may be committed
    Operators,       \* processes that run a command
    MaxUpkeep        \* bounds the commands and the changes of configuration

ASSUME UpkeepAssumption == MaxUpkeep \in Nat

VARIABLES
    isolated,        \* config: tenant_isolation is "identity"
    upkeep,          \* the commands and changes of configuration so far
    database,        \* the schema and its rows
    operator,        \* process -> the command it runs and where it is in it
    backup,          \* the dump under the output name
    manifest,        \* the manifest beside it
    unsure           \* history: a restore began, and none has since left the
                     \*   database with the schema of a dump that was sure

upkeepVars == <<isolated, upkeep, database, operator, backup, manifest, unsure>>

NoTables == [tables |-> FALSE, policy |-> FALSE, ids |-> FALSE, rows |-> {},
             ledger |-> FALSE, baseline |-> "none", second |-> FALSE]
NoFileYet == [kind |-> "none"]
NoCommandYet == [command |-> "none", target |-> 0, yes |-> FALSE, isolated |-> FALSE,
                 pc |-> "idle", dump |-> NoFileYet, version |-> 0, digest |-> NoFileYet]

\* Nothing yet, or the tables of a deployment older than the migrations.
UpkeepInit ==
    /\ isolated \in BOOLEAN
    /\ upkeep = 0
    /\ \/ database = NoTables
       \/ \E policy \in BOOLEAN, rows \in SUBSET StoredRows :
             database = [NoTables EXCEPT !.tables = TRUE, !.policy = policy, !.rows = rows]
    /\ operator = [o \in Operators |-> NoCommandYet]
    /\ backup = NoFileYet /\ manifest = NoFileYet /\ unsure = FALSE

-----------------------------------------------------------------------------
Counts == upkeep < MaxUpkeep /\ upkeep' = upkeep + 1

Begins(o, command, target, yes) ==
    /\ Counts
    /\ operator[o].command = "none"
    /\ operator' = [operator EXCEPT ![o] =
                        [NoCommandYet EXCEPT !.command = command, !.target = target,
                                             !.yes = yes, !.isolated = isolated,
                                             !.pc = "asked"]]

Runs(o, command, label) == operator[o].command = command /\ operator[o].pc = label
Reaches(o, label) == operator' = [operator EXCEPT ![o].pc = label]
Ends(o, outcome) == operator' = [operator EXCEPT ![o] = [NoCommandYet EXCEPT !.pc = outcome]]

\* Somebody turns tenant isolation on or off.
Reconfigure ==
    /\ Counts
    /\ isolated' = ~isolated
    /\ UNCHANGED <<database, operator, backup, manifest, unsure>>

\* Commits need the column of operation identifiers.
CommitRow(r) ==
    /\ database.tables /\ database.ids
    /\ database' = [database EXCEPT !.rows = @ \union {r}]
    /\ UNCHANGED <<isolated, upkeep, operator, backup, manifest, unsure>>

-----------------------------------------------------------------------------
(* Migrations.                                                             *)

Current(d) == IF d.second THEN 2 ELSE IF d.baseline # "none" THEN 1 ELSE 0

\* The checksum of the baseline that an operator's configuration renders.
Wanted(o) == IF operator[o].isolated THEN "isolated" ELSE "plain"

\* A faulty Mismatch: the checksums are not compared.
MismatchNever(o) == FALSE

Mismatch(o) == database.baseline \notin {"none", Wanted(o)}

\* Rollback below the baseline drops the tables.
Unauthorised(o) ==
    operator[o].target < 1 /\ Current(database) >= 1 /\ ~operator[o].yes

\* Its statements fail where version 2 changes a table that is not there.
TablesMissing(o) ==
    /\ Current(database) >= 1 /\ ~database.tables
    /\ operator[o].target # Current(database)
    /\ 2 \in {operator[o].target, Current(database)}

MigrationRefused(o) == Mismatch(o) \/ Unauthorised(o) \/ TablesMissing(o)

\* Every statement of the baseline leaves what is there.
WithBaseline(d, checksum) ==
    IF Current(d) >= 1 THEN d
    ELSE [d EXCEPT !.tables = TRUE, !.ledger = TRUE, !.baseline = checksum,
                   !.policy = @ \/ checksum = "isolated"]

Upgraded(d, target, checksum) ==
    IF target < 2 THEN WithBaseline(d, checksum)
    ELSE [WithBaseline(d, checksum) EXCEPT !.ids = TRUE, !.second = TRUE]

\* The migration table itself stays.
RolledBackTo(d, target) ==
    IF target < 1 THEN [NoTables EXCEPT !.ledger = d.ledger]
    ELSE [d EXCEPT !.ids = FALSE, !.second = FALSE]

AskMigrate(o, target, yes) ==
    /\ Begins(o, "migrate", target, yes)
    /\ UNCHANGED <<isolated, database, backup, manifest, unsure>>

ApplySchema(o) ==
    /\ Begins(o, "migrate", 2, FALSE)
    /\ UNCHANGED <<isolated, database, backup, manifest, unsure>>

Migrate(o) ==
    /\ Runs(o, "migrate", "asked") /\ ~MigrationRefused(o)
    /\ LET current == Current(database)
           target  == operator[o].target
       IN  database' = IF target > current THEN Upgraded(database, target, Wanted(o))
                       ELSE IF target < current THEN RolledBackTo(database, target)
                       ELSE database
    /\ Ends(o, "migrated")
    /\ UNCHANGED <<isolated, upkeep, backup, manifest, unsure>>

\* It raises, and the transaction is rolled back with all it did.
RefuseMigration(o) ==
    /\ Runs(o, "migrate", "asked") /\ MigrationRefused(o)
    /\ Ends(o, "refused")
    /\ UNCHANGED <<isolated, upkeep, database, backup, manifest, unsure>>

-----------------------------------------------------------------------------
(* Backups.                                                                *)

AskBackup(o) ==
    /\ Begins(o, "backup", 0, FALSE)
    /\ UNCHANGED <<isolated, database, backup, manifest, unsure>>

\* pg_dump writes one snapshot to a temporary name.
DumpDatabase(o) ==
    /\ Runs(o, "backup", "asked")
    /\ operator' = [operator EXCEPT ![o].pc = "dumped",
                                    ![o].dump = [kind |-> "dump", of |-> database,
                                                 sure |-> ~unsure]]
    /\ UNCHANGED <<isolated, upkeep, database, backup, manifest, unsure>>

ReplaceBackup(o) ==
    /\ Runs(o, "backup", "dumped")
    /\ backup' = operator[o].dump
    /\ Reaches(o, "replaced")
    /\ UNCHANGED <<isolated, upkeep, database, manifest, unsure>>

\* The manifest's schema version is read from the database after the dump.
ReadVersion(o) ==
    /\ Runs(o, "backup", "replaced")
    /\ operator' = [operator EXCEPT ![o].pc = "versioned", ![o].version = Current(database)]
    /\ UNCHANGED <<isolated, upkeep, database, backup, manifest, unsure>>

\* Its checksum is that of the file under the output name.
DigestBackup(o) ==
    /\ Runs(o, "backup", "versioned")
    /\ operator' = [operator EXCEPT ![o].pc = "digested", ![o].digest = backup]
    /\ UNCHANGED <<isolated, upkeep, database, backup, manifest, unsure>>

WriteManifest(o) ==
    /\ Runs(o, "backup", "digested")
    /\ manifest' = [kind |-> "manifest", digest |-> operator[o].digest,
                    version |-> operator[o].version]
    /\ Ends(o, "backed up")
    /\ UNCHANGED <<isolated, upkeep, database, backup, unsure>>

\* verify_postgres_backup: the manifest is whole and its checksum the dump's.
Verified ==
    backup.kind = "dump" /\ manifest.kind = "manifest" /\ manifest.digest = backup

-----------------------------------------------------------------------------
(* Restores: each is authorised by --yes, and so is --clean.               *)

AskRestore(o, clean) ==
    /\ Begins(o, IF clean THEN "clean restore" ELSE "restore", 0, TRUE)
    /\ UNCHANGED <<isolated, database, backup, manifest, unsure>>

VerifyBackup(o) ==
    /\ \/ Runs(o, "restore", "asked") \/ Runs(o, "clean restore", "asked")
    /\ IF Verified THEN Reaches(o, "verified") ELSE Ends(o, "refused")
    /\ UNCHANGED <<isolated, upkeep, database, backup, manifest, unsure>>

\* What a clean restore leaves: only what the archive holds is dropped.
Cleared(d, archive) ==
    LET schema == IF archive.tables
                  THEN [d EXCEPT !.tables = FALSE, !.policy = FALSE, !.ids = FALSE, !.rows = {}]
                  ELSE d
    IN  IF archive.ledger THEN [schema EXCEPT !.ledger = FALSE, !.baseline = "none",
                                              !.second = FALSE]
        ELSE schema

\* pg_restore opens the file as it is by now.  Its statements are no transaction,
\* and it goes on past those that fail.
OpenBackup(o) ==
    /\ \/ Runs(o, "restore", "verified") /\ database' = database
       \/ Runs(o, "clean restore", "verified") /\ database' = Cleared(database, backup.of)
    /\ operator' = [operator EXCEPT ![o].pc = "opened", ![o].dump = backup]
    /\ unsure' = TRUE
    /\ UNCHANGED <<isolated, upkeep, backup, manifest>>

Restores(o, label) == Runs(o, "restore", label) \/ Runs(o, "clean restore", label)

\* Tables that are there are left as they are.
WithTables(d, archive) ==
    LET schema == IF archive.tables /\ ~d.tables
                  THEN [d EXCEPT !.tables = TRUE, !.ids = archive.ids] ELSE d
    IN  [schema EXCEPT !.ledger = @ \/ archive.ledger]

RestoreTables(o) ==
    /\ Restores(o, "opened")
    /\ database' = WithTables(database, operator[o].dump.of)
    /\ Reaches(o, "created")
    /\ UNCHANGED <<isolated, upkeep, backup, manifest, unsure>>

\* The rows of a table are copied together or, where rows or a policy are in their
\* way, not at all; two records of one migration are in each other's way.
WithRows(d, archive, copied) ==
    LET filled == [d EXCEPT !.rows = @ \union copied]
    IN  IF d.ledger /\ d.baseline = "none"
        THEN [filled EXCEPT !.baseline = archive.baseline, !.second = archive.second]
        ELSE filled

RestoreRows(o) ==
    LET archive == operator[o].dump.of
        freely  == database.tables /\ database.rows = {} /\ ~database.policy
    IN  /\ Restores(o, "created")
        /\ \E copied \in {{}, archive.rows} :
              /\ freely => copied = archive.rows
              /\ ~database.tables => copied = {}
              /\ database' = WithRows(database, archive, copied)
        /\ Reaches(o, "copied")
        /\ UNCHANGED <<isolated, upkeep, backup, manifest, unsure>>

SchemaOf(d) == <<d.tables, d.policy, d.ids, d.baseline, d.second>>

\* Row policies come last.
RestorePolicy(o) ==
    /\ Restores(o, "copied")
    /\ database' = [database EXCEPT
                       !.policy = @ \/ (database.tables /\ operator[o].dump.of.policy)]
    /\ unsure' = ~ /\ operator[o].dump.sure
                   /\ SchemaOf(database') = SchemaOf(operator[o].dump.of)
                   /\ \A p \in Operators \ {o} :
                         operator[p].pc \notin {"opened", "created", "copied"}
    /\ Ends(o, "finished")
    /\ UNCHANGED <<isolated, upkeep, backup, manifest>>

\* A command fails, is cut off by its time limit or dies; a manifest that was
\* being written is then cut short.
CommandStops(o) ==
    /\ operator[o].command # "none"
    /\ Ends(o, "failed")
    /\ \/ UNCHANGED manifest
       \/ Runs(o, "backup", "digested") /\ manifest' = [kind |-> "torn"]
    /\ UNCHANGED <<isolated, upkeep, database, backup, unsure>>

UpkeepNext ==
    \/ Reconfigure \/ \E r \in StoredRows : CommitRow(r)
    \/ \E o \in Operators :
          \/ \E target \in 0 .. 2, yes \in BOOLEAN : AskMigrate(o, target, yes)
          \/ ApplySchema(o) \/ Migrate(o) \/ RefuseMigration(o)
          \/ AskBackup(o) \/ DumpDatabase(o) \/ ReplaceBackup(o) \/ ReadVersion(o)
          \/ DigestBackup(o) \/ WriteManifest(o)
          \/ \E clean \in BOOLEAN : AskRestore(o, clean)
          \/ VerifyBackup(o) \/ OpenBackup(o) \/ RestoreTables(o) \/ RestoreRows(o)
          \/ RestorePolicy(o) \/ CommandStops(o)

MemorySpec ==
    /\ SharedMemoryInit /\ UpkeepInit
    /\ [][\/ SharedMemoryNext /\ UNCHANGED upkeepVars
          \/ UpkeepNext /\ UNCHANGED sharedMemoryVars]_<<sharedMemoryVars, upkeepVars>>

-----------------------------------------------------------------------------
(* The migration table tells the truth about the schema, whatever was      *)
(* migrated, rolled back and dumped side by side: what it records is       *)
(* there, and the versions have no gap.  A restore puts that in doubt from *)
(* its first statement: it may be cut off before the row policies, meet    *)
(* tables of another version, or leave the migration table that its dump   *)
(* does not hold.  The doubt ends when a restore has left exactly the      *)
(* schema of a dump that was taken without doubt.                          *)
SchemaAsRecorded ==
    ~unsure => /\ database.baseline # "none" => database.tables
               /\ database.baseline = "isolated" => database.policy
               /\ database.second => database.baseline # "none" /\ database.ids

(* A migration that succeeds under a configuration with tenant isolation   *)
(* leaves the row policy on, also when the tables are older than the       *)
(* configuration or came from a backup taken without isolation, unless a   *)
(* restore has put the schema in doubt.                                    *)
IsolationInForce ==
    \A o \in Operators :
        Runs(o, "migrate", "asked") /\ operator'[o].pc = "migrated"
        /\ operator[o].isolated /\ operator[o].target >= 1 /\ ~unsure
            => database'.policy

(* Rows disappear only while a command that was told it may destroy them   *)
(* is at work ("Rollback below version 1 drops shared-memory tables and is *)
(* refused unless the caller explicitly authorizes", docs/recovery.md).    *)
RowsKept ==
    \/ database.rows \subseteq database'.rows
    \/ \E o \in Operators : operator[o].command # "none" /\ operator[o].yes

(* What shared memory is trusted with: no state without its event, nothing *)
(* stored twice, a schema and an isolation that are what the migrations    *)
(* recorded as long as no restore has put them in doubt, and rows that no  *)
(* command destroys unasked.                                               *)
SharedMemoryKept ==
    [][ProvenanceFirst' /\ SchemaAsRecorded' /\ IsolationInForce /\ RowsKept
      ]_<<sharedMemoryVars, upkeepVars>>

(* The manifest binds the schema version of the dump (docs/recovery.md).   *)
BackupDescribed == Verified => manifest.version = Current(backup.of)
=============================================================================
