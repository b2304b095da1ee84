------------------------------- MODULE Database -------------------------------
(***************************************************************************)
(* The one SQLite file of a workspace: the migration registry, upgrade,    *)
(* backup and restore (runtime/migrations/manager.py), and the deletion of *)
(* a run as far as the schema decides it (RunStore.delete_empty_run).      *)
(*                                                                         *)
(* A registry entry stands for the tables its statements create and for    *)
(* the columns of theirs that name a run, with what deleting the run does  *)
(* to the row.  Every store of every process upgrades the file before it   *)
(* uses it; a migration and its row in schema_migrations are one           *)
(* transaction.                                                            *)
(***************************************************************************)
EXTENDS Integers, FiniteSets, Functions

CONSTANTS
  Processes,    \* processes that open the file (servers, commands)
  KnownTo,      \* the last version of the build each process runs
  Automatic,    \* versions that may be applied at startup
  MaxOpens      \* bound on the commands and starts

VARIABLES
  file,         \* path -> content, or NoFile
  process,      \* the processes at work
  opens         \* commands so far

databaseVars == <<file, process, opens>>

-----------------------------------------------------------------------------
(* The registry: MIGRATIONS.                                               *)

Column(table, column, onDelete) == [table |-> table, column |-> column, onDelete |-> onDelete]

V1 == [tables |-> {"runs", "checkpoints", "tracked_candidates", "tracking_snapshots",
                   "trigger_events"},
       runs   |-> {Column("checkpoints", "run_id", "cascade"),
                   Column("tracked_candidates", "run_id", "nothing")}]
V2 == [tables |-> {"source_suggestions"},
       runs   |-> {Column("source_suggestions", "run_id", "cascade")}]
V3 == [tables |-> {"financial_facts"},
       runs   |-> {Column("financial_facts", "run_id", "cascade")}]
V4 == [tables |-> {"market_bars", "market_quality_reports"}, runs |-> {}]
V5 == [tables |-> {"corporate_event_versions"},
       runs   |-> {Column("corporate_event_versions", "run_id", "cascade")}]
V6 == [tables |-> {"live_signal_observations", "live_signal_versions",
                   "live_signal_observation_links", "live_provider_checkpoints",
                   "live_dead_letters", "research_action_proposals"},
       runs   |-> {}]
V7 == [tables |-> {"live_rule_assessments", "live_signal_analyses", "live_alert_deliveries",
                   "live_settings", "live_user_actions"},
       runs   |-> {}]
V8 == [tables |-> {"live_verification_tasks", "live_evidence_links", "live_run_context_links",
                   "live_audit_entries", "live_soak_reports"},
       runs   |-> {Column("live_verification_tasks", "run_id", "restrict"),
                   Column("live_evidence_links", "run_id", "restrict"),
                   Column("live_run_context_links", "run_id", "restrict"),
                   Column("live_run_context_links", "parent_run_id", "restrict")}]
V9 == [tables |-> {"theme_definitions", "theme_sources", "theme_memberships",
                   "theme_universe_snapshots"},
       runs   |-> {}]
V10 == [tables |-> {"theme_daily_metrics", "mainline_policies", "mainline_assessments",
                    "mainline_state_events", "theme_research_proposals", "monitor_jobs"},
        runs   |-> {Column("theme_research_proposals", "run_id", "restrict")}]
V11 == [tables |-> {"market_comparison_reports"}, runs |-> {}]
V12 == [tables |-> {"disclosure_fact_candidates"},
        runs   |-> {Column("disclosure_fact_candidates", "run_id", "cascade")}]

Registry == <<V1, V2, V3, V4, V5, V6, V7, V8, V9, V10, V11, V12>>
Versions == DOMAIN Registry
LEGACY_TABLES == V1.tables

DatabaseAssumption ==
  /\ Processes \cap {"database", "backup"} = {}
  /\ KnownTo \in [Processes -> Versions]
  /\ Automatic \subseteq Versions
  /\ MaxOpens \in Nat

TablesOf(vs) == LET registry == Registry IN UNION {registry[v].tables : v \in vs}
RunColumns(tables) ==
  {c \in UNION {r.runs : r \in Range(Registry)} : c.table \in tables}

-----------------------------------------------------------------------------
(* A database: its tables (schema_migrations apart), the versions recorded *)
(* in it, whether the run is there and the columns with a row that names   *)
(* it.                                                                     *)
NoFile == [tables |-> {}, ledger |-> FALSE, applied |-> {}, run |-> FALSE, names |-> {}]
Empty == [NoFile EXCEPT !.ledger = TRUE]
Legacy == [tables |-> LEGACY_TABLES, ledger |-> FALSE, applied |-> {}, run |-> TRUE, names |-> {}]

\* The database, its backup, and the temporary file each process copies to.
Paths == {"database", "backup"} \cup Processes
Off == [pc |-> "off"]

DatabaseInit ==
  /\ file \in {[p \in Paths |-> IF p = "database" THEN d ELSE NoFile] : d \in {NoFile, Legacy}}
  /\ process = [p \in Processes |-> Off]
  /\ opens = 0

Go(p, job) == process' = [process EXCEPT ![p] = job]
Here(p, pc) == process[p].pc = pc

\* `db restore --force` replaces the file "after stopping the API": nothing is started
\* until the file is in place.
Restoring == \E p \in Processes : process[p].pc = "rename" /\ process[p].to = "database"
Command(p) ==
  process[p] = Off /\ ~Restoring /\ opens < MaxOpens /\ opens' = opens + 1
Write(content) == file' = [file EXCEPT !["database"] = content]

-----------------------------------------------------------------------------
(* upgrade_database; ensure_database is the upgrade of a store, which      *)
(* applies automatic migrations only.                                      *)

Upgrading(automaticOnly) == [pc |-> "ledger", automaticOnly |-> automaticOnly]

\* A process makes a store, or runs `db upgrade`.
Open(p, automaticOnly) ==
  /\ Command(p)
  /\ Go(p, Upgrading(automaticOnly))
  /\ UNCHANGED file

\* The file is there once it is connected to, schema_migrations with this commit.
CreateLedger(p) ==
  /\ Here(p, "ledger")
  /\ Write([file["database"] EXCEPT !.ledger = TRUE])
  /\ Go(p, [process[p] EXCEPT !.pc = "read"])
  /\ UNCHANGED opens

\* _validate_applied: a version this build does not know is one of a newer build.
Knows(p) == 1..KnownTo[p]

ReadApplied(p) ==
  LET applied == file["database"].applied IN
  /\ Here(p, "read")
  /\ Go(p, IF applied \subseteq Knows(p)
           THEN [pc |-> "migrate", automaticOnly |-> process[p].automaticOnly,
                 todo |-> Knows(p) \ applied]
           ELSE Off)
  /\ UNCHANGED <<file, opens>>

\* The first migration that was pending when the rows were read: its transaction fails
\* as a whole if another process has recorded it since.
Migrate(p) ==
  LET job == process[p]
      v == CHOOSE w \in job.todo : \A u \in job.todo : w <= u
      d == file["database"]
  IN
  /\ Here(p, "migrate") /\ job.todo # {}
  /\ IF (job.automaticOnly /\ v \notin Automatic) \/ v \in d.applied
     THEN Go(p, Off) /\ UNCHANGED file
     ELSE /\ Write([d EXCEPT !.tables = d.tables \cup TablesOf({v}),
                             !.applied = d.applied \cup {v}])
          /\ Go(p, [job EXCEPT !.todo = job.todo \ {v}])
  /\ UNCHANGED opens

\* Mutant: a migration is no transaction.
MigrationFails_Autocommit(p) ==
  LET job == process[p]
      v == CHOOSE w \in job.todo : \A u \in job.todo : w <= u
      d == file["database"]
  IN
  /\ Here(p, "migrate") /\ job.todo # {}
  /\ Write([d EXCEPT !.tables = d.tables \cup TablesOf({v})])
  /\ Go(p, Off)
  /\ UNCHANGED opens

\* A statement fails, the file stays locked for too long, or the process dies: the
\* transaction is rolled back.
MigrationFails(p) ==
  /\ Here(p, "migrate") /\ process[p].todo # {}
  /\ Go(p, Off)
  /\ UNCHANGED <<file, opens>>

\* database_status reads and validates the rows again, and is the result.
FinishUpgrade(p) ==
  /\ Here(p, "migrate") /\ process[p].todo = {}
  /\ Go(p, IF file["database"].applied \subseteq Knows(p) THEN [pc |-> "ready"] ELSE Off)
  /\ UNCHANGED <<file, opens>>

\* A server is stopped, a command ends.
Stop(p) ==
  /\ process[p] # Off
  /\ Go(p, Off)
  /\ UNCHANGED <<file, opens>>

-----------------------------------------------------------------------------
(* backup_database and restore_database: the SQLite backup of one file     *)
(* into a temporary one, which is verified and then renamed.               *)

Copy(p, source, job) ==
  /\ Command(p)
  /\ file[source] # NoFile
  /\ file' = [file EXCEPT ![p] = file[source]]
  /\ Go(p, job)

Backup(p, force) ==
  /\ force \/ file["backup"] = NoFile
  /\ Copy(p, "database", [pc |-> "rename", to |-> "backup"])

Restore(p, force) ==
  /\ \A q \in Processes : process[q] = Off
  /\ force \/ file["database"] = NoFile
  /\ Copy(p, "backup", [pc |-> "rename", to |-> "database"])

\* A restored database is upgraded, by hand.
Rename(p) ==
  LET to == process[p].to IN
  /\ Here(p, "rename")
  /\ file' = [file EXCEPT ![to] = file[p], ![p] = NoFile]
  /\ Go(p, IF to = "database" THEN Upgrading(FALSE) ELSE Off)
  /\ UNCHANGED opens

\* The copy does not pass quick_check.
CopyFails(p) ==
  /\ Here(p, "rename")
  /\ file' = [file EXCEPT ![p] = NoFile]
  /\ Go(p, Off)
  /\ UNCHANGED opens

-----------------------------------------------------------------------------
(* What a store of a process that is ready does with the run: it is saved, *)
(* a row comes to name it, it is deleted.                                  *)

SaveRun(p) ==
  LET d == file["database"] IN
  /\ Here(p, "ready") /\ ~d.run
  /\ Write([d EXCEPT !.run = TRUE])
  /\ UNCHANGED <<process, opens>>

NameRun(p) ==
  LET d == file["database"] IN
  /\ Here(p, "ready") /\ d.run /\ d.names = {}
  /\ \E c \in RunColumns(d.tables) : Write([d EXCEPT !.names = {c}])
  /\ UNCHANGED <<process, opens>>

\* Mutant: a child's parent_run_id is no reference.
Blockers_RunId(d) == {c \in d.names : c.column = "run_id"}

\* _delete_blockers: every table there is, for its columns run_id and parent_run_id.
Blockers(d) == {c \in d.names : c.column \in {"run_id", "parent_run_id"}}

\* delete_empty_run, one transaction: what cascades goes along, what restricts raises.
DeleteEmptyRun(p) ==
  LET d == file["database"] IN
  /\ Here(p, "ready") /\ d.run
  /\ Blockers(d) = {}
  /\ \A c \in d.names : c.onDelete # "restrict"
  /\ Write([d EXCEPT !.run = FALSE, !.names = {c \in d.names : c.onDelete = "nothing"}])
  /\ UNCHANGED <<process, opens>>

DatabaseNext ==
  \/ \E p \in Processes, flag \in BOOLEAN : Open(p, flag)
  \/ \E p \in Processes : CreateLedger(p)
  \/ \E p \in Processes : ReadApplied(p)
  \/ \E p \in Processes : Migrate(p)
  \/ \E p \in Processes : MigrationFails(p)
  \/ \E p \in Processes : FinishUpgrade(p)
  \/ \E p \in Processes : Stop(p)
  \/ \E p \in Processes, flag \in BOOLEAN : Backup(p, flag)
  \/ \E p \in Processes, flag \in BOOLEAN : Restore(p, flag)
  \/ \E p \in Processes : Rename(p)
  \/ \E p \in Processes : CopyFails(p)
  \/ \E p \in Processes : SaveRun(p)
  \/ \E p \in Processes : NameRun(p)
  \/ \E p \in Processes : DeleteEmptyRun(p)

DatabaseSpec == DatabaseInit /\ [][DatabaseNext]_databaseVars

-----------------------------------------------------------------------------

DatabaseTypeOK ==
  \A d \in Range(file) :
    /\ d.tables \subseteq TablesOf(Versions) /\ d.applied \subseteq Versions
    /\ \A c \in d.names : c.table \in d.tables
    /\ d.ledger \in BOOLEAN /\ d.run \in BOOLEAN

\* The rows of schema_migrations tell the schema, of every copy of the file and at any
\* time: they are the first versions of the registry, and the tables are those of these
\* versions (or the legacy ones before them), so that fresh, legacy, restored and twice
\* upgraded databases end alike.  A process that is ready found its whole registry
\* applied (upgrade_database, manager.py:978).
LedgerTellsSchema ==
  /\ \A d \in Range(file) :
       /\ d.applied = 1..Cardinality(d.applied)
       /\ IF d.applied = {} THEN d.tables \in {{}, LEGACY_TABLES}
          ELSE d.tables = TablesOf(d.applied)
  /\ \A p \in Processes : Here(p, "ready") => Knows(p) \subseteq file["database"].applied

\* A run that no blocker protects can be deleted, and takes nothing with it that names
\* it: no row is left behind, no row goes along, no constraint refuses it, at whatever
\* schema the build has (_delete_blockers, store.py:107, over the foreign keys).
DeletionTakesNothing ==
  LET d == file["database"] IN
  /\ ~d.run => d.names = {}
  /\ d.run /\ Blockers(d) = {} => d.names = {}
=============================================================================
