-------------------------- MODULE OutcomeMigration --------------------------
(***************************************************************************)
(* connect() and _migrate_outcomes() of app/code_store.py: every process   *)
(* that starts looks whether the outcome column of code_redemptions exists *)
(* and is filled in, and if need be does both in one transaction, while    *)
(* processes that started before it redeem, settle and sweep.              *)
(*                                                                         *)
(* What a serving process does is one step for each call here; module      *)
(* CodeStore has its statements.                                           *)
(***************************************************************************)
EXTENDS SharedConnection, Naturals

CONSTANTS
    OldRows,            \* redemptions from before the column existed
    NewRows,            \* redemptions that may be made
    MaxDeaths           \* bound on processes that die

ASSUME MigrationAssumption ==
    /\ OldRows \cap NewRows = {}
    /\ MaxDeaths \in Nat

VARIABLES
    boot,               \* boot[p]: where the start of p is
    hasColumn,          \* hasColumn[p]: what p read of table_info
    running,            \* running[p]: redemptions whose jobs run in p
    deaths

migrationVars == <<storage, boot, hasColumn, running, deaths>>

Rows == OldRows \cup NewRows

\* Without the column every row reads as one whose outcome is NULL.
MigrationDatabase ==
    [ version : {0, 1},
      column  : BOOLEAN,
      outcome : [Rows -> {"absent", "null", "legacy", "complete", "refunded"}] ]

Boot == { "down", "connected", "unmigrated", "begun", "altered", "marked", "versioned", "serving" }
Migrating == {"altered", "marked", "versioned"}     \* has written

\* An explicit BEGIN makes the migration one transaction up to its commit.
MigrationTypeOK ==
    /\ ConnTypeOK(MigrationDatabase)
    /\ boot \in [Procs -> Boot]
    /\ hasColumn \in [Procs -> BOOLEAN]
    /\ running \in [Procs -> SUBSET NewRows]
    /\ deaths \in 0..MaxDeaths
    /\ \A p \in Procs :
          /\ boot[p] \in Migrating => conn[p] = "writing"
          /\ boot[p] = "begun" => conn[p] = "begun"
          /\ boot[p] \notin Migrating \cup {"begun"} => conn[p] = "idle"

\* A database from before the column existed, one whose migration got only as
\* far as the column, or a new one.
MigrationInit ==
    /\ \E column \in BOOLEAN, rows \in SUBSET OldRows :
          ConnInit([ version |-> 0, column |-> column,
                     outcome |-> [r \in Rows |-> IF r \in rows THEN "null" ELSE "absent"] ])
    /\ boot = [p \in Procs |-> "down"]
    /\ hasColumn = [p \in Procs |-> FALSE]
    /\ running = [p \in Procs |-> {}]
    /\ deaths = 0

-----------------------------------------------------------------------------
\* Rows whose outcome is set by one UPDATE.
Mark(db, rows, outcome) ==
    [db EXCEPT !.outcome = [r \in Rows |-> IF r \in rows THEN outcome ELSE @[r]]]

NullRows(db) == {r \in Rows : db.outcome[r] = "null"}

\* p's process ends: what it has not committed is rolled back.
Down(p) ==
    /\ Disconnect(p)
    /\ boot' = [boot EXCEPT ![p] = "down"]
    /\ running' = [running EXCEPT ![p] = {}]
    /\ UNCHANGED hasColumn

Go(p, from, to) ==
    /\ boot[p] = from
    /\ boot' = [boot EXCEPT ![p] = to]
    /\ UNCHANGED <<running, deaths>>

Connect(p) ==
    /\ Go(p, "down", "connected")
    /\ UNCHANGED <<storage, hasColumn>>

\* Mutant: a database with the column is taken for migrated, as it once was.
MigratedIfColumn(db) == db.column

Migrated(db) == db.version >= 1

ReadVersion(p) ==
    /\ Go(p, "connected", IF Migrated(disk) THEN "serving" ELSE "unmigrated")
    /\ UNCHANGED <<storage, hasColumn>>

\* PRAGMA table_info outside a transaction, then BEGIN, which takes no lock.
ReadColumns(p) ==
    /\ Go(p, "unmigrated", "begun")
    /\ hasColumn' = [hasColumn EXCEPT ![p] = disk.column]
    /\ conn' = [conn EXCEPT ![p] = "begun"]
    /\ UNCHANGED <<disk, view>>

\* A statement of an implicit or finished transaction, persisted at once.
Persist(p, db) ==
    /\ CanWrite(p)
    /\ disk' = db
    /\ view' = [q \in Procs |-> IF q = p \/ conn[q] \in {"idle", "begun"} THEN db ELSE view[q]]
    /\ conn' = [conn EXCEPT ![p] = "idle"]

Alter(p) ==
    /\ ~hasColumn[p] /\ ~view[p].column
    /\ Write(p, [view[p] EXCEPT !.column = TRUE])
    /\ Go(p, "begun", "altered")
    /\ UNCHANGED hasColumn

MarkLegacy(p) ==
    /\ \/ Go(p, "altered", "marked")
       \/ hasColumn[p] /\ Go(p, "begun", "marked")
    /\ Write(p, Mark(view[p], NullRows(view[p]), "legacy"))
    /\ UNCHANGED hasColumn

\* Mutant: the version is not recorded.
SetNoVersion(p) ==
    /\ Go(p, "marked", "versioned")
    /\ Write(p, view[p])
    /\ UNCHANGED hasColumn

SetVersion(p) ==
    /\ Go(p, "marked", "versioned")
    /\ Write(p, [view[p] EXCEPT !.version = 1])
    /\ UNCHANGED hasColumn

CommitMigration(p) ==
    /\ Go(p, "versioned", "serving")
    /\ Commit(p)
    /\ UNCHANGED hasColumn

\* The first statement of the transaction raises, on a lock that another
\* process holds for five seconds or on a column another process has added:
\* rolled back, and the process ends with its start.
MigrationFails(p) ==
    /\ boot[p] = "begun"
    /\ ~CanWrite(p) \/ (~hasColumn[p] /\ view[p].column)
    /\ Down(p)
    /\ UNCHANGED deaths

-----------------------------------------------------------------------------
\* A process that serves.
Redeem(p) ==
    /\ boot[p] = "serving"
    /\ \E r \in NewRows :
          /\ disk.outcome[r] = "absent"
          /\ Persist(p, Mark(disk, {r}, "null"))
          /\ running' = [running EXCEPT ![p] = @ \cup {r}]
    /\ UNCHANGED <<boot, hasColumn, deaths>>

\* finish() or refund(): WHERE outcome IS NULL.
Settle(p) ==
    /\ boot[p] = "serving"
    /\ \E r \in running[p], outcome \in {"complete", "refunded"} :
          /\ Persist(p, Mark(disk, {r} \cap NullRows(disk), outcome))
          /\ running' = [running EXCEPT ![p] = @ \ {r}]
    /\ UNCHANGED <<boot, hasColumn, deaths>>

\* refund_stale() refunds what is old and open; a job that still runs, here or
\* in another process, is younger than the cutoff.
Sweep(p) ==
    /\ boot[p] = "serving"
    /\ LET stale == NullRows(disk) \ UNION {running[q] : q \in Procs}
       IN  /\ stale # {}
           /\ Persist(p, Mark(disk, stale, "refunded"))
    /\ UNCHANGED <<boot, hasColumn, running, deaths>>

Die(p) ==
    /\ boot[p] # "down" /\ deaths < MaxDeaths
    /\ deaths' = deaths + 1
    /\ Down(p)

Start(p) ==
    \/ Connect(p) \/ ReadVersion(p) \/ ReadColumns(p) \/ Alter(p) \/ MarkLegacy(p)
    \/ SetVersion(p) \/ CommitMigration(p) \/ MigrationFails(p)

MigrationNext ==
    \E p \in Procs : Start(p) \/ Redeem(p) \/ Settle(p) \/ Sweep(p) \/ Die(p)

MigrationSpec == MigrationInit /\ [][MigrationNext]_migrationVars

\* A container whose process ended is started again, and the sweep comes round.
MigrationFairSpec == MigrationSpec /\ \A p \in Procs : WF_migrationVars(Start(p)) /\ WF_migrationVars(Sweep(p))

-----------------------------------------------------------------------------
\* "So refund_stale() never reads past redemptions as lost jobs and hands
\* every use back" (code_store.py:103-105): whatever first starts race or die
\* in the middle, no redemption from before the column is refunded.
OldUsesStayUsed == \A r \in OldRows : disk.outcome[r] # "refunded"

\* First starts that race do not keep each other from migrating: the database
\* is migrated in the end.
MigratesInTheEnd == <>[](disk.version = 1)

-----------------------------------------------------------------------------
(* The inductive invariant behind OldUsesStayUsed: once the version stands, *)
(* no old row is open, and nobody serves before.                            *)
Filed(db) == \A r \in OldRows : db.outcome[r] \in {"absent", "legacy"}

\* No old row counts as settled by a job.
Unsettled(db) == \A r \in OldRows : db.outcome[r] \in {"absent", "null", "legacy"}

MigrationInv ==
    /\ MigrationTypeOK
    /\ Unsettled(disk)
    /\ disk.version = 1 => Filed(disk)
    /\ \A p \in Procs :
          /\ boot[p] = "serving" => disk.version = 1
          /\ boot[p] \notin Migrating => view[p] = disk
          /\ boot[p] = "altered" => Unsettled(view[p])
          /\ boot[p] \in {"marked", "versioned"} => Filed(view[p])
          /\ boot[p] \in {"altered", "marked"} => view[p].version = disk.version
          /\ boot[p] = "versioned" => view[p].version = 1
    /\ \A p, q \in Procs : boot[p] \in Migrating /\ boot[q] \in Migrating => p = q
=============================================================================
