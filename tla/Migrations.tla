----------------------------- MODULE Migrations -----------------------------
(***************************************************************************)
(* initialize_database (database.py): every command opens the SQLite file   *)
(* and brings its schema to the version of its release, one migration per   *)
(* transaction, while other processes do the same, perhaps of another       *)
(* release, and any of them may die.                                        *)
(***************************************************************************)
EXTENDS Naturals, FiniteSets, FiniteSetsExt

CONSTANTS
    Processes,
    Releases,       \* schema version that each release supports
    Statements,     \* statements of a migration: CREATE ... IF NOT EXISTS
    Nobody

ASSUME MigrationsAssumption ==
    Releases \subseteq Nat \ {0} /\ Statements \in Nat \ {0} /\ Nobody \notin Processes

VARIABLES
    registered,     \* committed: versions with a row in schema_migrations
    tables,         \* committed: what the statement <<version, number>> creates
    writer,         \* who holds SQLite's write lock
    init            \* [Processes -> where its initialize_database is, and the statements
                    \*  of the migration in hand that it executed and has not committed]

migrationVars == <<registered, tables, writer, init>>

NotStarted == [step |-> "none"]
Initialized == {"ready", "rejected"}

MigrationsInit ==
    /\ registered = {} /\ tables = {}
    /\ writer = Nobody
    /\ init = [p \in Processes |-> NotStarted]

\* _read_schema_version
SchemaVersion == Max(registered \cup {0})

Reject(p) == init' = [init EXCEPT ![p].step = "rejected"]

\* _open_connection: the file opens and WAL is confirmed, or not.
Open(p, release) ==
    /\ \E step \in {"read", "rejected"} : init' = [init EXCEPT ![p] =
            [step |-> step, release |-> release, next |-> 0, done |-> 0]]
    /\ UNCHANGED <<registered, tables, writer>>

\* The version is read once, before any transaction; a newer one is refused.
ReadVersion(p) ==
    /\ init[p].step = "read"
    /\ init' = [init EXCEPT ![p].next = SchemaVersion + 1, ![p].step =
            IF SchemaVersion > init[p].release THEN "rejected"
            ELSE IF SchemaVersion < init[p].release THEN "migrate" ELSE "check"]
    /\ UNCHANGED <<registered, tables, writer>>

\* BEGIN IMMEDIATE waits for the writer, and may give up.
Begin(p) ==
    /\ init[p].step = "migrate"
    /\ \/ writer = Nobody /\ writer' = p /\ init' = [init EXCEPT ![p].step = "write"]
       \/ Reject(p) /\ UNCHANGED writer
    /\ UNCHANGED <<registered, tables>>

\* One statement of _apply_migration: what it creates may be there already.
Execute(p) ==
    /\ init[p].step = "write" /\ init[p].done < Statements
    /\ init' = [init EXCEPT ![p].done = @ + 1]
    /\ UNCHANGED <<registered, tables, writer>>

\* INSERT INTO schema_migrations: the row of the version may not be there.
InsertVersion(p) ==
    /\ init[p].step = "write" /\ init[p].done = Statements
    /\ init[p].next \notin registered
    /\ init' = [init EXCEPT ![p].step = "commit"]
    /\ UNCHANGED <<registered, tables, writer>>

InHand(p) == {init[p].next} \X (1..init[p].done)

Commit(p) ==
    /\ init[p].step = "commit"
    /\ writer' = Nobody
    /\ registered' = registered \cup {init[p].next}
    /\ tables' = tables \cup InHand(p)
    /\ init' = [init EXCEPT ![p].next = @ + 1, ![p].done = 0,
            ![p].step = IF init[p].next = init[p].release THEN "check" ELSE "migrate"]

\* (mutant: the transaction is committed on the way out, whatever happened)
RollbackCommits(p) ==
    /\ init[p].step \in {"write", "commit"}
    /\ writer' = Nobody
    /\ tables' = tables \cup InHand(p)
    /\ init' = [init EXCEPT ![p].step = "rejected", ![p].done = 0]
    /\ UNCHANGED registered

\* A statement, the row or the commit fails: rollback.
Rollback(p) ==
    /\ init[p].step \in {"write", "commit"}
    /\ writer' = Nobody
    /\ init' = [init EXCEPT ![p].step = "rejected", ![p].done = 0]
    /\ UNCHANGED <<registered, tables>>

\* _check_health: the version once more, besides WAL, foreign keys and a query.
CheckHealth(p) ==
    /\ init[p].step = "check"
    /\ \E healthy \in BOOLEAN : init' = [init EXCEPT ![p].step =
            IF healthy /\ SchemaVersion = init[p].release THEN "ready" ELSE "rejected"]
    /\ UNCHANGED <<registered, tables, writer>>

\* The process dies: SQLite rolls its transaction back.
Die(p) ==
    /\ init[p].step \notin Initialized \cup {"none"}
    /\ init' = [init EXCEPT ![p] = NotStarted]
    /\ writer' = IF writer = p THEN Nobody ELSE writer
    /\ UNCHANGED <<registered, tables>>

MigrationStep(p) ==
    \/ ReadVersion(p) \/ Begin(p) \/ Execute(p) \/ InsertVersion(p) \/ Commit(p) \/ Rollback(p)
    \/ CheckHealth(p)

---------------------------------------------------------------------------
MigrationsTypeOK ==
    /\ registered \subseteq Nat /\ tables \subseteq Nat \X Nat
    /\ writer \in Processes \cup {Nobody}
    /\ \A p \in Processes : init[p].step \in
            Initialized \cup {"none", "read", "migrate", "write", "commit", "check"}
    /\ \A p \in Processes : writer = p <=> init[p].step \in {"write", "commit"}

\* Whoever raced, failed or died between two statements, what is committed is a whole
\* schema: the registered versions are consecutive, each has all that its migration
\* creates, and nothing of another is there.
SchemaIsWhole ==
    registered = 1..SchemaVersion /\ tables = registered \X (1..Statements)

\* A process works on a schema that has everything of its release, and when it was told
\* so nobody had gone further.
ReadyIsCurrent ==
    [][\A p \in Processes : init'[p].step = "ready" /\ init[p].step # "ready" =>
        registered' = 1..init[p].release]_migrationVars
=============================================================================
