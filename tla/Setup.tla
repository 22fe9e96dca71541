-------------------------------- MODULE Setup --------------------------------
(***************************************************************************)
(* What prepares a machine: `barbarion doctor` makes the directories,        *)
(* migrates the database and looks for the active model (bootstrap.py,      *)
(* doctor.py), next to other doctors, perhaps of another release, and to     *)
(* the `models` commands.                                                    *)
(***************************************************************************)
EXTENDS LocalModels, Migrations

CONSTANTS
    Directories,    \* roles of bootstrap.py
    Checked,        \* the roles that doctor looks up: one result for each
    MaxCommands     \* bound: commands

ASSUME SetupAssumption == MaxCommands \in Nat /\ Checked \subseteq Directories /\ "database" \in Checked

VARIABLES
    created,
    doctor,         \* [Processes -> what the command has found]
    commands

setupVars == <<modelVars, migrationVars, created, doctor, commands>>

SetupInit ==
    /\ ModelsInit /\ MigrationsInit
    /\ created = {}
    /\ doctor = [d \in Processes |-> [step |-> "waiting"]]
    /\ commands = 0

Starts == commands < MaxCommands /\ commands' = commands + 1

\* _run_doctor: every directory is tried, and one may be blocked; without the
\* database's, no database.
StartDoctor(d) ==
    /\ Starts
    /\ doctor[d].step = "waiting"
    /\ \E blocked \in {{}} \cup {{x} : x \in Directories} :
        /\ created' = created \cup (Directories \ blocked)
        /\ doctor' = [doctor EXCEPT ![d] =
                [step |-> IF "database" \in blocked THEN "probe" ELSE "database",
                 failures |-> blocked \cap Checked, warned |-> FALSE, model |-> file.model]]
        /\ IF "database" \in blocked THEN UNCHANGED migrationVars
           ELSE \E release \in Releases : Open(d, release)
    /\ UNCHANGED modelVars

\* (mutant: a database that could not be prepared is a warning)
CheckDatabaseLightly(d) ==
    /\ doctor[d].step = "database" /\ init[d].step \in Initialized
    /\ doctor' = [doctor EXCEPT ![d].step = "probe"]
    /\ UNCHANGED <<modelVars, migrationVars, created, commands>>

\* _check_database
CheckDatabase(d) ==
    /\ doctor[d].step = "database" /\ init[d].step \in Initialized
    /\ doctor' = [doctor EXCEPT ![d].step = "probe",
            ![d].failures = @ \cup {x \in {"database"} : init[d].step = "rejected"}]
    /\ UNCHANGED <<modelVars, migrationVars, created, commands>>

\* _check_ollama, about the model of the settings that the command loaded: it never
\* fails, it warns.
ProbeOllama(d) ==
    /\ doctor[d].step = "probe"
    /\ \E answers \in {server.up, FALSE} :
        doctor' = [doctor EXCEPT ![d].step = "reported",
            ![d].warned = ~answers \/ doctor[d].model \notin server.installed]
    /\ UNCHANGED <<modelVars, migrationVars, created, commands>>

KillDoctor(d) ==
    /\ doctor[d].step \in {"database", "probe"}
    /\ doctor' = [doctor EXCEPT ![d].step = "killed"]
    /\ IF init[d].step \in Initialized \cup {"none"} THEN UNCHANGED migrationVars ELSE Die(d)
    /\ UNCHANGED <<modelVars, created, commands>>

Elsewhere == <<migrationVars, created, doctor>>
Doctors == \E d \in Processes :
    \/ StartDoctor(d) \/ CheckDatabase(d) \/ ProbeOllama(d) \/ KillDoctor(d)
    \/ MigrationStep(d) /\ UNCHANGED <<modelVars, created, doctor, commands>>
ModelCommands == \E c \in Clients :
    \/ StartModels(c) /\ Starts /\ UNCHANGED Elsewhere
    \/ (ModelsStep(c) \/ Kill(c)) /\ UNCHANGED <<Elsewhere, commands>>

SetupNext == Doctors \/ ModelCommands \/ (OthersMove /\ UNCHANGED <<Elsewhere, commands>>)
SetupSpec == SetupInit /\ [][SetupNext]_setupVars

---------------------------------------------------------------------------
SetupTypeOK ==
    /\ LocalModelsTypeOK /\ MigrationsTypeOK
    /\ commands \in 0..MaxCommands
    /\ created \subseteq Directories
    /\ \A d \in Processes : doctor[d].step \in {"waiting", "database", "probe", "reported", "killed"}

\* A doctor that reports no failure leaves what a first run needs, even if another doctor,
\* of another release, was at work: the directories that it looks up and a schema with
\* everything of its release.
HealthyIsReady ==
    \A d \in Processes :
        doctor[d].step = "reported" /\ doctor[d].failures = {} =>
            Checked \subseteq created /\ (1..init[d].release) \X (1..Statements) \subseteq tables

\* However commands race, fail and die: no half schema, and no orphan of an edit that
\* reached the file.
SetupInvariant == SetupTypeOK /\ SchemaIsWhole /\ TemporariesAreOwned

\* What a command reports as success happened: the schema is that of its release, the
\* model that it validated or selected answered, the model that it installed is listed.
SuccessIsEarned == ReadyIsCurrent /\ SelectedHasAnswered /\ ReportedIsSo /\ InstalledIsListed
=============================================================================
