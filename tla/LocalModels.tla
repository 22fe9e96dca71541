----------------------------- MODULE LocalModels -----------------------------
(***************************************************************************)
(* `barbarion models install`, `validate` and `select`: the models of an    *)
(* Ollama server that others use, and the edit of [llm].model in a TOML     *)
(* file that others edit (application/local_models.py,                      *)
(* infrastructure/model_config.py, infrastructure/ollama_models.py).        *)
(***************************************************************************)
EXTENDS Naturals, FiniteSets

CONSTANTS
    Clients,        \* commands, each runs once
    Models,         \* names that a user writes
    ReportedAs,     \* [Models -> the name Ollama gives to what was pulled]
    Configurations, \* [provider, model, editable]: contents of the file
    NoModel,
    MaxEdits,       \* bound: times that the user edits the file
    MaxEvents       \* bound: changes of the server that are not Barbarion's

Configuration == [provider : {"ollama", "anthropic"}, model : Models \cup {NoModel}, editable : BOOLEAN]

ASSUME LocalModelsAssumption ==
    {MaxEdits, MaxEvents} \subseteq Nat /\ NoModel \notin Models /\ Configurations \subseteq Configuration

VARIABLES
    file,           \* the content of the TOML file
    temporaries,    \* clients whose temporary file is on disk
    server,         \* [up, installed, pulling]
    client,         \* [Clients -> the command's own variables]
    edits, events

modelVars == <<file, temporaries, server, client, edits, events>>
configuration == <<file, temporaries, edits>>
ollama == <<server, events>>

Waiting == [step |-> "waiting"]
Over == {"waiting", "done", "refused", "failed", "killed"}

ModelsInit ==
    /\ file \in Configurations
    /\ temporaries = {}
    /\ server \in [up : {TRUE}, installed : {{}, {ReportedAs[m] : m \in Models}}, pulling : {{}}]
    /\ client = [c \in Clients |-> Waiting]
    /\ edits = 0 /\ events = 0

Goes(c, step) == client' = [client EXCEPT ![c].step = step]

\* _run_models_select, _run_models_validate, _run_models_install: settings are loaded
\* once. Without a name, the active model is validated, if it is Ollama's.
StartModels(c) ==
    /\ client[c].step = "waiting"
    /\ \E kind \in {"select", "validate", "install"}, m \in Models \cup {NoModel}, dry \in BOOLEAN :
        /\ m = NoModel => kind = "validate"
        /\ dry => kind # "validate"
        /\ LET allowed ==
                CASE kind = "select" -> file.provider = "ollama"
                  [] kind = "validate" -> m # NoModel \/ file.provider = "ollama"
                  [] OTHER -> TRUE
           IN client' = [client EXCEPT ![c] =
                [step |-> IF ~allowed THEN "refused" ELSE IF kind = "select" THEN "preview" ELSE "list",
                 kind |-> kind, model |-> IF m = NoModel THEN file.model ELSE m, dry |-> dry,
                 expected |-> file.model, attempt |-> 1, ready |-> FALSE]]
    /\ UNCHANGED <<configuration, ollama>>

---------------------------------------------------------------------------
(* The server.                                                              *)

\* list_models, and what each command makes of it.
ListModels(c) ==
    /\ client[c].step = "list"
    /\ \/ Goes(c, "refused")
       \/ /\ server.up
          /\ Goes(c, IF client[c].kind = "install"
                     THEN IF client[c].model \in server.installed \/ client[c].dry THEN "done" ELSE "pull"
                     ELSE IF client[c].model \in server.installed THEN "generate" ELSE "refused")
    /\ UNCHANGED <<configuration, ollama>>

\* (mutant: after two timeouts the loop is left as after an answer)
GenerateTimedOut(c) ==
    /\ client[c].step = "generate"
    /\ LET next == IF client[c].kind = "select" THEN "read" ELSE "done" IN
       \/ /\ server.up /\ client[c].model \in server.installed
          /\ client' = [client EXCEPT ![c].ready = TRUE, ![c].step = next]
       \/ client[c].attempt = 1 /\ client' = [client EXCEPT ![c].attempt = 2]
       \/ client[c].attempt = 2 /\ Goes(c, next)
       \/ Goes(c, "refused")
    /\ UNCHANGED <<configuration, ollama>>

\* ValidateModelService.run: the exact marker, once; a first timeout is retried.
Generate(c) ==
    /\ client[c].step = "generate"
    /\ \/ /\ server.up /\ client[c].model \in server.installed
          /\ client' = [client EXCEPT ![c].ready = TRUE,
                  ![c].step = IF client[c].kind = "select" THEN "read" ELSE "done"]
       \/ client[c].attempt = 1 /\ client' = [client EXCEPT ![c].attempt = 2]
       \/ Goes(c, "refused")
    /\ UNCHANGED <<configuration, ollama>>

\* pull_model: Ollama goes on by itself from here.
Pull(c) ==
    /\ client[c].step = "pull"
    /\ \/ Goes(c, "refused") /\ UNCHANGED server
       \/ /\ server.up /\ server' = [server EXCEPT !.pulling = @ \cup {client[c].model}]
          /\ Goes(c, "progress")
    /\ UNCHANGED <<configuration, events>>

\* The stream of progress breaks, sends nothing for too long, or ends: its end does not
\* tell whether Ollama has.
PullEnds(c) ==
    /\ client[c].step = "progress"
    /\ Goes(c, "confirm") \/ Goes(c, "refused")
    /\ UNCHANGED <<configuration, ollama>>

\* InstallModelService.run: the same name must be listed.
ConfirmInstall(c) ==
    /\ client[c].step = "confirm"
    /\ \/ server.up /\ client[c].model \in server.installed /\ Goes(c, "done")
       \/ (server.up => client[c].model \notin server.installed) /\ Goes(c, "refused")
    /\ UNCHANGED <<configuration, ollama>>

---------------------------------------------------------------------------
(* The file.                                                                *)

\* _editable_source, _replace_model_assignment
Editable(c) == file.editable /\ file.model = client[c].expected

\* SelectModelService.run: the edit is tried before anything is asked of Ollama.
Preview(c) ==
    /\ client[c].step = "preview"
    /\ Goes(c, IF ~Editable(c) THEN "refused" ELSE IF client[c].dry THEN "done" ELSE "list")
    /\ UNCHANGED <<configuration, ollama>>

\* TomlLlmModelEditor.edit: the file is read again.
ReadFile(c) ==
    /\ client[c].step = "read"
    /\ client' = [client EXCEPT ![c] =
            [step |-> IF ~Editable(c) THEN "refused"
                      ELSE IF @.model = file.model THEN "reload" ELSE "temporary",
             kind |-> "select", model |-> @.model, ready |-> @.ready, original |-> file]]
    /\ UNCHANGED <<configuration, ollama>>

\* An edit that is given up removes its own temporary file; the removal may fail too, and
\* nobody is told.
GiveUp(c) ==
    /\ Goes(c, "refused")
    /\ temporaries' \in {temporaries, temporaries \ {c}}

\* _write_validated_temporary: it is created, written, and loaded as settings.
WriteTemporary(c) ==
    /\ client[c].step = "temporary"
    /\ \/ Goes(c, "compare") /\ temporaries' = temporaries \cup {c}
       \/ Goes(c, "refused") /\ temporaries' \in {temporaries, temporaries \cup {c}}
    /\ UNCHANGED <<file, edits, ollama>>

\* _same_content
Compare(c) ==
    /\ client[c].step = "compare"
    /\ \/ file = client[c].original /\ Goes(c, "replace") /\ UNCHANGED temporaries
       \/ GiveUp(c)
    /\ UNCHANGED <<file, edits, ollama>>

\* os.replace: the temporary becomes the file.
Replace(c) ==
    /\ client[c].step = "replace"
    /\ \/ /\ Goes(c, "reload") /\ temporaries' = temporaries \ {c}
          /\ file' = [client[c].original EXCEPT !.model = client[c].model]
       \/ GiveUp(c) /\ UNCHANGED file
    /\ UNCHANGED <<edits, ollama>>

\* The settings are loaded again: another writer is noticed, too late.
Reload(c) ==
    /\ client[c].step = "reload"
    /\ Goes(c, IF file.model = client[c].model THEN "done" ELSE "failed")
    /\ UNCHANGED <<configuration, ollama>>

\* Ctrl+C or a kill; of a kill the temporary remains, begun or written.
Kill(c) ==
    /\ client[c].step \notin Over
    /\ Goes(c, "killed")
    /\ \/ temporaries' \in {temporaries, temporaries \ {c}}
       \/ client[c].step = "temporary" /\ temporaries' = temporaries \cup {c}
    /\ UNCHANGED <<file, edits, ollama>>

ModelsStep(c) ==
    \/ ListModels(c) \/ Generate(c) \/ Pull(c) \/ PullEnds(c) \/ ConfirmInstall(c)
    \/ Preview(c) \/ ReadFile(c) \/ WriteTemporary(c) \/ Compare(c) \/ Replace(c) \/ Reload(c)

---------------------------------------------------------------------------
(* Others.                                                                  *)

EditConfiguration ==
    /\ edits < MaxEdits /\ edits' = edits + 1
    /\ file' \in Configurations \ {file}
    /\ UNCHANGED <<temporaries, client, ollama>>

\* A download ends by itself, whoever waits for it.
FinishPull ==
    /\ server.up
    /\ \E m \in server.pulling : server' = [server EXCEPT
            !.pulling = @ \ {m}, !.installed = @ \cup {ReportedAs[m]}]
    /\ UNCHANGED <<configuration, client, events>>

ServerChanges ==
    /\ events < MaxEvents /\ events' = events + 1
    /\ \/ server' = [server EXCEPT !.up = ~@, !.pulling = {}]
       \/ \E m \in server.installed : server' = [server EXCEPT !.installed = @ \ {m}]
    /\ UNCHANGED <<configuration, client>>

OthersMove == EditConfiguration \/ FinishPull \/ ServerChanges

---------------------------------------------------------------------------
LocalModelsTypeOK ==
    /\ file \in Configuration
    /\ temporaries \subseteq Clients
    /\ server.pulling \subseteq Models
    /\ server.up = FALSE => server.pulling = {}
    /\ \A c \in Clients : client[c].step \in Over \cup {"preview", "list", "generate", "pull",
            "progress", "confirm", "read", "temporary", "compare", "replace", "reload"}

\* A temporary file on disk is that of an edit in progress, or of one that gave up or was
\* killed: an edit that reached the file, whatever it reports afterwards, left nothing
\* beside it (specs/H1.1-LocalModelManagement/test-plan.md:140).
TemporariesAreOwned ==
    \A c \in temporaries : client[c].step \in {"compare", "replace", "refused", "killed"}

\* Barbarion writes a model into the configuration only after that model gave the exact
\* answer to this command.
SelectedHasAnswered ==
    [][file' # file /\ edits' = edits =>
        \E c \in Clients :
            client[c].step = "replace" /\ client[c].kind = "select" /\ client[c].ready /\ file'.model = client[c].model]_modelVars

Succeeds(c, kind) == client'[c].step = "done" /\ client[c].step # "done" /\ client[c].kind = kind

\* A validation that ends well, and a selection that was more than a preview, had the
\* exact answer, and the model that was selected is the one that the file now names;
\* neither a second timeout nor the edit of another is taken for it.
ReportedIsSo ==
    [][\A c \in Clients :
        /\ Succeeds(c, "validate") => client'[c].ready
        /\ Succeeds(c, "select") /\ client[c].step # "preview" =>
                client'[c].ready /\ file.model = client[c].model]_modelVars

\* An installation that ends well, and was more than a preview, was seen in Ollama's list
\* by its own name: nothing is taken for installed because its download was asked for or
\* because the stream of its progress ended.
InstalledIsListed ==
    [][\A c \in Clients : Succeeds(c, "install") /\ ~client[c].dry =>
        server.up /\ client[c].model \in server.installed]_modelVars
=============================================================================
