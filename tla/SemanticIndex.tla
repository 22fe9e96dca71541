---------------------------- MODULE SemanticIndex ----------------------------
(***************************************************************************)
(* `barbarion index` and `barbarion reindex`: IndexService.run              *)
(* (application/rag.py) over the embedding tables (SQLiteRagRepository,     *)
(* infrastructure/sqlite.py), the vector table (SQLiteVecStore,             *)
(* infrastructure/sqlite_vec.py) and the embedding provider.                *)
(*                                                                          *)
(* Every action is one SQLite transaction, one snapshot read or one call of *)
(* the provider.  Between any two of them an `ingest` in another process    *)
(* may commit, the user may press Ctrl+C and the process may be killed.     *)
(* One indexer and one domain are modelled.  A chunk id is a digest of the  *)
(* path, the source and the text of the chunk (chunk_id_for), so equal ids  *)
(* have equal content and content_sha256 never differs.                     *)
(***************************************************************************)
EXTENDS Naturals, Sequences, FiniteSets

CONSTANTS
    Files,          \* files of the catalogue
    Chunks,         \* chunk ids: numbers, in (relative_path, ordinal) order
    Owner,          \* [Chunks -> Files]
    Documents,      \* the chunk sets a document may be split into
    Models,         \* embedding configurations (provider, model, distance, normalize)
    Dims,           \* dimensions a model may answer with
    Scopes,         \* chunk sets that --path, --document or --chunk-id select
    NoChunk,        \* no chunk is being handled
    NoModel,        \* no run is active
    MaxRuns,        \* bound: rows of embedding_runs
    MaxEdits,       \* bound: changes made by ingestion or to a model
    ProviderFaults, \* BOOLEAN: a call of the embedding provider may fail
    DbFaults,       \* BOOLEAN: a SQLite operation may fail
    Crashes         \* BOOLEAN: the process may be killed

NoDim == 0

ASSUME ChunksAssumption ==
    /\ Chunks \subseteq Nat /\ NoChunk \notin Chunks /\ NoModel \notin Models
    /\ Owner \in [Chunks -> Files]
    /\ Documents \subseteq SUBSET Chunks /\ Scopes \subseteq SUBSET Chunks
ASSUME DimsAssumption == Dims \subseteq Nat \ {NoDim}
ASSUME IndexBounds ==
    /\ MaxRuns \in Nat /\ MaxEdits \in Nat
    /\ ProviderFaults \in BOOLEAN /\ DbFaults \in BOOLEAN /\ Crashes \in BOOLEAN

\* Primary key of chunk_embeddings and of the vector table.
Entry == Models \X Chunks

Status == {"none", "indexed", "error", "deleted"}
RunStatus == {"running", "completed", "completed_with_errors", "interrupted"}
Decisions == {"none", "new", "update", "unchanged", "delete"}

\* A row of chunk_embeddings; status "none" stands for "no row".
State == [status : Status, run : Nat]
NoState == [status |-> "none", run |-> 0]

Counters == [new : Nat, updated : Nat, unchanged : Nat, deleted : Nat, failed : Nat]
NoCounters == [new |-> 0, updated |-> 0, unchanged |-> 0, deleted |-> 0, failed |-> 0]

\* What the command line can ask for: `index`, `reindex --full` with or without
\* --delete-obsolete, and a scoped `reindex`, which never deletes.
Request ==
    [mode : {"incremental", "full"}, within : {Chunks}, obsolete : {"delete"},
     effect : {"write", "dry_run"}]
    \cup [mode : {"full"}, within : {Chunks}, obsolete : {"keep"},
          effect : {"write", "dry_run"}]
    \cup [mode : {"partial"}, within : Scopes, obsolete : {"keep"},
          effect : {"write", "dry_run"}]

VARIABLES
    (* ingestion *)
    stored,     \* ids in the table `chunks`
    current,    \* files processed whose document has their hash
    (* embedding provider *)
    dim,        \* [Models -> Dims] the dimension the model answers with now
    edits,      \* changes made so far (bound)
    (* embedding tables *)
    manifests,  \* [Models -> dimension of its active manifest, or NoDim]
    states,     \* [Entry -> State]
    vectors,    \* [Entry -> dimension of the vector, or NoDim]
    runs,       \* Seq of embedding_runs rows
    (* the running process *)
    phase,      \* where IndexService.run is
    cancelled,  \* the cancellation token
    job,        \* request, model, manifest, run id, chunks found, status
    plan,       \* [Chunks -> Decisions] what is left of the plan
    item,       \* chunk being handled, and the dimension of its embedding
    m,          \* counters
    (* auxiliary, read by no action *)
    dirty       \* ingestion committed since the chunks were read

corpus == <<stored, current, dirty>>
outside == <<stored, current, dim, edits, dirty>>
tables == <<manifests, states, vectors, runs>>
process == <<phase, cancelled, job, plan, item, m>>
vars == <<stored, current, dim, edits, manifests, states, vectors, runs,
          phase, cancelled, job, plan, item, m, dirty>>

Phase == {"idle", "discovered", "planned", "pruned", "manifest", "begin", "loop",
          "mark", "upsert", "record", "fail", "done", "aborted"}

NoItem == [chunk |-> NoChunk, dim |-> NoDim]
NoJob == [id |-> 0, model |-> NoModel, mode |-> "full", obsolete |-> "keep",
          effect |-> "write", dim |-> NoDim, chunks |-> {}, status |-> "running"]
NoPlan == [c \in Chunks |-> "none"]

Of(f) == {c \in Chunks : Owner[c] = f}

\* The rule every reader of the catalogue applies (indexable_chunks).
Vigente == {c \in stored : Owner[c] \in current}

Init ==
    /\ \E document \in [Files -> Documents] :
          /\ \A f \in Files : document[f] \subseteq Of(f)
          /\ stored = UNION {document[f] : f \in Files}
    /\ current = Files
    /\ dim \in [Models -> Dims]
    /\ edits = 0
    /\ manifests = [x \in Models |-> NoDim]
    /\ states = [e \in Entry |-> NoState]
    /\ vectors = [e \in Entry |-> NoDim]
    /\ runs = <<>>
    /\ phase = "idle" /\ cancelled = FALSE /\ job = NoJob /\ plan = NoPlan
    /\ item = NoItem /\ m = NoCounters
    /\ dirty = FALSE

------------------------------------------------------------------------------
(* Ingestion, in its own process, and the model behind the provider. *)

Edit == edits < MaxEdits /\ edits' = edits + 1

\* Mutant: PRAGMA foreign_keys is off.
CascadeForgotten(f) == states

\* Deleting a document deletes its chunks and, by ON DELETE CASCADE, their rows
\* in chunk_embeddings; the vector table has no foreign key.
Cascade(f) == [e \in Entry |-> IF Owner[e[2]] = f THEN NoState ELSE states[e]]

\* replace_document: the same bytes give the same ids again.
IngestDocument(f, d) ==
    /\ Edit
    /\ d \subseteq Of(f)
    /\ stored' = (stored \ Of(f)) \cup d
    /\ current' = current \cup {f}
    /\ states' = Cascade(f)
    /\ dirty' = TRUE
    /\ UNCHANGED <<dim, manifests, vectors, runs, process>>

\* record_error: the row is no longer processed, its document stays for diagnosis.
IngestFailure(f) ==
    /\ Edit
    /\ f \in current
    /\ current' = current \ {f}
    /\ dirty' = TRUE
    /\ UNCHANGED <<stored, dim, tables, process>>

\* record_skipped, reconcile_deleted: row kept as skipped or deleted, document gone.
IngestRemoval(f) ==
    /\ Edit
    /\ stored' = stored \ Of(f)
    /\ current' = current \ {f}
    /\ states' = Cascade(f)
    /\ dirty' = TRUE
    /\ UNCHANGED <<dim, manifests, vectors, runs, process>>

\* Another version of the model is installed under the same name.
ChangeModel(x, d) ==
    /\ Edit
    /\ dim[x] # d
    /\ dim' = [dim EXCEPT ![x] = d]
    /\ UNCHANGED <<corpus, tables, process>>

------------------------------------------------------------------------------
(* Discovery and plan. *)

\* The process ends: everything it held in memory is gone.
Exit ==
    /\ phase' = "idle" /\ cancelled' = FALSE /\ job' = NoJob /\ plan' = NoPlan
    /\ item' = NoItem /\ m' = NoCounters

\* service.run returns a summary without touching embedding_runs.
ReturnSummary(status) ==
    /\ phase' = "done" /\ job' = [job EXCEPT !.status = status]
    /\ UNCHANGED <<outside, tables, cancelled, plan, item, m>>

\* The chunks are read in a snapshot of their own.
DiscoverChunks(request, x) ==
    /\ phase = "idle" /\ Len(runs) < MaxRuns
    /\ job' = [id |-> 0, model |-> x, mode |-> request.mode,
               obsolete |-> request.obsolete, effect |-> request.effect, dim |-> NoDim,
               chunks |-> Vigente \cap request.within, status |-> "running"]
    /\ phase' = "discovered" /\ dirty' = FALSE
    /\ UNCHANGED <<stored, current, dim, edits, tables, cancelled, plan, item, m>>

\* Mutants: an error is taken for done, or every known chunk is embedded again.
DecisionTrustsErrors(c) ==
    LET status == states[<<job.model, c>>].status
    IN IF c \in job.chunks
       THEN IF job.mode = "full" \/ status = "none" THEN "new" ELSE "unchanged"
       ELSE IF job.obsolete = "delete" /\ status # "none" THEN "delete" ELSE "none"
DecisionRepeats(c) ==
    LET status == states[<<job.model, c>>].status
    IN IF c \in job.chunks
       THEN IF job.mode = "full" \/ status = "none" THEN "new" ELSE "update"
       ELSE IF job.obsolete = "delete" /\ status # "none" THEN "delete" ELSE "none"
\* Mutant: the known chunks of any run are compared with the ones found.
DecisionForgetsScope(c) ==
    LET status == states[<<job.model, c>>].status
    IN IF c \in job.chunks
       THEN IF job.mode = "full" \/ status = "none" THEN "new"
            ELSE IF status = "indexed" THEN "unchanged" ELSE "update"
       ELSE IF status # "none" THEN "delete" ELSE "none"

\* decide_index_plan; a chunk with no decision is "none".
Decision(c) ==
    LET status == states[<<job.model, c>>].status
    IN IF c \in job.chunks
       THEN IF job.mode = "full" \/ status = "none" THEN "new"
            ELSE IF status = "indexed" THEN "unchanged" ELSE "update"
       ELSE IF job.obsolete = "delete" /\ status # "none" THEN "delete" ELSE "none"

CancelDiscovery ==
    /\ phase = "discovered" /\ cancelled
    /\ ReturnSummary("interrupted")

\* find_active_manifest, which knows nothing of dimensions, and the states of it.
MakePlan ==
    /\ phase = "discovered" /\ ~cancelled
    /\ job' = [job EXCEPT !.dim = manifests[job.model]]
    /\ plan' = [c \in Chunks |-> Decision(c)]
    /\ phase' = "planned"
    /\ UNCHANGED <<outside, tables, cancelled, item, m>>

CancelPlan ==
    /\ phase = "planned" /\ cancelled
    /\ ReturnSummary("interrupted")

DryRun ==
    /\ phase = "planned" /\ ~cancelled /\ job.effect = "dry_run"
    /\ ReturnSummary("completed")

\* Vectors of any manifest whose chunk is not in `chunks`.
Pruned == [e \in Entry |-> IF e[2] \in stored THEN vectors[e] ELSE NoDim]

PruneOrphans ==
    /\ phase = "planned" /\ ~cancelled /\ job.effect = "write"
    /\ vectors' = IF job.obsolete = "delete" THEN Pruned ELSE vectors
    /\ phase' = "pruned"
    /\ UNCHANGED <<outside, manifests, states, runs, cancelled, job, plan, item, m>>

ToIndex == {c \in Chunks : plan[c] \in {"new", "update", "unchanged"}}
ToDelete == {c \in Chunks : plan[c] = "delete"}

NothingToDo ==
    /\ phase = "pruned" /\ job.chunks = {} /\ ToDelete = {}
    /\ ReturnSummary("completed")

HasWork == job.chunks # {} \/ ToDelete # {}

------------------------------------------------------------------------------
(* The manifest and the run. *)

CancelProbe ==
    /\ phase = "pruned" /\ HasWork /\ job.dim = NoDim /\ cancelled
    /\ ReturnSummary("interrupted")

\* _create_manifest_from_first_chunk: the dimension is the one of the answer.
ProbeDimension ==
    /\ phase = "pruned" /\ HasWork /\ job.dim = NoDim /\ ~cancelled
    /\ job' = [job EXCEPT !.dim = dim[job.model]]
    /\ phase' = "manifest"
    /\ UNCHANGED <<outside, tables, cancelled, plan, item, m>>

\* The exception leaves service.run; nothing has been written.
ProbeFails ==
    /\ ProviderFaults
    /\ phase = "pruned" /\ HasWork /\ job.dim = NoDim /\ ~cancelled
    /\ phase' = "aborted"
    /\ UNCHANGED <<outside, tables, cancelled, job, plan, item, m>>

\* get_or_create_manifest, then the plan once more: a new manifest has no states.
CreateManifest ==
    /\ phase = "manifest"
    /\ manifests' = [manifests EXCEPT ![job.model] = job.dim]
    /\ plan' = [c \in Chunks |-> Decision(c)]
    /\ phase' = "begin"
    /\ UNCHANGED <<outside, states, vectors, runs, cancelled, job, item, m>>

ReadyToBegin == phase = "begin" \/ (phase = "pruned" /\ HasWork /\ job.dim # NoDim)

BeginRun ==
    /\ ReadyToBegin
    /\ runs' = Append(runs, [status |-> "running", counters |-> NoCounters])
    /\ job' = [job EXCEPT !.id = Len(runs) + 1]
    /\ phase' = "loop"
    /\ UNCHANGED <<outside, manifests, states, vectors, cancelled, plan, item, m>>

------------------------------------------------------------------------------
(* One decision after the other: the chunks found in their order, then the  *)
(* obsolete ones, in the order of ids that say nothing of their files.      *)

IsNext(c) ==
    /\ phase = "loop" /\ ~cancelled
    /\ \/ c \in ToIndex /\ \A d \in ToIndex : c <= d
       \/ c \in ToDelete /\ ToIndex = {}

Done(c) == plan' = [plan EXCEPT ![c] = "none"]
Count(field) == m' = [m EXCEPT ![field] = @ + 1]
Key == <<job.model, item.chunk>>

KeepChunk(c) ==
    /\ IsNext(c) /\ plan[c] = "unchanged"
    /\ Count("unchanged") /\ Done(c)
    /\ UNCHANGED <<outside, tables, phase, cancelled, job, item>>

DeleteVector(c) ==
    /\ IsNext(c) /\ plan[c] = "delete"
    /\ vectors' = [vectors EXCEPT ![<<job.model, c>>] = NoDim]
    /\ item' = [chunk |-> c, dim |-> NoDim] /\ phase' = "mark"
    /\ UNCHANGED <<outside, manifests, states, runs, cancelled, job, plan, m>>

\* Mutant: the row keeps the run that indexed the chunk.
MarkedRowKeepsRun == [status |-> "deleted", run |-> states[Key].run]

MarkedRow == [status |-> "deleted", run |-> job.id]

\* mark_chunk_deleted is an UPDATE: without a row it does nothing.
MarkDeleted ==
    /\ phase = "mark"
    /\ states' = IF states[Key].status = "none" THEN states
                 ELSE [states EXCEPT ![Key] = MarkedRow]
    /\ Count("deleted") /\ Done(item.chunk)
    /\ phase' = "loop" /\ item' = NoItem
    /\ UNCHANGED <<outside, manifests, vectors, runs, cancelled, job>>

\* Mutant: whatever the model answers is stored.
FitsAlways == TRUE

\* The check of _embed_chunk, made again by the vector store.
FitsManifest == dim[job.model] = job.dim

ToEmbed(c) == IsNext(c) /\ plan[c] \in {"new", "update"}

Embed(c) ==
    /\ ToEmbed(c) /\ FitsManifest
    /\ item' = [chunk |-> c, dim |-> dim[job.model]] /\ phase' = "upsert"
    /\ UNCHANGED <<outside, tables, cancelled, job, plan, m>>

EmbedFails(c) ==
    /\ ToEmbed(c) /\ (ProviderFaults \/ ~FitsManifest)
    /\ item' = [chunk |-> c, dim |-> NoDim] /\ phase' = "fail"
    /\ UNCHANGED <<outside, tables, cancelled, job, plan, m>>

\* Mutant: the vector is written under the key of its chunk, whatever the manifest.
UpsertEverywhere ==
    /\ phase = "upsert"
    /\ vectors' = [e \in Entry |-> IF e[2] = item.chunk THEN item.dim ELSE vectors[e]]
    /\ phase' = "record"
    /\ UNCHANGED <<outside, manifests, states, runs, cancelled, job, plan, item, m>>

UpsertVector ==
    /\ phase = "upsert"
    /\ vectors' = [vectors EXCEPT ![Key] = item.dim]
    /\ phase' = "record"
    /\ UNCHANGED <<outside, manifests, states, runs, cancelled, job, plan, item, m>>

\* record_chunk_indexed; its foreign key needs the row in `chunks`.
RecordIndexed ==
    /\ phase = "record" /\ item.chunk \in stored
    /\ states' = [states EXCEPT ![Key] = [status |-> "indexed", run |-> job.id]]
    /\ Count(IF plan[item.chunk] = "new" THEN "new" ELSE "updated") /\ Done(item.chunk)
    /\ phase' = "loop" /\ item' = NoItem
    /\ UNCHANGED <<outside, manifests, vectors, runs, cancelled, job>>

\* Mutant: a chunk that could not be recorded is tried again.
RecordRejectedRetries ==
    /\ phase = "record" /\ item.chunk \notin stored
    /\ phase' = "loop" /\ item' = NoItem
    /\ UNCHANGED <<outside, tables, cancelled, job, plan, m>>

RecordRejected ==
    /\ phase = "record" /\ item.chunk \notin stored
    /\ phase' = "fail"
    /\ UNCHANGED <<outside, tables, cancelled, job, plan, item, m>>

\* The exception handler: the failure is counted, then recorded.
RecordError ==
    /\ phase = "fail" /\ item.chunk \in stored
    /\ states' = [states EXCEPT ![Key] = [status |-> "error", run |-> job.id]]
    /\ Count("failed") /\ Done(item.chunk)
    /\ phase' = "loop" /\ item' = NoItem
    /\ UNCHANGED <<outside, manifests, vectors, runs, cancelled, job>>

\* The same foreign key fails in record_chunk_error: the exception leaves service.run.
RecordErrorRejected ==
    /\ phase = "fail" /\ item.chunk \notin stored
    /\ phase' = "aborted"
    /\ UNCHANGED <<outside, tables, cancelled, job, plan, item, m>>

FinalStatus ==
    IF cancelled THEN "interrupted"
    ELSE IF m.failed > 0 THEN "completed_with_errors" ELSE "completed"

FinishRun ==
    /\ phase = "loop" /\ (cancelled \/ ToIndex \cup ToDelete = {})
    /\ runs' = [runs EXCEPT ![job.id] = [status |-> FinalStatus, counters |-> m]]
    /\ job' = [job EXCEPT !.status = FinalStatus]
    /\ phase' = "done"
    /\ UNCHANGED <<outside, manifests, states, vectors, cancelled, plan, item, m>>

Return ==
    /\ phase \in {"done", "aborted"}
    /\ Exit
    /\ UNCHANGED <<outside, tables>>

------------------------------------------------------------------------------
(* Ctrl+C, failures of SQLite, and death. *)

\* The SIGINT handler of the command line only raises the flag.
Cancel ==
    /\ phase \notin {"idle", "done", "aborted"} /\ ~cancelled
    /\ cancelled' = TRUE
    /\ UNCHANGED <<outside, tables, phase, job, plan, item, m>>

\* Inside the loop a failed write is a failed chunk.
WriteFails ==
    /\ DbFaults
    /\ phase \in {"upsert", "record"}
    /\ phase' = "fail"
    /\ UNCHANGED <<outside, tables, cancelled, job, plan, item, m>>

\* A DELETE decision carries no chunk, so its failure is counted and not recorded.
DeleteFails(c) ==
    /\ DbFaults
    /\ \/ IsNext(c) /\ plan[c] = "delete"
       \/ phase = "mark" /\ c = item.chunk
    /\ Count("failed") /\ Done(c)
    /\ phase' = "loop" /\ item' = NoItem
    /\ UNCHANGED <<outside, tables, cancelled, job>>

\* Anywhere else it leaves service.run.
DatabaseFault ==
    /\ DbFaults
    /\ \/ phase = "discovered" /\ ~cancelled
       \/ phase = "planned" /\ ~cancelled /\ job.effect = "write" /\ job.obsolete = "delete"
       \/ ReadyToBegin
       \/ phase \in {"manifest", "fail"}
       \/ phase = "loop" /\ (cancelled \/ ToIndex \cup ToDelete = {})
    /\ phase' = "aborted"
    /\ UNCHANGED <<outside, tables, cancelled, job, plan, item, m>>

Crash ==
    /\ Crashes /\ phase # "idle"
    /\ Exit
    /\ UNCHANGED <<outside, tables>>

------------------------------------------------------------------------------
Environment ==
    \/ \E f \in Files : IngestFailure(f) \/ IngestRemoval(f)
                           \/ \E d \in Documents : IngestDocument(f, d)
    \/ \E x \in Models, d \in Dims : ChangeModel(x, d)

Start == \E request \in Request, x \in Models : DiscoverChunks(request, x)

Decide(c) == KeepChunk(c) \/ DeleteVector(c) \/ Embed(c) \/ EmbedFails(c)

Program ==
    \/ CancelDiscovery \/ MakePlan \/ CancelPlan \/ DryRun \/ PruneOrphans
    \/ NothingToDo \/ CancelProbe \/ ProbeDimension \/ ProbeFails \/ CreateManifest
    \/ BeginRun
    \/ \E c \in Chunks : Decide(c)
    \/ MarkDeleted \/ UpsertVector \/ RecordIndexed \/ RecordRejected
    \/ RecordError \/ RecordErrorRejected
    \/ FinishRun \/ Return

Fault == WriteFails \/ (\E c \in Chunks : DeleteFails(c)) \/ DatabaseFault \/ Crash

Next == Environment \/ Start \/ Program \/ Cancel \/ Fault

Spec == Init /\ [][Next]_vars

\* The process executes sequentially and every provider call has a timeout.
FairSpec == Spec /\ WF_vars(Program)

------------------------------------------------------------------------------
(* Properties *)

RunRow == [status : RunStatus, counters : Counters]

CorpusType ==
    /\ stored \in SUBSET Chunks /\ current \in SUBSET Files
    /\ dim \in [Models -> Dims]
    /\ edits \in 0..MaxEdits
    /\ dirty \in BOOLEAN

TablesType ==
    /\ manifests \in [Models -> Dims \cup {NoDim}]
    /\ states \in [Entry -> State]
    /\ vectors \in [Entry -> Dims \cup {NoDim}]
    /\ runs \in Seq(RunRow)

IndexerType ==
    /\ phase \in Phase /\ cancelled \in BOOLEAN
    /\ job \in [id : 0..Len(runs), model : Models \cup {NoModel},
               mode : {"incremental", "full", "partial"}, obsolete : {"delete", "keep"},
               effect : {"write", "dry_run"}, dim : Dims \cup {NoDim},
               chunks : SUBSET Chunks, status : RunStatus]
    /\ plan \in [Chunks -> Decisions]
    /\ item \in [chunk : Chunks \cup {NoChunk}, dim : Dims \cup {NoDim}]
    /\ m \in Counters

TypeOK == CorpusType /\ TablesType /\ IndexerType

\* The index never claims a vector it does not hold: a current chunk recorded as
\* indexed has its vector, whatever ingestion committed, was cancelled or was killed
\* between the vector's commit and the row's.  Otherwise every incremental run would
\* count the chunk as unchanged and semantic search would never find it.
IndexedHasVector ==
    \A e \in Entry :
        (e[2] \in Vigente /\ states[e].status = "indexed") => vectors[e] # NoDim

\* A collection never mixes dimensions (H3-REQ-004): search compares vectors
\* component by component.
NoMixedDimensions == \A e \in Entry : vectors[e] \in {NoDim, manifests[e[1]]}

Completed == phase = "done" /\ job.status = "completed" /\ job.effect = "write" /\ ~dirty

\* A completed unscoped run that deletes leaves the tables a mirror of the current
\* chunks, whatever earlier runs, crashes and failures left: each is indexed, nothing
\* else is, and no vector of any manifest outlives its chunk.
CompletedRunMirrorsCorpus ==
    (Completed /\ job.obsolete = "delete") =>
        /\ \A c \in Chunks :
              LET status == states[<<job.model, c>>].status
              IN IF c \in Vigente THEN status = "indexed" /\ vectors[<<job.model, c>>] # NoDim
                 ELSE status \in {"none", "deleted"}
                        /\ (status = "deleted" => vectors[<<job.model, c>>] = NoDim)
        /\ \A e \in Entry : vectors[e] # NoDim => e[2] \in stored

Touched(status) ==
    Cardinality({c \in Chunks : states[<<job.model, c>>] = [status |-> status, run |-> job.id]})

\* However a run ends, its counters agree with the rows it left in chunk_embeddings,
\* which it wrote one commit at a time (H3-REQ-008).
CountersMatchIndex ==
    (phase = "done" /\ job.id # 0 /\ ~dirty) =>
        /\ Touched("indexed") = m.new + m.updated
        /\ Touched("deleted") = m.deleted
        /\ Touched("error") <= m.failed

\* Only a full reindex computes again the embedding of a chunk already indexed
\* (H3-REQ-008), even when an interrupted run is resumed.
NoRedundantEmbedding ==
    [][(phase = "loop" /\ phase' = "upsert" /\ job.mode # "full")
          => states[<<job.model, item'.chunk>>].status # "indexed"]_vars

\* A run that may not delete writes the vectors of the chunks in its scope, in the
\* collection of its own model, and nothing else (H3-REQ-009).
OnlyScopeIsWritten ==
    [][\A e \in Entry :
          (vectors'[e] # vectors[e] /\ job.obsolete = "keep")
            => e[1] = job.model /\ e[2] \in job.chunks /\ vectors'[e] # NoDim]_vars

\* Every run that starts comes to an end, whatever fails in it.  Its row may stay
\* "running": of that nothing is said.
RunEnds == phase # "idle" ~> phase = "idle"
==============================================================================
