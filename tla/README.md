# Barbarion in TLA+

Barbarion is a local-first command line assistant for legacy code (PowerBuilder, Oracle
PL/SQL, Markdown and office documents). One process runs one command over one SQLite
database in WAL mode, with a vector table kept by sqlite-vec; nothing stops several
processes from running at once. The commands form a pipeline:

    doctor / models -> ingest -> index -> analyze -> search / ask / describe / impact / spec

This directory holds TLA+ models of its stateful parts, the TLC configurations that check
them and TLAPS proofs about them. Source paths below are relative to `src/barbarion/` of
the repository; documents are under `docs/` and `specs/`.

1. [The system](#1-the-system)
2. [The models](#2-the-models)
3. [What the runs show](#3-what-the-runs-show)
4. [What is proved](#4-what-is-proved)
5. [Where the documentation and the code disagree](#5-where-the-documentation-and-the-code-disagree)
6. [Not modelled, and what comes next](#6-not-modelled-and-what-comes-next)

## 1. The system

The components share state only through the database and the file system; there are no
messages, and the only callbacks are progress reporters and a cancellation token. Every
service is sequential: what is concurrent is the user editing the corpus, another process
that commits, Ctrl+C, a kill, and the model behind a provider.

| Component | State it keeps | Operations | What is hard |
|---|---|---|---|
| **Ingestion** (`application/ingest.py`, `infrastructure/filesystem.py`, `fingerprint.py`, `sqlite.py`) | `files`, `documents`, `chunks`, `ingestion_runs`, `errors` | discover, decide, fingerprint, extract, `replace_document`, `record_skipped`, `record_error`, `mark_seen_many`, `reconcile_deleted`, `finish_run` | one commit per file, files that change between stat, hash and read, roots that fail, kills between commits |
| **Semantic index** (`application/rag.py` `IndexService`, `sqlite.py`, `sqlite_vec.py`) | `embedding_manifests`, `chunk_embeddings`, `embedding_runs`, the vector table | plan, prune, probe, embed, upsert, mark deleted, close | vector and row are two commits; ingestion runs in between; models change; runs are interrupted and resumed |
| **Static analysis** (`application/reverse_engineering.py`) | `symbols`, `symbol_references`, `relations`, `analysis_runs` | extract per file, persist, reconcile scope, resolve | each row is its own commit, no handler closes a failed run, ingestion in between, scoped runs |
| **Graph** (`reverse_engineering.py`, `rag.py`) | none | resolve an object, walk dependencies, describe, impact; expand seeds, resolve symbols to chunks | cycles, limits, truncation, one snapshot per query |
| **Retrieval and answering** (`SearchService`, `ContextBuilder`, `AskService` in `rag.py`) | `rag_queries`, `rag_results` | search, merge, enrich, select, fill a budget, generate, validate citations, one repair | several snapshots; budgets that depend on themselves; the row and the answer are written by different steps |
| **Privacy** (`application/privacy.py`, `domain/privacy.py`, `infrastructure/privacy_*.py`) | a JSON snapshot of the public registry | refresh, read, build the evidence, decide, warn, authorise | evidence read once and judged later; clocks; two refreshers of one file |
| **Specification mode** (`application/spec_mode.py`, `infrastructure/markdown.py`) | four Markdown files | create, validate | four writes, no rollback, two creators of one folder |
| **Models** (`application/local_models.py`, `infrastructure/model_config.py`, `ollama_models.py`) | the TOML configuration; what Ollama has installed | install, validate, select | compare, then replace a shared file; timeouts with one retry; a server that goes on alone |
| **Migrations, doctor** (`database.py`, `bootstrap.py`, `doctor.py`) | `schema_migrations`, directories | apply pending versions; check what a first run needs | the version is read outside the transaction; two releases at once |
| **Parsers, data-driven extraction** | none | pure functions of text | - |
| **Providers** | none | HTTP calls with a timeout | fail or answer late |
| **Benchmark, CLI, configuration, logging** | none that the product reads | arithmetic, rendering, checks | - |

How they interact:

* `ingest` owns `files`, `documents` and `chunks`. Deleting a document deletes its chunks
  and, by foreign keys, their rows in `chunk_embeddings` and the symbols they define; references
  and relations stay, with NULL where they named a chunk or a symbol that is gone; the vector
  table has no foreign key and keeps its vectors until a run of the indexer removes them.
* Every reader applies one rule of *vigencia* (design 7.7): a document is current when its
  file is `processed` and `documents.source_sha256 = files.sha256`. The exception is
  vector search, whose candidates are enriched without it.
* `index` reads chunks, manifest and states in three snapshots, then writes one chunk at a
  time with a provider call before each write. `analyze` reads the texts once and writes one
  row per commit.
* `ask` searches, adds evidence of the catalogue and of the graph, builds a context, asks
  the privacy preflight, generates, validates the citations and may repair the answer once
  under the same authorisation. A warning sends it back to the start once the user agrees.
* `spec create` reads the same catalogue and writes files only; `models` and `doctor` write
  the configuration, the directories and the schema.

What makes each component correct:

* *Ingestion*: rows and documents agree at every commit; the metadata fast path hides no
  change; after a run that reconciled, nothing it publishes is gone or altered; nothing that
  was listed is deleted; roots it could not list are left alone; every run comes to an end.
* *Index*: a chunk recorded as indexed has its vector; a collection holds one dimension; a
  clean full-corpus run repairs whatever earlier runs left; a scoped run writes nothing
  outside its scope; counters describe the rows.
* *Analysis*: no symbol or reference outlives the text it was taken from; an interrupted run
  publishes nothing; resolution is that of all current symbols; a whole run repairs.
* *Graph*: an answer shows everything within its depth or says that it does not; whatever
  changed meanwhile, each symbol shown was reached over relations shown with it.
* *Answering and privacy*: no prompt leaves the machine without an authorisation for this
  operation, based on evidence that still holds; at most one repair; every prompt fits its
  budget and no text is lost in making it fit; no unvalidated answer is shown as good.
* *Specification files*: what a document calls detected is cited and listed in it; the
  writer's own output is never rejected; nothing is replaced unasked.
* *Models, migrations, doctor*: the schema is whole; what a command reports as success
  happened.

The hazards behind these properties are listed, each at its line, in `PROJECT.json`.

## 2. The models

| Module | Models |
|---|---|
| `Ingestion` | `barbarion ingest` over the file system and the catalogue |
| `Catalog` | what the readers of the catalogue are promised (abstract specification) |
| `SemanticIndex` | `index` and `reindex` over the embedding tables, the vector table, the provider and a concurrent ingestion |
| `Analysis` | `analyze` over symbols, references and relations, with a concurrent ingestion |
| `TechnicalGraph` | the published symbols and relations as readers see them, and the commits of others |
| `DependencyWalk` | `describe` and `impact`: resolution and the breadth-first walk (EXTENDS `TechnicalGraph`) |
| `GraphExpansion` | graph-aware retrieval: seeds, expansion, resolution to chunks (EXTENDS `TechnicalGraph`) |
| `ContextSelection` | from candidates to a numbered context: pure operators |
| `Answering` | `search` and `ask` (EXTENDS `ContextSelection`) |
| `Privacy` | `privacy refresh`, the snapshot, the preflight of `ask` |
| `SpecMode` | `spec create`, `spec validate` and the four documents |
| `LocalModels` | `models install`, `validate` and `select` |
| `Migrations` | `initialize_database` |
| `Setup` | `doctor` next to other doctors and to `models`: composes `LocalModels` and `Migrations` |
| `MC*` | instances for TLC |
| `IngestionProofs`, `SemanticIndexProofs`, `AnalysisProofs`, `GraphProofs`, `AnsweringProofs`, `PrivacyProofs`, `SpecModeProofs`, `SetupProofs` | theorems and proofs |

An action is one SQLite transaction, one read of the file system or of the database, or one
call of a provider, together with the in-memory bookkeeping up to the next one. That is the
granularity at which another process, the user, Ctrl+C or a kill can be seen. A migration goes
finer, statement by statement. Two actions are coarser: `SpecMode.CollectDocuments` takes the
whole search, which `Answering` takes apart, as one read; `SpecMode.HandleRelation` looks up both
ends of a relation at once.

Definitions whose comment starts with *Mutant* are not part of the specifications. They are
variants of the definition that follows, each with a plausible bug, kept to show that the
properties notice it (`mutants` in `PROJECT.json`).

### Ingestion

| Variable | Code |
|---|---|
| `disk`, `mtime`, `rootState` | the corpus: bytes, the pair (`size`, `mtime_ns`) as one stamp, and whether a root is present and listable |
| `files`, `docs`, `runs` | tables `files`, `documents` with their chunks, `ingestion_runs` |
| `phase`, `job`, `work`, `item`, `m` | the point of `IngestionService.run`; its arguments and `completed_roots`; what discovery left to do and `seen_files`; `current_file`; `IngestionMetrics` |
| `dirty`, `history` | auxiliary: has the disk changed since discovery; what bytes a file has had |

| Actions | Code |
|---|---|
| `BeginRun`, `Discover` | `start_run`, `discover_files` with its sorted errors and files |
| `HandleDiscoveryError` | the first loop of `run`: `FILE_TOO_LARGE` is turned into a skip, `ROOT_*` codes withdraw roots |
| `StartFile`, `GetFileStateFails`, `FileStateFault` | `get_file_state` and `decide_incremental`; its failure recorded as that of a parser, or fatal with the file as `current_file` |
| `Fingerprint`, `FingerprintFails` | `fingerprint_file`, and the touch of a file whose hash did not change |
| `Extract`, `ExtractFails`, `ExtractBinaryPbl` | the parser, which opens the file again |
| `ReplaceDocument`, `ReplaceDocumentFails`, `CountProcessed` | the transaction of one file; the collision of chunk ids; the counter after it |
| `MarkSeenMany`, `ReconcileDeleted`, `FinishRun`, `Return` | the end of the run |
| `KeyboardInterrupt`, `FinishInterrupted`, `DatabaseFault`, `RecordFatal`, `FinishFailed`, `Crash` | Ctrl+C and its handler, a SQLite error and the outer handler, a kill |
| `WriteFile`, `RemoveFile`, `ChangeRoot` | the user |

A SHA-256 is the content it digests. Every change of a file renews its stamp (a rewrite that
restores size and nanoseconds would defeat the fast path by design, and the code accepts
that). Parsers are reduced to the three outcomes `run` distinguishes: a text, a binary PBL, a
failure. Chunks are part of their document because they are written in its transaction. One
domain and one ingestion at a time are modelled. A root is a directory: a root that is a single
file, one inside another (`_normalize_roots` keeps the outer one, `filesystem.py:131`), and
`ROOT_UNSUPPORTED` are not modelled.

`Catalog` is what that machinery amounts to for a reader: a text seen under a file is one the
file really had, it is replaced one file at a time, and it may be withdrawn. The refinement
mapping publishes `docs[f].text` for the current files and nothing for the others.

### SemanticIndex

`stored` and `current` are the ids in `chunks` and the files that satisfy the rule of
vigencia; `dim` is the dimension each model answers with now; `manifests`, `states`,
`vectors`, `runs` are the tables; the rest is `IndexService.run`: its arguments, the
decisions left, the chunk in hand, the summary, the cancellation token.

| Actions | Code |
|---|---|
| `DiscoverChunks`, `MakePlan` | `indexable_chunks`; `find_active_manifest`, `chunk_embedding_states`, `decide_index_plan` |
| `DryRun`, `PruneOrphans`, `NothingToDo` | the early returns and `prune_orphans` |
| `ProbeDimension`, `ProbeFails`, `CreateManifest` | `_create_manifest_from_first_chunk` and the second plan |
| `BeginRun`, `FinishRun`, `Return` | `embedding_runs` |
| `KeepChunk`, `Embed`, `EmbedFails`, `UpsertVector`, `RecordIndexed`, `RecordRejected` | the loop over decisions: provider, vector commit, row commit with its foreign key |
| `RecordError`, `RecordErrorRejected` | the handler of a failed chunk, which may fail too |
| `DeleteVector`, `MarkDeleted`, `DeleteFails` | an obsolete chunk: vector first, row after |
| `Cancel*`, `Cancel`, `WriteFails`, `DatabaseFault`, `Crash` | the cancellation token and the SIGINT handler, SQLite failures inside and outside the loop, a kill |
| `IngestDocument`, `IngestFailure`, `IngestRemoval`, `ChangeModel` | what commits of `ingest` do to chunks and, by cascade, to `chunk_embeddings`; another model behind the same name |

A chunk id is a digest of path, source and text, so equal ids have equal text; a vector is
represented by its dimension, which is all the code compares. The ingestion actions are the
effect of `Ingestion`'s commits on what the indexer reads: `ReplaceDocument` is
`IngestDocument`, the writers of error rows are `IngestFailure`, skips and tombstones are
`IngestRemoval`.

### Analysis

`symbols`, `references`, `relations`, `candidates` and `runs` are the tables; `text` and
`state` what ingestion committed; `job.found`, `todo`, `known`, `seen`, `m` what
`AnalyzeService.run` holds in memory.

| Actions | Code |
|---|---|
| `Discover`, `CancelDiscovery`, `BeginRun` | `symbol_sources` under a scope, the first look at the token, `begin_analysis_run` |
| `Extract`, `CancelExtraction`, `DryRun`, `Persist` | `_extract`, the second look, the two ways on |
| `UpsertSymbol`, `UpsertReference` | one commit each; a row that names a chunk or a symbol that ingestion removed violates a foreign key |
| `ReconcileScope`, `ReconcileDeleted` | what the run did not write is retired |
| `ReadSymbols`, `ReadReferences`, `UpsertRelation`, `ReplaceCandidates`, `UpdateReference` | `_resolve_references` over every current reference of every file |
| `FinishRun`, `Return`, `Cancel`, `ForeignKeyViolated`, `DatabaseFault`, `Crash` | the end, Ctrl+C, and failures, none of which closes the run |
| `IngestDocument`, `IngestFailure`, `IngestRemoval` | ingestion in another process, with its cascade |

`Decision` is `relation_from_reference` with its narrowing by container. A document is one
chunk with at most one symbol; what the extractors find in a text is given by the constants
`Defines`, `Refers`, `Kind` and `Compatible`.

### Graph

`TechnicalGraph` holds the active symbols and relations and the commits by which another
process may change them between two queries. `DependencyWalk` has one action per query:
`ResolveObject`, `StartWalk`, `ReadAdjacent`, then `HandleRelation` for each relation,
`NextNode` when they are used up, `FinishWalk`; `describe` walks outgoing and then incoming.
`Risks`, `Consumers`, `ToConfirm` are what the commands conclude. `GraphExpansion` is
`SeedCandidate`, `NextSeed`, `ExpandPath`, `FollowRelation`, `NeighborLimit`, `PathDone`,
`SeedDone`, and then `ResolveSymbol` and `EnrichSymbol`, which look a current chunk up for each
symbol in two reads; the limits are constants. Prose that an LLM may add to
`describe` and `impact` is left out.

### ContextSelection and Answering

`ContextSelection` holds the pure functions: joining families of candidates (`Families`),
both selection policies (`MergeLegacy`, `SelectRelevant` with its dense ranks), the context
builder (`Materialize`, `Dedupe`, `Fill`, `TrimOverlaps`, `TrimAndRefill`), the loop that
shrinks a context until the prompt fits (`BuildForInput`), the graph fallback (`Fallback`)
and the shrinking of a repair (`FitRepair`). A text is an interval of lines of its document,
one token each; `estimate_tokens` is additive. Scores are given, not computed.

`Answering` has one action per read or call: `ReadManifest`, `SemanticSearch`,
`KeywordSearch`, `Rank` (with the row of `rag_queries`), `RetrieveStructured`, `EnrichAgain`,
`RetrieveGraph`, `SelectContext`, `AnswerWithoutModel`, `Preflight`, `AcceptRisk` or `Stop`,
`Generate`, `SkipRepair` or `Repair`, `CallFails`, `Deliver`. `AcceptRisk` starts a second
operation from the beginning. A row of `rag_queries` has the status that the search gave it and
`told`, whether the metrics of the end were written to it. Every write of a row may fail: of
the search's (the command raises without one), of a failed call's (`rag.py:3386`: the row stays
`completed`) and of the metrics (`rag.py:3352`: the command raises although the model answered).
The terms of a context are those of its texts and of the headers of its sources (`HeaderTerms`). An answer is a set of blocks of sentences, each with the terms,
citations, absence and denial that the validator tells apart. Preflight is an outcome here;
`Privacy` models how it comes about.

### Privacy

`file` is the snapshot, `refresh[r]` the record of a refresher between `Fetch` and `Replace`,
`ask` the one ask with the evidence it holds. `Build` reads the snapshot and normalises it
(`Evidence`, `OfRegistry`, `OfProvider`), `Authorize` judges it (`Decision`), `Confirm` takes
the user's consent, `Send` sends. The clock moves both ways (`MoveClock`) and the file may be
damaged. Account verification answers *unavailable*, as `cli.py` composes it.

### SpecMode

`job[c]` is a creator: `Start`, `CollectDocuments` (the search), then for each query of the
catalogue `Resolve`, `BeginWalk` (a symbol retired since it was resolved ends the command),
`ReadAdjacent` for each symbol and `HandleRelation` for each row of the walk, `Report` (its
components and its evidence), then `Judge` (draft, review, validation), `CheckFolder`,
`MakeFolder`, `OpenFile` and `FillFile` for each of four documents. `met` is history: the rows
that the walks read. `Rendered` gives, for each document, its lines with their citations and
marks, its evidence, definitions and links; `ValidDocuments` is the validator. A mark is the word
*detectado*: it comes from the requirement, from the title of `--name` (a line of all four
documents), from a quoted chunk or from a name (`MarkedNames`) that a component, a risk or a
question prints. The last two print the first eight names; here, all of them. The clauses that
repeat the requirement in one document are one line. A user edits any
document that is there and another process changes the catalogue between any two reads. `spec
validate` is `ValidDocuments` of what is on disk and changes no state, so it is no action.

### Setup, LocalModels, Migrations

`Migrations` is `Open`, `ReadVersion`, `Begin`, `Execute` for each statement, `InsertVersion`,
`Commit` or `Rollback`, and `CheckHealth`, of any number of processes of any releases, with
SQLite's write lock and `Die`. What a transaction executed is its process's own (`InHand`) until
it commits; that SQLite discards it otherwise is an assumption about SQLite, not about the code.
Reasons of the health check other than the version (WAL, foreign keys, a query that fails) are
a choice. `LocalModels` is a command per client: `ListModels`, `Generate` with its timeouts and one retry, `Pull`, `PullEnds`,
`ConfirmInstall`, and for `select` `Preview`, `ReadFile`, `WriteTemporary`, `Compare`,
`Replace`, `Reload`, with `Kill`; the user edits the file and the server changes. An edit that is
given up removes its temporary file, and the removal may fail unnoticed (`model_config.py:109`);
the progress of a pull may end before Ollama has. `Setup` adds
`StartDoctor`, `CheckDatabase`, `ProbeOllama` and composes the three; its two halves share no
variable except through `doctor`, which looks at the server and the schema.

### Bounds

`MaxRuns`, `MaxEdits`, `MaxStarts`, `MaxCommands`, `MaxChanges`, `MaxMoves`, `MaxDownloads`,
`MaxEvents` and `MaxTime` limit runs, commits of others, changes of the world and the clock;
nothing else is bounded.

* *Ingestion.* One root and one path, or two roots and one path: files are handled one at a
  time and meet only through equal relative paths in different roots, equal root names, and
  the set operations at the end of the run. Two runs are one that leaves something behind and
  one that must deal with it; two edits take a content away and bring it back. Every safety
  property of these runs but one is also proved for any bound (section 4).
* *Index.* One file of two chunks gives every combination of a chunk that stays, goes and
  comes back; two files appear where scopes matter, two models where collections matter.
  Three runs allow a killed, a repairing and a checking run. The safety properties are proved
  for any bound.
* *Analysis.* Two files, because ownership of a symbol and global resolution need two; three
  texts that call, copy and implement; two runs; one commit of ingestion, at any point.
* *Graph.* Five graphs of three symbols and four relations: chain with a loop, diamond, cycle,
  parallel rows, rows without an end. Limits of one, two and four nodes lie below, at and above
  what the graphs need.
* *Answering.* Seven items of three documents, so that chunks overlap, repeat each other and
  share a structural twin; 19 budgets from one that fits nothing to one that fits all; five
  values of `top_k`; one withdrawal between two reads.
* *Privacy.* Time 0..5 with a TTL of two and an official policy valid in 2..4 has every order
  of download, expiry, preflight and sending; two refreshers. Refreshers are interchangeable
  (symmetry).
* *SpecMode.* Two creators of one folder, two commands, one change of the catalogue, one edit;
  creators are interchangeable. Two catalogues of four and three rows: a chain, a consumer, a loop,
  open ends, a deleted target; going from the first to the second retires the symbol of a query. A
  walk reaches two symbols, one less than there are, so that the limit is met.
* *Setup.* Any two commands at once, of two doctors and two clients, with one edit and one
  event of the server; processes and clients are interchangeable. Two releases of two statements
  per migration, so that a doctor may stop between two statements or two versions. Two commands
  suffice because the commands meet pairwise, at one file, one lock or one server; proved for any
  number.

`CHECK_DEADLOCK FALSE` is set where the system really stops: the bounds are used up and every
command has ended.

### Fairness

`FairSpec` of `Ingestion`, `SemanticIndex`, `Analysis` and `MCGraph` adds only weak fairness of
the running process: it keeps taking steps. That is what a sequential process does whose
provider calls have timeouts, whose SQLite waits are limited by the connection timeout of five
seconds, and which waits for no other actor. Faults, Ctrl+C, kills, the user and other commands
are never obliged to happen. The other specifications state no liveness.

## 3. What the runs show

| Run | Instance | Properties |
|---|---|---|
| `IngestChanges` | one file: two texts, a binary PBL, a corrupt text; a root that goes missing or unreadable; two configurations; every fault | `RowsAreSound`, `NoStaleKnowledge`, `CompletedRunMirrorsDisk`, `WritesAreDue` |
| `IngestRoots` | runs over any of two roots that may disappear; oversized files; SQLite failures; fairness | `CountersMatchCatalog`, `OnlyListedRootsReconciled`, `ImplementsCatalog`, `RunEnds` |
| `IngestUnreadableRoot` | one root that may become unreadable | violates `OnlyListedRootsReconciled` (section 5) |
| `IndexFaults` | one file, two chunks, three runs, every fault; fairness | `IndexedHasVector`, `CompletedRunMirrorsCorpus`, `CountersMatchIndex`, `RunEnds` |
| `IndexModels` | two files, two models, two dimensions, scopes, kills | `NoMixedDimensions`, `OnlyScopeIsWritten`, `NoRedundantEmbedding` |
| `analyze_runs` | two files that share a symbol, two runs, whole or scoped, ingestion and every fault; fairness | `PublishedIsTrue`, `ResolutionIsGlobal`, `CompletedRunMirrorsTexts`, `RunEnds` |
| `analyze_scoped` | runs with `--path` | violates `ScopedRunKeepsOthers` (section 5) |
| `graph_queries` | describe, impact and retrieval over five graphs; one commit of another process; fairness | `WalkWasSeen`, `WalkIsComplete`, `PathsWereFollowed`, `BestSeedIsComplete`, `EvidenceIsCitable`, `CommandsEnd` |
| `ask_questions` | every mode, policy, budget and `top_k` over three databases, every kind of answer and failure | `SelectionIsAccounted`, `BudgetIsKept`, `CallsAreAuthorized`, `AnswersAreGrounded`, `TextSurvives`, `RowsTellFailures` |
| `privacy_gate` | two refreshers, an ask of six configurations, five payloads, a clock set forward and back | `PromisesAreRecent`, `ConsentWhereKept`, `SnapshotsAreSound` |
| `spec_create` | two creators, four requirements, a changing catalogue, interruption, an edit | `DocumentsAreTrue`, `OnlyForeignWordsReject`, `ReplacedOnRequest` |
| `setup_commands` | any two of doctors of two releases and commands on two models | `SetupInvariant`, `HealthyIsReady`, `SuccessIsEarned` |

A property that joins several names holds the type invariant or statements about one hazard;
each part has its own comment in the module.

*Ingestion.*
* `RowsAreSound` = `CatalogConsistent` and `FastPathSound`. The first: a processed row owns the
  document of exactly its hash and signature, at every commit. The second is why skipping a file
  on its stamp is safe: whatever runs, touches, errors and edits led here, a processed row that
  carries the present stamp of a file carries its present hash.
* `CompletedRunMirrorsDisk`: after a run without errors over a disk that held still, every
  readable text of its roots is published with its hash and the configuration of this run, and
  nothing is known of files that are gone or too large. `NoStaleKnowledge` is the weaker promise
  of a run that did have errors. Both say nothing of a binary PBL that became a text between its
  hash and its extraction and a PBL again (section 5).
* `WritesAreDue`: what discovery listed is never deleted (the untouched files are marked only
  just before the rows not seen are deleted), and an incremental run rewrites nothing current.
* `CountersMatchCatalog` compares counters kept in memory with rows written in as many commits
  as there are files. `OnlyListedRootsReconciled` holds when roots can only disappear.
* `ImplementsCatalog` is the refinement. `RunEnds`, here and in the next two, says that the
  command leaves its run on every path, a failure in the handler of a failure included. It does
  not say that the run's row is closed: after a kill, and of a failed `analyze`, it stays `running`.

*Index.*
* `IndexedHasVector` is about the two commits of a chunk. The vector goes first and the row
  second when indexing, and again the vector first when deleting; a re-ingestion of the same
  bytes in between brings the same chunk id back. No interleaving leaves a current chunk claimed
  without a vector: incremental runs would never repair it.
* `CompletedRunMirrorsCorpus`: the opposite leftovers, vectors without rows and rows without
  chunks, are gone after one clean run that may delete.
* `NoMixedDimensions` with a model that changes under a run; `OnlyScopeIsWritten` for runs that
  may not delete; `NoRedundantEmbedding` for resumed runs; `CountersMatchIndex` for the summary,
  also of cancelled runs, when ingestion was quiet. `RunEnds` as above.

*Analysis.* `PublishedIsTrue`: what the tables publish is in the texts, although the texts were
read long before, and no row comes from an interrupted run. `ResolutionIsGlobal`: a completed
run, whatever its scope, leaves each current reference resolved against the symbols active now,
with one relation of its own. `CompletedRunMirrorsTexts`: a whole run repairs whatever earlier
runs, deaths and commits left, and its counters are those of the tables.

*Graph.* `WalkIsComplete` compares the walk with a reference definition of distance (`Ball`): an
answer without a warning holds every symbol within the depth at its true distance, and the
warning appears exactly when one is missing. `WalkWasSeen`: while the graph changes, every symbol
was reached over a relation shown with it and every cycle was walked. `PathsWereFollowed`,
`BestSeedIsComplete` and `EvidenceIsCitable` say the same of the expansion; only the best seed is
promised whole, since later ones share its accepted symbols. `CommandsEnd`: no cycle keeps a
command going.

*Answering.* `BudgetIsKept`: no prompt exceeds the input budget whatever was trimmed, swapped or
shrunk, and the fallback never pays with a source. `TextSurvives`: what is cut from a source
because another shows it is shown by another; a repair keeps the sources, their numbers and a
beginning of each. `SelectionIsAccounted`: places go to evidence with text of both families,
each candidate is a source or has one reason not to be, and, when nothing was committed since the
search, only vectors and the code of structured symbols bring a chunk that is not current.
`CallsAreAuthorized` and `AnswersAreGrounded` are about the order preflight, generation,
validation, repair. `RowsTellFailures`: a row with metrics is that of the operation that ended the
run, and an error exactly if the run raised; a run that answers has such a row; no operation
follows a search recorded as an error. What it cannot say, because the code does not: that a run that raised has
left an error. A read may fail before there is a row, and the write of the error may fail.

*Privacy.* `PromisesAreRecent`: a prompt goes to a provider only on a promise that some download
found and that at the preflight was within its TTL and its own expiry. `ConsentWhereKept`:
without consent it goes only where nothing is kept. `SnapshotsAreSound`: what is on disk is one
download, whole, readable for as long as it says. They bind the preflight, not the sending: see
section 5.

*SpecMode.* `DocumentsAreTrue`: whatever mixture of commands wrote the folder, each generated
document lists what its lines cite (`tasks.md` lists nothing: its title may cite what the others
list) and cites what they call detected; and whatever `analyze` published between two reads of a
walk, each row read without a certain end is to be confirmed and what is called detected is the
symbol asked for or rests on a row read resolved. `OnlyForeignWordsReject`: renderer, reviewer and
validator agree; a command fails only for the words of the requirement, of `--name`, of a quoted
chunk, or for the name of a component still to be confirmed, which the documents print uncited. `ReplacedOnRequest`: who may change
a document that is there.

*Setup.* `SetupInvariant`: whoever stopped between two statements, what is committed is a whole
schema at its version; and a temporary file belongs to an edit in progress, given up or killed,
never to one that reached the configuration. `SuccessIsEarned` (`ReadyIsCurrent`,
`SelectedHasAnswered`, `ReportedIsSo`, `InstalledIsListed`): a process goes on with the schema of
its release, a model that is written to the configuration or reported as valid has answered this
command, what a selection reports is what the file now names, a model reported as installed was
listed. `HealthyIsReady`: a doctor without failures leaves the directories it looks up and every
table of its release. It says nothing of the model: its absence is a warning.

## 4. What is proved

TLAPS checks these for every value of the constants that satisfies the named assumptions.

| Module | Theorem | Property |
|---|---|---|
| `IngestionProofs` | `TypeCorrect`, `Consistency`, `FastPath`, `ListedSurvives`, `Idempotent` | `TypeOK`, `CatalogConsistent`, `FastPathSound`, `ListedIsNeverDeleted`, `NoRedundantRewrite` |
| | `RowsSound`, `WritesDue` | `RowsAreSound`, `WritesAreDue` |
| | `Refinement` | `ImplementsCatalog` |
| | `NothingStale` | `NoStaleKnowledge` |
| | `DiskMirrored` | `CompletedRunMirrorsDisk` |
| | `Counted` | `CountersMatchCatalog` |
| `SemanticIndexProofs` | `TypeCorrect` | `TypeOK` |
| | `OneDimension`, `Searchable` | `NoMixedDimensions`, `IndexedHasVector` |
| | `ScopeRespected`, `Incremental` | `OnlyScopeIsWritten`, `NoRedundantEmbedding` |
| | `Mirror` | `CompletedRunMirrorsCorpus` |
| | `Counted` | `CountersMatchIndex` |
| `AnalysisProofs` | `TypeCorrect`, `Published` | `TypeOK`, `PublishedIsTrue` |
| | `ResolvedGlobally`, `MirrorsTexts` | `ResolutionIsGlobal`, `CompletedRunMirrorsTexts` |
| `GraphProofs` | `WalkSeen`, `WalksAreComplete` | `WalkWasSeen`, `WalkIsComplete` |
| | `PathsFollowed`, `BestSeedWhole`, `EvidenceCited` | `PathsWereFollowed`, `BestSeedIsComplete`, `EvidenceIsCitable` |
| `AnsweringProofs` | `Authorized`, `FailuresAreRecorded`, `Grounded` | `CallsAreAuthorized`, `RowsTellFailures`, `AnswersAreGrounded` |
| | `SelectionAccounted`, `BudgetKept`, `TextKept` | `SelectionIsAccounted`, `BudgetIsKept`, `TextSurvives` |
| `PrivacyProofs` | `Promised`, `Consented`, `WholeSnapshots` | `PromisesAreRecent`, `ConsentWhereKept`, `SnapshotsAreSound` |
| `SpecModeProofs` | `DocumentsTold`, `OwnWordsAccepted` | `DocumentsAreTrue`, `OnlyForeignWordsReject` |
| | `DocumentsReplacedOnRequest` | `ReplacedOnRequest` |
| `SetupProofs` | `Prepared`, `Healthy`, `Earned` | `SetupInvariant`, `HealthyIsReady`, `SuccessIsEarned` |

Assumptions: files, roots, paths, chunks, references, relation ids and the items of a context are
numbers (their order is that in which the code sorts them); roots, paths, analysed files,
references, relation ids, symbols, the symbols a name resolves to and items are finitely many; root
lists, the seeds of a search, the lists of evidence and the relations of a catalogue are sequences;
scores, lines and token counts are naturals, a text begins no later than it ends, `max_chunk_tokens`
and `top_k` are positive (the configuration refuses others), and the policy `optimized_v1` has an input
budget; the values that stand for NULL are none of those they stand apart from; a text without a
symbol has no references; an offering has finitely many exceptions, each verified at a natural time;
the clock moves within 0..`MaxTime` with `MaxTime` positive; releases are positive; the terms of a
sentence are finitely many; bounds are naturals.
TLC evaluates them in every run.

None of the properties is inductive as it stands, because each speaks of tables while the
process carries in memory what it will write next. The strengthenings say what that memory is
worth:

* `ProcessInv` (ingestion): in each phase, what `job`, `work` and `item` hold, so that every
  row a handler writes is typed and tagged with the run in progress.
* `StampInv`: no row and no pending stamp is newer than the file, and a pending or stored hash
  that carries the present stamp is the present content. This is where it matters that
  `fingerprint_file` compares the stat with the discovered one.
* `ListedInv`: a file that discovery listed is always still to do, in hand, marked as seen by
  this run, or in `seen_files`; hence it is not missing when the run reconciles. `RewriteInv`:
  what `item` says of the row it was decided on still holds when the document is written.
* `HistoryInv`: every text in a document or in hand is one the file has had. The refinement maps
  `ReplaceDocument` to `Publish`, user edits to `Write`, the writers of error, skipped and deleted
  rows to `Withdraw`, everything else to a stutter.
* `RunInv`, `FreshInv`, `OrderInv`, `MirrorInv` follow one run over a disk
  that holds still. Run ids only grow, so at discovery no row is marked; from then on a row is
  marked and processed only if its file was listed, and carries the present bytes; after
  reconciliation every row left under a completed root was marked. Without errors every listed
  text is still to do, in hand or recorded, and a text not listed has an error waiting to be
  counted.
* `Tally` ties the counters to sets of rows: until the unchanged files are
  marked, those, the rows this run processed and the files still to do are apart (`MarksApart`),
  so that each count grows by one exactly when its set does, and marking joins two disjoint sets.
  Discovery errors may overwrite any row, which is harmless because they are all handled while
  nothing is marked as processed yet.
* `IndexInv`: `TypeOK` with `ModelInv` (a run is of one model), `DimInv` (what is in hand has the
  dimension of the manifest), `PlanInv` (the plan never deletes a chunk the run found),
  `ObsoleteInv` (a current chunk that a deleting run did not find has no row, because only a
  re-ingestion can have made it current, and that took its row away by cascade) and `VectorInv`.
  `MirrorInv` and `CountInv` follow a run while ingestion is quiet: a chunk
  for which nothing is left to do is settled, pruning leaves no orphan, and the rows that carry the
  run's number are as many as it counted.
* `AnalysisInv`: what ingestion deletes takes its rows along (`PublishedIsInText`), the rows in
  memory are of texts that had them (`SeenInv`, `TodoInv`), and a run writes nothing before its
  last chance of being interrupted (`RunsInv`, `FreshInv`).
* `PeaceInv` adds to it what holds of a run while ingestion commits nothing (`QuietInv`), loop by
  loop: the symbols and references already written are those found, and only they carry the run's
  number; after the reconciliation of the scope no other active row of its files is left; and while
  references are resolved, the catalogue in memory is the active symbols, each reference that is done
  is settled (`Settled`: its status, its one relation, its candidates), and of those to do only the
  first may have been begun. That each symbol found has a definer needs that a set of file numbers
  has a least one.
* `WalkInv`: every queued symbol comes with a path walked over relations that were read, as long as
  its depth; a cycle is reported from such a path.
* `WholeInv` (with `WalksInv`) is the argument that a breadth-first walk is exact, while nobody else
  writes: the queue is in the order of the depths, and a node is at the maximum depth, has all its
  neighbours entered, or waits; so a symbol is entered first at its true distance, and a missing one
  means that the limit was met while a symbol was missing. The reference, `Ball`, is a recursive
  function; what it needs is proved by taking the least number at which it could fail.
* `FollowInv`: each trace of the expansion continues an accepted one by a relation that was read,
  from one of the first seeds, and what waits in the queue is such a path. `StillInv` and `BestInv`
  add what holds while nobody writes and no limit cut anything: the queue of the best seed is in
  depth order, and whatever was entered is expanded or waits. Of later seeds nothing of the kind
  holds, because they do not enter what an earlier one accepted.
* `AskInv`: `CallsInv` (which prompts were sent in which step, and only if let through), `RowsInv`
  (each operation that has searched has one row, told and made an error only where a run ends;
  before the last step no row is either), `AnswerInv` (an answer is
  delivered with the context by which it was judged, not the one first shown to the model).
* `ContextInv` = `ReadInv`, `ShownInv`, `FitInv`: each search returns an item once; what the generation
  shows has each candidate once and loses no line; what is about to be sent fits. Most of the proof
  is what the pure functions do. A loop over a sequence (`Folded`) has a result, and what each round
  keeps its result has (`LoopExists`, `Rounds`). A sort is a permutation (`SortedByIs`).
  `Lossless` says that whatever a source begins after is shown by some source: trimming pair by
  pair keeps it in whatever order the pairs come (`TrimPairIs`, `TrimOverlapsIs`), because a cut is
  made only where the left text, as it is by then, shows the lines; and so does filling up, because a
  new source begins at its beginning (`FillKeeps`, `TrimAndRefillIs`). The descent to a smaller
  budget ends in a context that fits or in none; a repair gives each source at least one token.
* `SelectionInv` = `OriginInv`, `EndInv`, `ChosenInv`, `ChoiceInv`. Nothing has a rank before the
  selection, what is ranked was found or matched, and while ingestion committed nothing since, it is
  still current. The ranking is the entries of both families in the order `AheadOf` (`RankedBy`); the
  best of each family comes before all of its family, so with two places or more both are
  among the chosen (`HeadsLead`, `HeadsAreChosen`). The builder puts each candidate in exactly one of
  five sets: below the threshold, duplicate, without content, over the budget, source (`Split`,
  `OneReason`, `BuildAccounts`); the list the fallback leaves is accounted for too
  (`LeftAccounts`).
* `PrivacyInv`: `FileInv` (the snapshot on disk is missing, garbled, or one download with its own
  expiry), `RefreshInv` (a refresher carries a download with the time at which it was started), and
  `AskInv`: the source in hand is one that was read from such a file, and a command that may send is
  `Cleared`, holding the evidence that gave its decision at the time of the preflight. That what the
  cells promise is what some download promised (`CellsPromise`) needs no induction over time.
* `SpecInv` (specification mode): what a creator holds in each step; that the evidence of each
  component it has collected is listed, that a detected one rests on a resolved row it met and that
  each open row it met has its component, because a walk's edges are offered in order and the first
  of an id and role is kept (`ComponentsInv`, `EndsInv`); that a draft it goes on with renders four documents the validator accepts, and one it rejects has foreign words (`DraftedInv`);
  and that each file is missing, empty, edited, or such that it stands alone, with everything it
  cites and links in itself, which is why mixtures of two commands are still true (`FilesInv`). That
  renderer, reviewer and validator agree is a statement about pure functions of the draft.
* `SetupInv`: `MigrationsInv` (registered versions and tables are 1..n; a process about to apply a
  version is at most one beyond the schema, however long ago it read it; one about to commit has
  executed every statement, and its version is the next, because it holds the lock) and `LockInv`,
  `ModelsInv` (an editor in `replace` has the answer it needs, and one that replaced the file took
  its temporary away with it) and `DoctorInv`. The two halves share no variable, so each is kept by its own steps.

Each is proved by one step per action and then combined with temporal logic.

Some definitions were given the form in which they can be reasoned about, with the same meaning:
folds instead of `SelectSeq`, named stages of `Build` and `TrimAndRefill`, a `CASE` of the graph whose
guards overlapped.

Only model-checked: `OnlyListedRootsReconciled`, false of the program in general; and liveness
(`RunEnds`, `CommandsEnd`), which with `ENABLED` is out of the prover's reach. The library's induction theorems take an operator as a parameter and cannot be used either; where
a proof needs induction over numbers, the set of those for which the statement fails is shown to have no
least member (`Least`, `Rounds`). No module declares a `RECURSIVE` operator.

## 5. Where the documentation and the code disagree

Two runs check a statement of the documentation, and TLC returns a short behaviour of the code
that contradicts it.

| Run | Statement | What happens |
|---|---|---|
| `IngestUnreadableRoot` | "una root incompleta nunca participa en reconciliación" (`specs/H2-Ingestion/design.md:202`) | only `ROOT_*` codes withdraw a root; one whose listing fails with `DIRECTORY_READ_FAILED` is reconciled and its knowledge deleted |
| `analyze_scoped` | with `--path`, what is known of other files does not change (`docs/data-driven-configuration.md:471`) | a symbol has one row; a scoped run over a file that defines it as well takes it over from the other file |

The others were met while modelling. The models contain these behaviours, and the properties are
stated so as to allow them.

*Ingestion and index.*
* Chunk ids hash neither root nor domain (`domain/ingestion.py:296`), so the same path and bytes
  under two roots make the whole run fail, against `docs/ARCHITECTURE.md:511` and
  `specs/H2-Ingestion/requirements.md:118`.
* A file that is too large is looked up again by relative path and may be found under another root
  (`application/ingest.py:452`; `specs/H2-Ingestion/requirements.md:107`).
* The parser opens a file after it was hashed: an edit in between publishes one version's text
  under the other's hash and keeps it if the first bytes return (`infrastructure/encoding.py:65`;
  `specs/H2-Ingestion/design.md`, 7.7).
* Ctrl+C between the commit of `reconcile_deleted` and the closing of the run gives a run reported
  as interrupted that did delete files (`application/ingest.py:209`), while
  `specs/H2-Ingestion/requirements.md:159` says that an interruption never reconciles.
* The active manifest is found without looking at dimensions (`infrastructure/sqlite.py:1424`), so
  after a model's dimension changes every chunk of a full reindex fails (`docs/CLI.md:390`).
* Recording the error of a chunk that ingestion replaced violates the foreign key inside the handler
  and aborts the run, which stays `running` (`application/rag.py:441`;
  `specs/H3-RAG/requirements.md:160`).
* `mark_other_manifests_obsolete` (`infrastructure/sqlite.py:1451`) has no caller, so manifests of
  other models stay active, against `specs/H3-RAG/requirements.md:101`.
* A vector written just before a kill, whose file then fails to be ingested, has no row and a chunk
  that is stored but not current: neither the plan nor `prune_orphans`
  (`infrastructure/sqlite_vec.py:161`) removes it (`docs/CLI.md:475`).
* `chunk_embedding_states` is not filtered by domain (`infrastructure/sqlite.py:1685`), and nothing
  locks the tables between two indexers.

*Analysis.* A scoped run leaves relations of other files active with a target that is gone, and
relations of files in error stay active, against "no dejan relaciones vigentes huérfanas"
(`specs/H4-ReverseEngineering/requirements.md:154`); the next whole run repairs them. A kill
between persistence and resolution leaves references without their relations until then.
`SymbolCatalogService` and `RelationResolutionService` are used by tests only.

*Graph.* Walking both directions, the default of `impact`, takes every dependency for a cycle
A, B, A; walking one way misses a cycle between symbols of one level
(`application/reverse_engineering.py:877`; `specs/H4-ReverseEngineering/requirements.md:169`). The two
walks of `describe` see the graph at different instants.

*Answering.* The row of `rag_queries` keeps `completed` when the answer is rejected
(`application/rag.py:3354`, docstring at 3386). An absence is judged against the trimmed text that was
shown. A sentence without citation passes inside a paragraph that has one. Semantic candidates are
enriched without the rule of vigencia. The list of omitted sources is lost when the context is
emptied for the budget. After a warning the search is repeated and writes a second row. Under
`baseline_v1` chunks that are gone use up places of `top_k`.

*Privacy.* "Regla all-PASS" (`application/privacy.py:617`) and the requirement behind it hold without
`data_location`, which decides nothing (`specs/H3.2-PrivacyPreflight/acceptance.md:48` admits it). Diagnostics name the user's
acceptance also after a pass. An authorisation is for an operation and not for a time: evidence may
expire between preflight and repair. An older download may replace a newer snapshot.

*Specification mode.* An interrupted `--overwrite` leaves a mixture of two specifications that
validates (`infrastructure/markdown.py:333`; `specs/H5-SpecMode/test-plan.md:262`). Two creators may
both find no folder (326) and both write it (331). An edge without a certain end lists the symbol
itself as its own dependency (`application/spec_mode.py:1832`, docstring at 1799). A resolved relation
whose target was deleted shows the seed as detected. The validator rejects every line with
*detectado* and no citation (1247-1274), so a requirement or a `--name` with that word, and a
component to be confirmed with it in its name, can never be written; nor can one whose evidence
quotes citations of another specification.

*Models and setup.* An edit between the comparison and `os.replace` is lost
(`infrastructure/model_config.py:98`; `specs/H1.1-LocalModelManagement/test-plan.md:332`). The provider is
checked on the settings loaded at the start (70), so a user who changes it meanwhile but keeps the
model's name gets another provider's model replaced. A temporary file may stay in the folder of the
configuration, unreported, when its removal fails (109, 251). A name without tag installs as `name:latest` and
the command ends in error. Of two processes that initialise one database the second may fail on the
primary key although the schema is fine (H1-REQ-008 says idempotent). The doctor reports the first
source root only (`doctor.py:257`).

## 6. Not modelled, and what comes next

Not modelled:

* parsers, statement extraction, the extractors of analysis, data-driven rules and DML: pure
  functions of text, given as constants or reduced to their outcomes;
* the language heuristics behind the validator's terms and behind requirements' actions and
  entities: given as sets;
* scores, rendering, logging, argument and configuration parsing, the benchmark;
* providers, beyond an answer, a failure or a timeout;
* `models list` and `show`, `spec validate` on its own (its validator is modelled), Python's version
  in the doctor, the optional prose of an LLM in `describe` and `impact`: nothing depends on them;
* roots that are single files, overlap, or are neither file nor directory;
* two indexers at once, two analyses at once, two domains: nothing in the code keeps them apart,
  and the models are of one.

Next, by importance: a specification of the whole knowledge base whose ingestion refines the
environment of `SemanticIndex`, `Analysis` and `Answering`, which now state it each for itself; and
two indexers and two domains in `SemanticIndex`.
