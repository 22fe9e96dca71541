------------------------------ MODULE Analysis ------------------------------
(***************************************************************************)
(* `barbarion analyze`: AnalyzeService.run                                  *)
(* (application/reverse_engineering.py) over the tables symbols,            *)
(* symbol_references, relations and relation_candidates                     *)
(* (SQLiteReverseEngineeringRepository, infrastructure/sqlite.py).          *)
(*                                                                          *)
(* Every write is a commit of its own and every read a snapshot of its own. *)
(* Between any two of them an `ingest` in another process may commit, the   *)
(* user may press Ctrl+C, SQLite may fail and the process may be killed.    *)
(* A document is one chunk, which gives one symbol; a chunk id is a digest  *)
(* of path and text, so it is written here as the text.  One analysis runs  *)
(* at a time; several --path are so many runs one after the other.          *)
(***************************************************************************)
EXTENDS Naturals, Sequences, FiniteSets

CONSTANTS
    Files,          \* files of the catalogue: numbers, in path order
    Texts,          \* what a document may say
    NoText,         \* the file has no document
    Symbols,        \* symbol ids: digests of name, type, technology and container
    NoSymbol,       \* NULL
    Refs,           \* places of a text where another symbol is named: numbers
    Defines,        \* [Texts -> Symbols \cup {NoSymbol}]; NoSymbol: no chunk at all
    Refers,         \* [Texts -> SUBSET Refs]
    Kind,           \* [Refs -> Kinds] how the reference is written
    Compatible,     \* [Refs -> SUBSET Symbols] same name, compatible type and technology
    Container,      \* [Symbols -> container]
    NoContainer,    \* the symbol stands alone
    Prefixes,       \* file sets that --path selects
    MaxRuns,        \* bound: rows of analysis_runs
    MaxEdits,       \* bound: commits of ingestion
    DbFaults,       \* BOOLEAN: a SQLite operation may fail
    Crashes         \* BOOLEAN: the process may be killed

Kinds == {"plain", "qualified", "dynamic", "external"}

ASSUME AnalysisData ==
    /\ Files \subseteq Nat /\ Refs \subseteq Nat /\ IsFiniteSet(Files) /\ IsFiniteSet(Refs)
    /\ NoText \notin Texts /\ NoSymbol \notin Symbols
    /\ Defines \in [Texts -> Symbols \cup {NoSymbol}]
    /\ Refers \in [Texts -> SUBSET Refs]
    /\ \A t \in Texts : Defines[t] = NoSymbol => Refers[t] = {}
    /\ Kind \in [Refs -> Kinds]
    /\ Compatible \in [Refs -> SUBSET Symbols]
    /\ DOMAIN Container = Symbols
    /\ Prefixes \subseteq SUBSET Files
ASSUME AnalysisBounds ==
    MaxRuns \in Nat /\ MaxEdits \in Nat /\ DbFaults \in BOOLEAN /\ Crashes \in BOOLEAN

SymbolOrNull == Symbols \cup {NoSymbol}
TextOrNone == Texts \cup {NoText}
FileState == {"processed", "error", "skipped", "deleted"}
RunStatus == {"running", "completed", "interrupted"}
Resolution == {"unresolved", "resolved", "ambiguous", "dynamic", "external"}

\* technical_reference_id: the place in a file, whatever else the file says.
Reference == Files \X Refs
\* technical_relation_id: a reference with another target is another relation.
Relation == Reference \X SymbolOrNull

\* Rows; run 0 stands for "no row".
SymbolRow == [run : Nat, file : Files, chunk : Texts, status : {"active", "stale", "deleted"}]
             \cup [run : {0}]
ReferenceRow == [run : Nat, source : SymbolOrNull, chunk : TextOrNone, status : Resolution]
RelationRow == [run : Nat, source : SymbolOrNull, target : SymbolOrNull,
                chunk : TextOrNone, resolution : Resolution, status : {"active", "stale"}]
NoSymbolRow == [run |-> 0]
NoReferenceRow == [run |-> 0, source |-> NoSymbol, chunk |-> NoText, status |-> "unresolved"]
NoRelationRow == [run |-> 0, source |-> NoSymbol, target |-> NoSymbol, chunk |-> NoText,
                  resolution |-> "unresolved", status |-> "stale"]

Counters == [symbols : Nat, references : Nat, resolved : Nat, ambiguous : Nat,
             unresolved : Nat]
NoCounters == [symbols |-> 0, references |-> 0, resolved |-> 0, ambiguous |-> 0,
               unresolved |-> 0]

VARIABLES
    (* ingestion *)
    text,       \* [Files -> text of its document, or NoText]
    state,      \* [Files -> FileState]
    edits,      \* commits so far (bound)
    (* tables *)
    symbols,    \* [Symbols -> SymbolRow]
    references, \* [Reference -> ReferenceRow]
    relations,  \* [Relation -> RelationRow]
    candidates, \* [Relation -> SUBSET Symbols]
    runs,       \* Seq of rows of analysis_runs
    (* the running process *)
    phase,      \* where AnalyzeService.run is
    cancelled,  \* the cancellation token
    job,        \* run id, scope, dry run, the sources found, status
    todo,       \* what is left of the current loop
    known,      \* ids of active_symbols()
    seen,       \* rows of active_references()
    m,          \* counters
    (* auxiliary, read by no action *)
    dirty       \* ingestion committed since the sources were read

corpus == <<text, state, edits, dirty>>
knowledge == <<symbols, references, relations, candidates>>
process == <<phase, cancelled, job, todo, known, seen, m>>
vars == <<text, state, edits, symbols, references, relations, candidates, runs,
          phase, cancelled, job, todo, known, seen, m, dirty>>

Phase == {"idle", "discovered", "extract", "extracted", "symbols", "references", "scope",
          "deleted", "catalogue", "pending", "relation", "candidates", "reference", "done",
          "aborted"}

NoJob == [id |-> 0, whole |-> FALSE, dry |-> FALSE,
          found |-> [f \in Files |-> NoText], status |-> "running"]

Vigente == {f \in Files : state[f] = "processed"}

Init ==
    /\ text \in [Files -> Texts]
    /\ state = [f \in Files |-> "processed"]
    /\ edits = 0
    /\ symbols = [s \in Symbols |-> NoSymbolRow]
    /\ references = [x \in Reference |-> NoReferenceRow]
    /\ relations = [y \in Relation |-> NoRelationRow]
    /\ candidates = [y \in Relation |-> {}]
    /\ runs = <<>>
    /\ phase = "idle" /\ cancelled = FALSE /\ job = NoJob /\ todo = {}
    /\ known = {} /\ seen = references /\ m = NoCounters
    /\ dirty = FALSE

------------------------------------------------------------------------------
(* Ingestion, in its own process. *)

Lives(s) == symbols[s].run # 0
Dropped(f) == {s \in Symbols : Lives(s) /\ symbols[s].file = f}
Keep(s, gone) == IF s \in gone THEN NoSymbol ELSE s

\* Mutant: PRAGMA foreign_keys is off.
DropDocumentForgotten(f) == f \in Files /\ UNCHANGED knowledge

\* Deleting a document: its chunks go with it (CASCADE), with its symbols; what
\* pointed to a chunk or a symbol points to NULL, candidates vanish.
DropDocument(f) ==
    LET gone == Dropped(f)
    IN /\ symbols' = [s \in Symbols |-> IF s \in gone THEN NoSymbolRow ELSE symbols[s]]
       /\ references' = [x \in Reference |->
             [references[x] EXCEPT !.source = Keep(@, gone),
                                   !.chunk = IF x[1] = f THEN NoText ELSE @]]
       /\ relations' = [y \in Relation |->
             [relations[y] EXCEPT !.source = Keep(@, gone), !.target = Keep(@, gone),
                                  !.chunk = IF y[1][1] = f THEN NoText ELSE @]]
       /\ candidates' = [y \in Relation |-> candidates[y] \ gone]

Commit == edits < MaxEdits /\ edits' = edits + 1 /\ dirty' = TRUE

IngestDocument(f, t) ==
    /\ Commit
    /\ text' = [text EXCEPT ![f] = t] /\ state' = [state EXCEPT ![f] = "processed"]
    /\ DropDocument(f)
    /\ UNCHANGED <<runs, process>>

\* record_error: the document stays for diagnosis.
IngestFailure(f) ==
    /\ Commit
    /\ state[f] = "processed"
    /\ state' = [state EXCEPT ![f] = "error"]
    /\ UNCHANGED <<text, knowledge, runs, process>>

\* record_skipped, reconcile_deleted.
IngestRemoval(f, how) ==
    /\ Commit
    /\ text' = [text EXCEPT ![f] = NoText] /\ state' = [state EXCEPT ![f] = how]
    /\ DropDocument(f)
    /\ UNCHANGED <<runs, process>>

------------------------------------------------------------------------------
(* Discovery and extraction. *)

\* The process ends: everything it held in memory is gone.
Exit ==
    /\ phase' = "idle" /\ cancelled' = FALSE /\ job' = NoJob /\ todo' = {} /\ known' = {}
    /\ seen' = [x \in Reference |-> NoReferenceRow] /\ m' = NoCounters

\* symbol_sources: chunks of current documents, by path.
Sources(scope) ==
    [f \in Files |-> IF f \in scope \cap Vigente /\ Defines[text[f]] # NoSymbol
                     THEN text[f] ELSE NoText]

Discover(scope, dry) ==
    /\ phase = "idle" /\ Len(runs) < MaxRuns
    /\ job' = [id |-> 0, whole |-> scope = Files, dry |-> dry, found |-> Sources(scope),
               status |-> "running"]
    /\ phase' = "discovered" /\ dirty' = FALSE
    /\ UNCHANGED <<text, state, edits, knowledge, runs, cancelled, todo, known, seen, m>>

CancelDiscovery ==
    /\ phase = "discovered" /\ cancelled
    /\ phase' = "done" /\ job' = [job EXCEPT !.status = "interrupted"]
    /\ UNCHANGED <<corpus, knowledge, runs, cancelled, todo, known, seen, m>>

BeginRun ==
    /\ phase = "discovered" /\ ~cancelled
    /\ phase' = "extract"
    /\ IF job.dry THEN UNCHANGED <<runs, job>>
       ELSE /\ runs' = Append(runs, [status |-> "running", counters |-> NoCounters])
            /\ job' = [job EXCEPT !.id = Len(runs) + 1]
    /\ UNCHANGED <<corpus, knowledge, cancelled, todo, known, seen, m>>

FilesFound == {f \in Files : job.found[f] # NoText}

\* _symbols_from_sources: of several files with one symbol the first path gives it.
Definer(f) ==
    /\ f \in FilesFound
    /\ \A g \in FilesFound : Defines[job.found[g]] = Defines[job.found[f]] => f <= g
Extracted == {Defines[job.found[f]] : f \in FilesFound}

\* _references_from_sources: a chunk whose symbol another file gave has no source.
ReferencesFound == {x \in Reference : x[1] \in FilesFound /\ x[2] \in Refers[job.found[x[1]]]}
SourceOf(x) == IF Definer(x[1]) THEN Defines[job.found[x[1]]] ELSE NoSymbol
WrittenAs(x) == IF Kind[x[2]] \in {"dynamic", "external"} THEN Kind[x[2]] ELSE "unresolved"

Extract ==
    /\ phase = "extract"
    /\ m' = [m EXCEPT !.symbols = Cardinality(Extracted),
                      !.references = Cardinality(ReferencesFound)]
    /\ phase' = "extracted"
    /\ UNCHANGED <<corpus, knowledge, runs, cancelled, job, todo, known, seen>>

\* Closing the row of the run, and the summary.
Finish(status, counters) ==
    /\ phase' = "done" /\ job' = [job EXCEPT !.status = status] /\ m' = counters
    /\ runs' = IF job.id = 0 THEN runs
               ELSE [runs EXCEPT ![job.id] = [status |-> status, counters |-> counters]]

CancelExtraction ==
    /\ phase = "extracted" /\ cancelled
    /\ Finish("interrupted", m)
    /\ UNCHANGED <<corpus, knowledge, cancelled, todo, known, seen>>

\* From here on the cancellation token is not read again.
Persist ==
    /\ phase = "extracted" /\ ~cancelled /\ ~job.dry
    /\ phase' = "symbols" /\ todo' = {f \in Files : Definer(f)}
    /\ UNCHANGED <<corpus, knowledge, runs, cancelled, job, known, seen, m>>

------------------------------------------------------------------------------
(* relation_from_reference: which of the known symbols a reference names. *)

\* _candidate_symbols: without a qualifier, the container of the source decides.
Narrow(matches, source, catalogue) ==
    LET same == {s \in matches : Container[s] = Container[source]}
    IN IF source \in catalogue /\ Container[source] # NoContainer /\ same # {}
       THEN same ELSE matches

Matches(r, source, catalogue) ==
    LET matches == Compatible[r] \cap catalogue
    IN IF Kind[r] = "qualified" \/ source = NoSymbol THEN matches
       ELSE Narrow(matches, source, catalogue)

Decision(r, source, catalogue) ==
    LET matches == Matches(r, source, catalogue)
    IN IF Kind[r] \in {"dynamic", "external"}
       THEN [status |-> Kind[r], target |-> NoSymbol, among |-> {}]
       ELSE IF matches = {} THEN [status |-> "unresolved", target |-> NoSymbol, among |-> {}]
       ELSE IF Cardinality(matches) = 1
       THEN [status |-> "resolved", target |-> CHOOSE s \in matches : TRUE, among |-> {}]
       ELSE [status |-> "ambiguous", target |-> NoSymbol, among |-> matches]

Count(rows, catalogue, which) ==
    Cardinality({x \in DOMAIN rows : Decision(x[2], rows[x], catalogue).status \in which})

\* rows: the source of every reference to resolve.
Resolved(rows, catalogue) ==
    [m EXCEPT !.resolved = Count(rows, catalogue, {"resolved"}),
              !.ambiguous = Count(rows, catalogue, {"ambiguous"}),
              !.unresolved = Count(rows, catalogue, {"unresolved", "dynamic", "external"})]

\* A dry run resolves what it extracted against what it extracted.
DryRun ==
    /\ phase = "extracted" /\ ~cancelled /\ job.dry
    /\ Finish("completed", Resolved([x \in ReferencesFound |-> SourceOf(x)], Extracted))
    /\ UNCHANGED <<corpus, knowledge, cancelled, todo, known, seen>>

------------------------------------------------------------------------------
(* Persistence: one commit per symbol and per reference.  A row that names a *)
(* chunk or a symbol that is gone violates a foreign key.                    *)

ChunkExists(f, t) == t # NoText /\ text[f] = t
SymbolExists(s) == s # NoSymbol => Lives(s)

NextFile(f) == f \in todo /\ \A g \in todo : f <= g
Before(x, y) == x[1] < y[1] \/ (x[1] = y[1] /\ x[2] <= y[2])
NextReference(x) == x \in todo /\ \A y \in todo : Before(x, y)

UpsertSymbol(f) ==
    /\ phase = "symbols" /\ NextFile(f) /\ ChunkExists(f, job.found[f])
    /\ symbols' = [symbols EXCEPT ![Defines[job.found[f]]] =
          [run |-> job.id, file |-> f, chunk |-> job.found[f], status |-> "active"]]
    /\ todo' = todo \ {f}
    /\ UNCHANGED <<corpus, references, relations, candidates, runs, phase, cancelled, job,
                   known, seen, m>>

SymbolsDone ==
    /\ phase = "symbols" /\ todo = {}
    /\ phase' = "references" /\ todo' = ReferencesFound
    /\ UNCHANGED <<corpus, knowledge, runs, cancelled, job, known, seen, m>>

UpsertReference(x) ==
    /\ phase = "references" /\ NextReference(x)
    /\ ChunkExists(x[1], job.found[x[1]]) /\ SymbolExists(SourceOf(x))
    /\ references' = [references EXCEPT ![x] =
          [run |-> job.id, source |-> SourceOf(x), chunk |-> job.found[x[1]],
           status |-> WrittenAs(x)]]
    /\ todo' = todo \ {x}
    /\ UNCHANGED <<corpus, symbols, relations, candidates, runs, phase, cancelled, job,
                   known, seen, m>>

ReferencesDone ==
    /\ phase = "references" /\ todo = {}
    /\ phase' = "scope"
    /\ UNCHANGED <<corpus, knowledge, runs, cancelled, job, todo, known, seen, m>>

Obsolete(x) ==
    x[1] \in FilesFound /\ references[x].run # 0 /\ references[x].run # job.id
Outdated(s) ==
    /\ Lives(s) /\ symbols[s].file \in FilesFound
    /\ symbols[s].run # job.id /\ symbols[s].status = "active"

\* Mutant: relations are left to the cascade of their references.
SupersededForgotten(y) == relations[y].run # 0 /\ Obsolete(y[1])
Superseded(y) ==
    /\ y[1][1] \in FilesFound /\ relations[y].status = "active"
    /\ relations[y].run # job.id

\* reconcile_analysis_scope, in one transaction; deleting a reference deletes its
\* relations, and their candidates.
ReconcileScope ==
    /\ phase = "scope"
    /\ symbols' = [s \in Symbols |-> IF Outdated(s)
                                     THEN [symbols[s] EXCEPT !.status = "stale"]
                                     ELSE symbols[s]]
    /\ references' = [x \in Reference |-> IF Obsolete(x) THEN NoReferenceRow
                                          ELSE references[x]]
    /\ relations' = [y \in Relation |->
          IF Obsolete(y[1]) THEN NoRelationRow
          ELSE IF Superseded(y) THEN [relations[y] EXCEPT !.status = "stale"]
          ELSE relations[y]]
    /\ candidates' = [y \in Relation |-> IF Obsolete(y[1]) THEN {} ELSE candidates[y]]
    /\ phase' = "deleted"
    /\ UNCHANGED <<corpus, runs, cancelled, job, todo, known, seen, m>>

\* reconcile_deleted_files looks at every file, whatever the scope.
ReconcileDeleted ==
    /\ phase = "deleted"
    /\ symbols' = [s \in Symbols |->
          IF Lives(s) /\ state[symbols[s].file] = "deleted"
          THEN [symbols[s] EXCEPT !.status = "deleted"] ELSE symbols[s]]
    /\ references' = [x \in Reference |->
          IF state[x[1]] = "deleted" THEN [references[x] EXCEPT !.status = "unresolved"]
          ELSE references[x]]
    /\ relations' = [y \in Relation |->
          IF state[y[1][1]] = "deleted" THEN [relations[y] EXCEPT !.status = "stale"]
          ELSE relations[y]]
    /\ phase' = "catalogue"
    /\ UNCHANGED <<corpus, candidates, runs, cancelled, job, todo, known, seen, m>>

------------------------------------------------------------------------------
(* _resolve_references: every current reference, of every file. *)

Active == {s \in Symbols : Lives(s) /\ symbols[s].status = "active"}

ReadSymbols ==
    /\ phase = "catalogue"
    /\ known' = Active
    /\ phase' = "pending"
    /\ UNCHANGED <<corpus, knowledge, runs, cancelled, job, todo, seen, m>>

\* active_references joins the chunk of the reference and the rule of vigencia.
Current(x) == references[x].chunk # NoText /\ x[1] \in Vigente

\* Mutant: only the references of the scope are resolved again.
PendingInScope == {x \in Reference : Current(x) /\ x[1] \in FilesFound}

Pending == {x \in Reference : Current(x)}

ReadReferences ==
    /\ phase = "pending"
    /\ seen' = references /\ todo' = Pending
    /\ m' = [Resolved([x \in Pending |-> references[x].source], known)
                EXCEPT !.references = Cardinality(Pending)]
    /\ phase' = "relation"
    /\ UNCHANGED <<corpus, knowledge, runs, cancelled, job, known>>

Decided(x) == Decision(x[2], seen[x].source, known)
RelationOf(x) == <<x, Decided(x).target>>
RowsExist(x) ==
    ChunkExists(x[1], seen[x].chunk) /\ SymbolExists(seen[x].source)

UpsertRelation(x) ==
    /\ phase = "relation" /\ NextReference(x) /\ Decided(x).status # "unresolved"
    /\ RowsExist(x) /\ SymbolExists(Decided(x).target)
    /\ relations' = [relations EXCEPT ![RelationOf(x)] =
          [run |-> job.id, source |-> seen[x].source, target |-> Decided(x).target,
           chunk |-> seen[x].chunk, resolution |-> Decided(x).status, status |-> "active"]]
    /\ phase' = "candidates"
    /\ UNCHANGED <<corpus, symbols, references, candidates, runs, cancelled, job, todo,
                   known, seen, m>>

ReplaceCandidates(x) ==
    /\ phase = "candidates" /\ NextReference(x)
    /\ \A s \in Decided(x).among : Lives(s)
    /\ candidates' = [candidates EXCEPT ![RelationOf(x)] = Decided(x).among]
    /\ phase' = "reference"
    /\ UNCHANGED <<corpus, symbols, references, relations, runs, cancelled, job, todo,
                   known, seen, m>>

\* The reference as it was read, with its new status.  Without a decision the
\* relations it had are left as they are.
UpdateReference(x) ==
    /\ \/ phase = "reference" /\ NextReference(x)
       \/ phase = "relation" /\ NextReference(x) /\ Decided(x).status = "unresolved"
    /\ RowsExist(x)
    /\ references' = [references EXCEPT ![x] =
          [run |-> job.id, source |-> seen[x].source, chunk |-> seen[x].chunk,
           status |-> Decided(x).status]]
    /\ todo' = todo \ {x} /\ phase' = "relation"
    /\ UNCHANGED <<corpus, symbols, relations, candidates, runs, cancelled, job, known,
                   seen, m>>

FinishRun ==
    /\ phase = "relation" /\ todo = {}
    /\ Finish("completed", m)
    /\ UNCHANGED <<corpus, knowledge, cancelled, todo, known, seen>>

Return ==
    /\ phase \in {"done", "aborted"}
    /\ Exit
    /\ UNCHANGED <<corpus, knowledge, runs>>

------------------------------------------------------------------------------
(* Ctrl+C, rejected rows, failures of SQLite, and death. *)

Cancel ==
    /\ phase \notin {"idle", "done", "aborted"} /\ ~cancelled
    /\ cancelled' = TRUE
    /\ UNCHANGED <<corpus, knowledge, runs, phase, job, todo, known, seen, m>>

\* Mutant: a rejected row is waited for.
RejectedWaits == phase = "none"

\* IntegrityError: nothing catches it, the row of the run stays "running".
Rejected ==
    \/ \E f \in Files : phase = "symbols" /\ NextFile(f) /\ ~ChunkExists(f, job.found[f])
    \/ \E x \in Reference :
          /\ phase = "references" /\ NextReference(x)
          /\ ~(ChunkExists(x[1], job.found[x[1]]) /\ SymbolExists(SourceOf(x)))
    \/ \E x \in Reference :
          /\ phase \in {"relation", "reference"} /\ NextReference(x)
          /\ ~(RowsExist(x) /\ (phase = "relation" => SymbolExists(Decided(x).target)))
    \/ \E x \in Reference :
          /\ phase = "candidates" /\ NextReference(x)
          /\ \E s \in Decided(x).among : ~Lives(s)

Abort ==
    /\ phase' = "aborted" /\ todo' = {}
    /\ UNCHANGED <<corpus, knowledge, runs, cancelled, job, known, seen, m>>

ForeignKeyViolated == Rejected /\ Abort

\* Any access to the database: extraction makes none.
DatabaseFault ==
    /\ DbFaults /\ phase \notin {"idle", "extract", "done", "aborted"}
    /\ Abort

Crash ==
    /\ Crashes /\ phase # "idle"
    /\ Exit
    /\ UNCHANGED <<corpus, knowledge, runs>>

------------------------------------------------------------------------------
Ingest ==
    \E f \in Files :
        \/ \E t \in Texts : IngestDocument(f, t)
        \/ IngestFailure(f)
        \/ \E how \in {"skipped", "deleted"} : IngestRemoval(f, how)

Start == \E scope \in Prefixes \cup {Files}, dry \in BOOLEAN : Discover(scope, dry)

Program ==
    \/ CancelDiscovery \/ BeginRun \/ Extract \/ CancelExtraction \/ DryRun \/ Persist
    \/ \E f \in Files : UpsertSymbol(f)
    \/ SymbolsDone
    \/ \E x \in Reference : UpsertReference(x)
    \/ ReferencesDone \/ ReconcileScope \/ ReconcileDeleted \/ ReadSymbols \/ ReadReferences
    \/ \E x \in Reference : UpsertRelation(x) \/ ReplaceCandidates(x) \/ UpdateReference(x)
    \/ ForeignKeyViolated \/ FinishRun \/ Return

Next == Ingest \/ Start \/ Program \/ Cancel \/ DatabaseFault \/ Crash

Spec == Init /\ [][Next]_vars

\* The process executes sequentially and no call of it blocks for good.
FairSpec == Spec /\ WF_vars(Program)

------------------------------------------------------------------------------
(* Properties *)

TypeOK ==
    /\ text \in [Files -> TextOrNone] /\ state \in [Files -> FileState]
    /\ edits \in 0..MaxEdits /\ dirty \in BOOLEAN
    /\ symbols \in [Symbols -> SymbolRow]
    /\ references \in [Reference -> ReferenceRow]
    /\ relations \in [Relation -> RelationRow]
    /\ candidates \in [Relation -> SUBSET Symbols]
    /\ runs \in Seq([status : RunStatus, counters : Counters])
    /\ phase \in Phase /\ cancelled \in BOOLEAN
    /\ job \in [id : 0..Len(runs), whole : BOOLEAN, dry : BOOLEAN,
               found : [Files -> TextOrNone], status : RunStatus]
    /\ IF phase = "symbols" THEN todo \subseteq Files ELSE todo \subseteq Reference
    /\ known \in SUBSET Symbols /\ seen \in [Reference -> ReferenceRow] /\ m \in Counters

\* Nothing is published for a text that is no longer there, although the texts were
\* read long before the rows are written and ingestion may commit in between: a
\* symbol is in the document of its file, a reference that has its chunk is in it too.
PublishedIsInText ==
    /\ \A s \in Symbols : Lives(s) =>
          /\ text[symbols[s].file] = symbols[s].chunk
          /\ Defines[symbols[s].chunk] = s
    /\ \A x \in Reference : references[x].chunk # NoText =>
          text[x[1]] = references[x].chunk /\ x[2] \in Refers[text[x[1]]]

Completed == phase = "done" /\ job.status = "completed" /\ ~job.dry /\ ~dirty

\* Whatever its scope, a completed run resolves the current references of every file
\* again: each agrees with the symbols that are active now, and where it has a
\* relation of this run it is the only one, with its target and its candidates.
ResolutionIsGlobal ==
    Completed => \A x \in Reference : Current(x) =>
        LET now == Decision(x[2], references[x].source, Active)
            own == {y \in Relation : y[1] = x /\ relations[y].run = job.id}
        IN /\ references[x].status = now.status
           /\ own = IF now.status = "unresolved" THEN {} ELSE {<<x, now.target>>}
           /\ \A y \in own : /\ relations[y].status = "active"
                             /\ relations[y].target = now.target
                             /\ candidates[y] = now.among

Written == {f \in Vigente : Defines[text[f]] # NoSymbol}

\* The counters of a completed run are those of the tables it leaves.
CountersMatchTables ==
    /\ m.symbols = Cardinality({s \in Active : symbols[s].file \in Vigente})
    /\ m.references = Cardinality(Pending)
    /\ \A which \in {"resolved", "ambiguous"} :
          m[which] = Cardinality({x \in Pending : references[x].status = which})

\* A completed run without --path leaves the knowledge of the current files equal to
\* what their texts say, whatever earlier runs, deaths and commits of ingestion left:
\* the symbols, the references, no active relation but the ones of this run, and its
\* counters.
CompletedRunMirrorsTexts ==
    (Completed /\ job.whole) =>
        /\ \A f \in Written : Lives(Defines[text[f]])
              /\ symbols[Defines[text[f]]].status = "active"
        /\ \A s \in Active : symbols[s].file \in Vigente => \A f \in Written :
              Defines[text[f]] = s => symbols[s].file <= f
        /\ \A x \in Reference : x[1] \in Written =>
              (references[x].run # 0 <=> x[2] \in Refers[text[x[1]]])
        /\ \A y \in Relation : (y[1][1] \in Written /\ relations[y].status = "active")
              => relations[y].run = job.id
        /\ CountersMatchTables

\* An interruption publishes no partial result (data-driven-configuration.md:478):
\* no row carries the number of a run that Ctrl+C ended.
InterruptedPublishesNothing ==
    \A n \in 1..Len(runs) : runs[n].status = "interrupted" =>
        /\ \A s \in Symbols : symbols[s].run # n
        /\ \A x \in Reference : references[x].run # n
        /\ \A y \in Relation : relations[y].run # n

\* What the tables publish is in the texts, and comes from a run that was not cut short.
PublishedIsTrue == PublishedIsInText /\ InterruptedPublishesNothing

\* Every run that starts comes to an end, whatever fails in it.  Its row may stay
\* "running", for no handler closes a run that failed.
RunEnds == phase # "idle" ~> phase = "idle"

\* The statement below is what the documentation says and the code does not do.

\* data-driven-configuration.md:471: with --path, what is known of other files does
\* not change.
ScopedRunKeepsOthers ==
    [][\A s \in Active :
          (phase = "symbols" /\ phase' = "symbols" /\ ~job.whole /\ ~dirty)
              => (symbols[s].file \in FilesFound \/ symbols'[s] = symbols[s])]_vars
==============================================================================
