------------------------- MODULE SemanticIndexProofs -------------------------
(***************************************************************************)
(* What indexing guarantees for every corpus, number of runs and            *)
(* interleaving of ingestion, cancellations, provider and database failures *)
(* and crashes, with one indexer at a time.                                 *)
(***************************************************************************)
EXTENDS SemanticIndex, FiniteSetTheorems, SequenceTheorems, TLAPS

------------------------------------------------------------------------------
(* Who writes each variable. *)

\* Only ingestion changes the corpus.
LEMMA CorpusStep ==
    ASSUME [Next]_vars
    PROVE  \/ UNCHANGED <<stored, current>>
           \/ \E f \in Files, d \in Documents : IngestDocument(f, d)
           \/ \E f \in Files : IngestFailure(f) \/ IngestRemoval(f)
  BY DEF Next, vars, tables, outside, corpus, Environment, Start, Program, Decide,
         Fault, ReturnSummary, ChangeModel, DiscoverChunks, CancelDiscovery,
         MakePlan, CancelPlan, DryRun, PruneOrphans, NothingToDo, CancelProbe,
         ProbeDimension, ProbeFails, CreateManifest, BeginRun, KeepChunk,
         DeleteVector, Embed, EmbedFails, MarkDeleted, UpsertVector, RecordIndexed,
         RecordRejected, RecordError, RecordErrorRejected, FinishRun, Return,
         Cancel, WriteFails, DeleteFails, DatabaseFault, Crash

\* The model behind the provider, and the bounds.
LEMMA ModelStep ==
    ASSUME [Next]_vars
    PROVE  \/ UNCHANGED dim
           \/ \E x \in Models, d \in Dims : ChangeModel(x, d)
  BY DEF Next, vars, tables, outside, Environment, Start, Program, Decide, Fault,
         ReturnSummary, IngestDocument, IngestFailure, IngestRemoval,
         DiscoverChunks, CancelDiscovery, MakePlan, CancelPlan, DryRun,
         PruneOrphans, NothingToDo, CancelProbe, ProbeDimension, ProbeFails,
         CreateManifest, BeginRun, KeepChunk, DeleteVector, Embed, EmbedFails,
         MarkDeleted, UpsertVector, RecordIndexed, RecordRejected, RecordError,
         RecordErrorRejected, FinishRun, Return, Cancel, WriteFails, DeleteFails,
         DatabaseFault, Crash

\* Changes are counted within their bound.
LEMMA EditStep ==
    ASSUME [Next]_vars
    PROVE  \/ UNCHANGED edits
           \/ Edit
  BY DEF Next, vars, tables, outside, Environment, Start, Program, Decide, Fault,
         ReturnSummary, IngestDocument, IngestFailure, IngestRemoval, ChangeModel,
         DiscoverChunks, CancelDiscovery, MakePlan, CancelPlan, DryRun,
         PruneOrphans, NothingToDo, CancelProbe, ProbeDimension, ProbeFails,
         CreateManifest, BeginRun, KeepChunk, DeleteVector, Embed, EmbedFails,
         MarkDeleted, UpsertVector, RecordIndexed, RecordRejected, RecordError,
         RecordErrorRejected, FinishRun, Return, Cancel, WriteFails, DeleteFails,
         DatabaseFault, Crash

\* The auxiliary flag is a flag.
LEMMA DirtyStep ==
    ASSUME [Next]_vars
    PROVE  \/ UNCHANGED dirty
           \/ dirty' \in BOOLEAN
  BY DEF Next, vars, tables, outside, corpus, Environment, Start, Program, Decide,
         Fault, ReturnSummary, IngestDocument, IngestFailure, IngestRemoval,
         ChangeModel, DiscoverChunks, CancelDiscovery, MakePlan, CancelPlan, DryRun,
         PruneOrphans, NothingToDo, CancelProbe, ProbeDimension, ProbeFails,
         CreateManifest, BeginRun, KeepChunk, DeleteVector, Embed, EmbedFails,
         MarkDeleted, UpsertVector, RecordIndexed, RecordRejected, RecordError,
         RecordErrorRejected, FinishRun, Return, Cancel, WriteFails, DeleteFails,
         DatabaseFault, Crash

\* A manifest is written by one action.
LEMMA ManifestsStep ==
    ASSUME [Next]_vars
    PROVE  \/ UNCHANGED manifests
           \/ CreateManifest
  BY DEF Next, vars, tables, outside, Environment, Start, Program, Decide, Fault,
         ReturnSummary, IngestDocument, IngestFailure, IngestRemoval, ChangeModel,
         DiscoverChunks, CancelDiscovery, MakePlan, CancelPlan, DryRun,
         PruneOrphans, NothingToDo, CancelProbe, ProbeDimension, ProbeFails,
         BeginRun, KeepChunk, DeleteVector, Embed, EmbedFails, MarkDeleted,
         UpsertVector, RecordIndexed, RecordRejected, RecordError,
         RecordErrorRejected, FinishRun, Return, Cancel, WriteFails, DeleteFails,
         DatabaseFault, Crash

\* Rows of chunk_embeddings change by cascade or at the end of a decision.
LEMMA StatesStep ==
    ASSUME [Next]_vars
    PROVE  \/ UNCHANGED states
           \/ \E f \in Files : states' = Cascade(f)
           \/ MarkDeleted \/ RecordIndexed \/ RecordError
  BY DEF Next, vars, tables, outside, Environment, Start, Program, Decide, Fault,
         ReturnSummary, IngestDocument, IngestFailure, IngestRemoval, ChangeModel,
         DiscoverChunks, CancelDiscovery, MakePlan, CancelPlan, DryRun,
         PruneOrphans, NothingToDo, CancelProbe, ProbeDimension, ProbeFails,
         CreateManifest, BeginRun, KeepChunk, DeleteVector, Embed, EmbedFails,
         UpsertVector, RecordRejected, RecordErrorRejected, FinishRun, Return,
         Cancel, WriteFails, DeleteFails, DatabaseFault, Crash

\* Vectors are written by the indexer alone.
LEMMA VectorsStep ==
    ASSUME [Next]_vars
    PROVE  \/ UNCHANGED vectors
           \/ PruneOrphans \/ UpsertVector
           \/ \E c \in Chunks : DeleteVector(c)
  BY DEF Next, vars, tables, outside, Environment, Start, Program, Decide, Fault,
         ReturnSummary, IngestDocument, IngestFailure, IngestRemoval, ChangeModel,
         DiscoverChunks, CancelDiscovery, MakePlan, CancelPlan, DryRun, NothingToDo,
         CancelProbe, ProbeDimension, ProbeFails, CreateManifest, BeginRun,
         KeepChunk, Embed, EmbedFails, MarkDeleted, RecordIndexed, RecordRejected,
         RecordError, RecordErrorRejected, FinishRun, Return, Cancel, WriteFails,
         DeleteFails, DatabaseFault, Crash

\* A run is opened once and closed once.
LEMMA RunsStep ==
    ASSUME [Next]_vars
    PROVE  \/ UNCHANGED runs
           \/ BeginRun \/ FinishRun
  BY DEF Next, vars, tables, outside, Environment, Start, Program, Decide, Fault,
         ReturnSummary, IngestDocument, IngestFailure, IngestRemoval, ChangeModel,
         DiscoverChunks, CancelDiscovery, MakePlan, CancelPlan, DryRun,
         PruneOrphans, NothingToDo, CancelProbe, ProbeDimension, ProbeFails,
         CreateManifest, KeepChunk, DeleteVector, Embed, EmbedFails, MarkDeleted,
         UpsertVector, RecordIndexed, RecordRejected, RecordError,
         RecordErrorRejected, Return, Cancel, WriteFails, DeleteFails,
         DatabaseFault, Crash

\* What the process knows of its run.
LEMMA JobStep ==
    ASSUME [Next]_vars
    PROVE  \/ UNCHANGED job
           \/ Exit
           \/ \E status \in RunStatus : job' = [job EXCEPT !.status = status]
           \/ Start \/ MakePlan \/ ProbeDimension \/ BeginRun
  BY DEF Next, vars, tables, outside, process, RunStatus, FinalStatus, Environment,
         Start, Program, Decide, Fault, ReturnSummary, IngestDocument,
         IngestFailure, IngestRemoval, ChangeModel, CancelDiscovery, CancelPlan,
         DryRun, PruneOrphans, NothingToDo, CancelProbe, ProbeFails, CreateManifest,
         KeepChunk, DeleteVector, Embed, EmbedFails, MarkDeleted, UpsertVector,
         RecordIndexed, RecordRejected, RecordError, RecordErrorRejected, FinishRun,
         Return, Cancel, WriteFails, DeleteFails, DatabaseFault, Crash

\* A plan is made, shortened or dropped.
LEMMA PlanStep ==
    ASSUME [Next]_vars
    PROVE  \/ UNCHANGED plan
           \/ plan' = NoPlan
           \/ MakePlan \/ CreateManifest
           \/ \E c : Done(c)
  BY DEF Next, vars, tables, outside, process, Exit, Environment, Start, Program,
         Decide, Fault, ReturnSummary, IngestDocument, IngestFailure, IngestRemoval,
         ChangeModel, DiscoverChunks, CancelDiscovery, CancelPlan, DryRun,
         PruneOrphans, NothingToDo, CancelProbe, ProbeDimension, ProbeFails,
         BeginRun, KeepChunk, DeleteVector, Embed, EmbedFails, MarkDeleted,
         UpsertVector, RecordIndexed, RecordRejected, RecordError,
         RecordErrorRejected, FinishRun, Return, Cancel, WriteFails, DeleteFails,
         DatabaseFault, Crash

\* The chunk being handled.
LEMMA ItemStep ==
    ASSUME [Next]_vars
    PROVE  \/ UNCHANGED item
           \/ item' = NoItem
           \/ \E c \in Chunks : item' = [chunk |-> c, dim |-> NoDim] \/ Embed(c)
  BY DEF Next, vars, tables, outside, process, Exit, Environment, Start, Program,
         Decide, Fault, ReturnSummary, IngestDocument, IngestFailure, IngestRemoval,
         ChangeModel, DiscoverChunks, CancelDiscovery, MakePlan, CancelPlan, DryRun,
         PruneOrphans, NothingToDo, CancelProbe, ProbeDimension, ProbeFails,
         CreateManifest, BeginRun, KeepChunk, DeleteVector, EmbedFails, MarkDeleted,
         UpsertVector, RecordIndexed, RecordRejected, RecordError,
         RecordErrorRejected, FinishRun, Return, Cancel, WriteFails, DeleteFails,
         DatabaseFault, Crash

\* Counters only grow, or vanish with the process.
LEMMA CountersStep ==
    ASSUME [Next]_vars
    PROVE  \/ UNCHANGED m
           \/ m' = NoCounters
           \/ \E field \in {"new", "updated", "unchanged", "deleted", "failed"} : Count(field)
  BY DEF Next, vars, tables, outside, process, Exit, Environment, Start, Program,
         Decide, Fault, ReturnSummary, IngestDocument, IngestFailure, IngestRemoval,
         ChangeModel, DiscoverChunks, CancelDiscovery, MakePlan, CancelPlan, DryRun,
         PruneOrphans, NothingToDo, CancelProbe, ProbeDimension, ProbeFails,
         CreateManifest, BeginRun, KeepChunk, DeleteVector, Embed, EmbedFails,
         MarkDeleted, UpsertVector, RecordIndexed, RecordRejected, RecordError,
         RecordErrorRejected, FinishRun, Return, Cancel, WriteFails, DeleteFails,
         DatabaseFault, Crash

\* The token is a flag.
LEMMA CancelStep ==
    ASSUME [Next]_vars
    PROVE  \/ UNCHANGED cancelled
           \/ cancelled' \in BOOLEAN
  BY DEF Next, vars, tables, outside, process, Exit, Environment, Start, Program,
         Decide, Fault, ReturnSummary, IngestDocument, IngestFailure, IngestRemoval,
         ChangeModel, DiscoverChunks, CancelDiscovery, MakePlan, CancelPlan, DryRun,
         PruneOrphans, NothingToDo, CancelProbe, ProbeDimension, ProbeFails,
         CreateManifest, BeginRun, KeepChunk, DeleteVector, Embed, EmbedFails,
         MarkDeleted, UpsertVector, RecordIndexed, RecordRejected, RecordError,
         RecordErrorRejected, FinishRun, Return, Cancel, WriteFails, DeleteFails,
         DatabaseFault, Crash

\* The phases are the named ones.
LEMMA PhaseStep ==
    ASSUME [Next]_vars
    PROVE  \/ UNCHANGED phase
           \/ phase' \in Phase
  BY DEF Next, vars, tables, outside, process, Exit, Phase, Environment, Start,
         Program, Decide, Fault, ReturnSummary, IngestDocument, IngestFailure,
         IngestRemoval, ChangeModel, DiscoverChunks, CancelDiscovery, MakePlan,
         CancelPlan, DryRun, PruneOrphans, NothingToDo, CancelProbe, ProbeDimension,
         ProbeFails, CreateManifest, BeginRun, KeepChunk, DeleteVector, Embed,
         EmbedFails, MarkDeleted, UpsertVector, RecordIndexed, RecordRejected,
         RecordError, RecordErrorRejected, FinishRun, Return, Cancel, WriteFails,
         DeleteFails, DatabaseFault, Crash

\* Only a start makes the process active.
LEMMA ActiveStep ==
    ASSUME [Next]_vars
    PROVE  \/ phase' = "idle"
           \/ phase # "idle"
           \/ Start
  BY DEF Next, vars, tables, outside, process, Exit, ReadyToBegin, IsNext, ToEmbed,
         Environment, Start, Program, Decide, Fault, ReturnSummary, IngestDocument,
         IngestFailure, IngestRemoval, ChangeModel, CancelDiscovery, MakePlan,
         CancelPlan, DryRun, PruneOrphans, NothingToDo, CancelProbe, ProbeDimension,
         ProbeFails, CreateManifest, BeginRun, KeepChunk, DeleteVector, Embed,
         EmbedFails, MarkDeleted, UpsertVector, RecordIndexed, RecordRejected,
         RecordError, RecordErrorRejected, FinishRun, Return, Cancel, WriteFails,
         DeleteFails, DatabaseFault, Crash

------------------------------------------------------------------------------
(* Types. *)

JobType == [id : 0..Len(runs), model : Models \cup {NoModel},
            mode : {"incremental", "full", "partial"}, obsolete : {"delete", "keep"},
            effect : {"write", "dry_run"}, dim : Dims \cup {NoDim},
            chunks : SUBSET Chunks, status : RunStatus]

\* A running process knows its model.
ModelInv == phase # "idle" => job.model \in Models

LEMMA InitType == Init => TypeOK
  <1> SUFFICES ASSUME Init PROVE TypeOK
    OBVIOUS
  <1>1. CorpusType
    <2>1. PICK document \in [Files -> Documents] :
                 stored = UNION {document[f] : f \in Files}
      BY DEF Init
    <2>2. stored \in SUBSET Chunks
      BY <2>1, ChunksAssumption
    <2>3. dirty \in BOOLEAN
      BY DEF Init
    <2> QED
      BY <2>2, <2>3, IndexBounds DEF Init, CorpusType
  <1>2. TablesType
    <2>1. runs \in Seq(RunRow)
      BY DEF Init
    <2>2. NoState \in State
      BY DEF NoState, State, Status
    <2> QED
      BY <2>1, <2>2 DEF Init, TablesType
  <1>3. job \in JobType
    BY DEF Init, NoJob, JobType, RunStatus
  <1>4. plan \in [Chunks -> Decisions]
    BY DEF Init, NoPlan, Decisions
  <1>5. item \in [chunk : Chunks \cup {NoChunk}, dim : Dims \cup {NoDim}]
    BY DEF Init, NoItem
  <1>6. m \in Counters
    BY DEF Init, NoCounters, Counters
  <1>7. phase \in Phase /\ cancelled \in BOOLEAN
    BY DEF Init, Phase
  <1> QED
    BY <1>1, <1>2, <1>3, <1>4, <1>5, <1>6, <1>7 DEF TypeOK, IndexerType, JobType

LEMMA CorpusKept ==
    ASSUME TypeOK, [Next]_vars
    PROVE  CorpusType'
  <1>1. CorpusType
    BY DEF TypeOK
  <1>2. stored' \in SUBSET Chunks /\ current' \in SUBSET Files
    BY <1>1, CorpusStep, ChunksAssumption
       DEF CorpusType, IngestDocument, IngestFailure, IngestRemoval
  <1>3. dim' \in [Models -> Dims]
    BY <1>1, ModelStep DEF CorpusType, ChangeModel
  <1>4. edits' \in 0..MaxEdits
    BY <1>1, EditStep, IndexBounds DEF CorpusType, Edit
  <1>5. dirty' \in BOOLEAN
    BY <1>1, DirtyStep DEF CorpusType
  <1> QED
    BY <1>2, <1>3, <1>4, <1>5 DEF CorpusType

LEMMA CascadeType ==
    ASSUME TypeOK, NEW f \in Files
    PROVE  Cascade(f) \in [Entry -> State]
  <1>1. NoState \in State
    BY DEF NoState, State, Status
  <1> QED
    BY <1>1 DEF Cascade, TypeOK, TablesType

LEMMA RowsType ==
    ASSUME TypeOK, [Next]_vars
    PROVE  states' \in [Entry -> State]
  <1>1. states \in [Entry -> State] /\ job.id \in Nat
    BY DEF TypeOK, TablesType, IndexerType
  <1>2. \A status \in Status : [status |-> status, run |-> job.id] \in State
    BY <1>1 DEF State
  <1>3. \A e, status : status \in Status =>
            [states EXCEPT ![e] = [status |-> status, run |-> job.id]] \in [Entry -> State]
    BY <1>1, <1>2
  <1>4. MarkDeleted => states' \in [Entry -> State]
    BY <1>1, <1>3 DEF MarkDeleted, MarkedRow, Status
  <1>5. RecordIndexed \/ RecordError => states' \in [Entry -> State]
    BY <1>3, ZenonT(30) DEF RecordIndexed, RecordError, Status
  <1> QED
    BY <1>1, <1>4, <1>5, CascadeType, StatesStep

LEMMA TablesKept ==
    ASSUME TypeOK, [Next]_vars
    PROVE  TablesType'
  <1>1. TablesType /\ IndexerType
    BY DEF TypeOK
  <1>2. manifests' \in [Models -> Dims \cup {NoDim}]
    BY <1>1, ManifestsStep DEF TablesType, IndexerType, CreateManifest
  <1>3. vectors' \in [Entry -> Dims \cup {NoDim}]
    BY <1>1, VectorsStep
       DEF TablesType, IndexerType, PruneOrphans, Pruned, UpsertVector, DeleteVector
  <1>4. runs' \in Seq(RunRow)
    <2>1. CASE UNCHANGED runs
      BY <1>1, <2>1 DEF TablesType
    <2>2. CASE BeginRun
      <3>1. [status |-> "running", counters |-> NoCounters] \in RunRow
        BY DEF RunRow, RunStatus, NoCounters, Counters
      <3> QED
        BY <1>1, <2>2, <3>1 DEF TablesType, BeginRun
    <2>3. CASE FinishRun
      <3>1. [status |-> FinalStatus, counters |-> m] \in RunRow
        BY <1>1 DEF RunRow, RunStatus, FinalStatus, IndexerType
      <3>2. runs' = [runs EXCEPT ![job.id] = [status |-> FinalStatus, counters |-> m]]
        BY <2>3 DEF FinishRun
      <3>3. CASE job.id \in 1..Len(runs)
        BY <1>1, <3>1, <3>2, <3>3, ExceptSeq DEF TablesType
      <3>4. CASE job.id \notin 1..Len(runs)
        <4>1. runs' = runs
          BY <1>1, <3>2, <3>4 DEF TablesType
        <4> QED
          BY <1>1, <4>1 DEF TablesType
      <3> QED
        BY <3>3, <3>4
    <2> QED
      BY <2>1, <2>2, <2>3, RunsStep
  <1> QED
    BY <1>2, <1>3, <1>4, RowsType DEF TablesType

\* No run is ever removed.
LEMMA RunsGrow ==
    ASSUME TypeOK, [Next]_vars
    PROVE  Len(runs') \in Nat /\ Len(runs') >= Len(runs)
  <1>1. runs \in Seq(RunRow)
    BY DEF TypeOK, TablesType
  <1>2. FinishRun => Len(runs') = Len(runs)
    BY <1>1 DEF FinishRun
  <1>3. BeginRun => Len(runs') = Len(runs) + 1
    BY <1>1 DEF BeginRun
  <1> QED
    BY <1>1, <1>2, <1>3, RunsStep

LEMMA JobKept ==
    ASSUME TypeOK, ModelInv, [Next]_vars
    PROVE  job' \in JobType'
  <1>1. job \in JobType /\ Len(runs) \in Nat /\ manifests \in [Models -> Dims \cup {NoDim}]
    BY DEF TypeOK, IndexerType, TablesType, JobType
  <1>2. job \in JobType'
    BY <1>1, RunsGrow DEF JobType
  <1>3. CASE Exit
    BY <1>3, RunsGrow DEF Exit, NoJob, JobType, RunStatus
  <1>4. CASE \E status \in RunStatus : job' = [job EXCEPT !.status = status]
    BY <1>2, <1>4 DEF JobType
  <1>5. CASE Start
    <2>1. PICK request \in Request, x \in Models : DiscoverChunks(request, x)
      BY <1>5 DEF Start
    <2>2. Vigente \cap request.within \in SUBSET Chunks
      BY DEF Vigente, TypeOK, CorpusType
    <2>3. /\ request.mode \in {"incremental", "full", "partial"}
          /\ request.obsolete \in {"delete", "keep"}
          /\ request.effect \in {"write", "dry_run"}
      BY DEF Request
    <2> QED
      BY <2>1, <2>2, <2>3, RunsGrow DEF DiscoverChunks, JobType, RunStatus
  <1>6. CASE MakePlan
    <2>1. manifests[job.model] \in Dims \cup {NoDim}
      BY <1>1, <1>6 DEF MakePlan, ModelInv
    <2> QED
      BY <1>2, <1>6, <2>1 DEF MakePlan, JobType
  <1>7. CASE ProbeDimension
    <2>1. dim[job.model] \in Dims \cup {NoDim}
      BY <1>7 DEF ProbeDimension, ModelInv, TypeOK, CorpusType
    <2> QED
      BY <1>2, <1>7, <2>1 DEF ProbeDimension, JobType
  <1>8. CASE BeginRun
    <2>1. Len(runs) + 1 \in 0..Len(runs')
      BY <1>1, <1>8, TypeOK DEF BeginRun, TypeOK, TablesType
    <2> QED
      BY <1>2, <1>8, <2>1 DEF BeginRun, JobType
  <1> QED
    BY <1>2, <1>3, <1>4, <1>5, <1>6, <1>7, <1>8, JobStep

LEMMA DecisionType == \A c : Decision(c) \in Decisions
  BY DEF Decision, Decisions

LEMMA ProcessKept ==
    ASSUME TypeOK, ModelInv, [Next]_vars
    PROVE  IndexerType'
  <1>1. IndexerType
    BY DEF TypeOK
  <1>2. phase' \in Phase
    BY <1>1, PhaseStep DEF IndexerType
  <1>3. cancelled' \in BOOLEAN
    BY <1>1, CancelStep DEF IndexerType
  <1>4. plan' \in [Chunks -> Decisions]
    BY <1>1, PlanStep, DecisionType
       DEF IndexerType, NoPlan, Decisions, Done, MakePlan, CreateManifest
  <1>5. item' \in [chunk : Chunks \cup {NoChunk}, dim : Dims \cup {NoDim}]
    <2>1. CASE UNCHANGED item \/ item' = NoItem
      BY <1>1, <2>1 DEF IndexerType, NoItem
    <2>2. CASE \E c \in Chunks : item' = [chunk |-> c, dim |-> NoDim]
      BY <2>2
    <2>3. CASE \E c \in Chunks : Embed(c)
      <3>1. PICK c \in Chunks : Embed(c)
        BY <2>3
      <3>2. dim[job.model] \in Dims
        BY <3>1 DEF Embed, ToEmbed, IsNext, ModelInv, TypeOK, CorpusType
      <3> QED
        BY <3>1, <3>2 DEF Embed
    <2> QED
      BY <2>1, <2>2, <2>3, ItemStep
  <1>6. m' \in Counters
    <2>1. \A field \in {"new", "updated", "unchanged", "deleted", "failed"} :
             m[field] + 1 \in Nat
      BY <1>1 DEF IndexerType, Counters
    <2>2. ASSUME NEW field \in {"new", "updated", "unchanged", "deleted", "failed"},
                 Count(field)
          PROVE  m' \in Counters
      <3>1. m \in Counters /\ m[field] + 1 \in Nat
        BY <1>1, <2>1 DEF IndexerType
      <3> QED
        BY <2>2, <3>1 DEF Count, Counters
    <2>3. NoCounters \in Counters
      BY DEF NoCounters, Counters
    <2> QED
      BY <1>1, <2>2, <2>3, CountersStep DEF IndexerType
  <1> QED
    BY <1>2, <1>3, <1>4, <1>5, <1>6, JobKept DEF IndexerType, JobType

LEMMA NextType == TypeOK /\ ModelInv /\ [Next]_vars => TypeOK' /\ ModelInv'
  <1> SUFFICES ASSUME TypeOK, ModelInv, [Next]_vars PROVE TypeOK' /\ ModelInv'
    OBVIOUS
  <1>1. TypeOK'
    BY CorpusKept, TablesKept, ProcessKept DEF TypeOK
  <1>2. ModelInv'
    <2>1. CASE phase' = "idle"
      BY <2>1 DEF ModelInv
    <2>2. CASE Start
      BY <2>2 DEF Start, DiscoverChunks, ModelInv
    <2>3. CASE phase # "idle" /\ ~Start /\ phase' # "idle"
      <3>1. job.model \in Models
        BY <2>3 DEF ModelInv
      <3>2. job'.model = job.model
        BY <2>3, <3>1, JobStep
           DEF TypeOK, IndexerType, Exit, MakePlan, ProbeDimension, BeginRun
      <3> QED
        BY <3>1, <3>2 DEF ModelInv
    <2> QED
      BY <2>1, <2>2, <2>3, ActiveStep
  <1> QED
    BY <1>1, <1>2

\* TypeOK: every table, and everything the process holds, keeps its type.
THEOREM TypeCorrect == Spec => []TypeOK
  <1>1. Init => TypeOK /\ ModelInv
    BY InitType DEF Init, ModelInv
  <1> QED
    BY <1>1, NextType, PTL DEF Spec

------------------------------------------------------------------------------
(* The dimension a run works with is the one of its manifest. *)

Working == {"begin", "loop", "mark", "upsert", "record", "fail"}

DimInv ==
    /\ phase \in {"planned", "pruned"} => job.dim = manifests[job.model]
    /\ phase = "manifest" => manifests[job.model] = NoDim /\ job.dim # NoDim
    /\ phase \in Working => manifests[job.model] = job.dim /\ job.dim # NoDim
    /\ phase = "upsert" => item.dim = job.dim

\* No chunk is handled before its run has begun.
LEMMA PhaseOrder ==
    ASSUME [Next]_vars
    PROVE  /\ phase' = "pruned" => phase \in {"planned", "pruned"}
           /\ phase' = "planned" => MakePlan \/ phase = "planned"
           /\ phase' = "manifest" => ProbeDimension \/ phase = "manifest"
           /\ phase' = "begin" => CreateManifest \/ phase = "begin"
           /\ phase' \in Working \ {"begin"} => BeginRun \/ phase \in Working \ {"begin"}
           /\ phase' = "upsert" =>
              (phase = "upsert" /\ UNCHANGED item) \/ \E c \in Chunks : Embed(c)
  <1>1. phase' = "pruned" => phase \in {"planned", "pruned"}
    BY DEF Next, vars, tables, outside, process, Exit, ReadyToBegin, IsNext, ToEmbed,
           Working, Environment, Start, Program, Decide, Fault, ReturnSummary,
           IngestDocument, IngestFailure, IngestRemoval, ChangeModel, DiscoverChunks,
           CancelDiscovery, MakePlan, CancelPlan, DryRun, PruneOrphans, NothingToDo,
           CancelProbe, ProbeDimension, ProbeFails, CreateManifest, BeginRun,
           KeepChunk, DeleteVector, Embed, EmbedFails, MarkDeleted, UpsertVector,
           RecordIndexed, RecordRejected, RecordError, RecordErrorRejected, FinishRun,
           Return, Cancel, WriteFails, DeleteFails, DatabaseFault, Crash
  <1>2. phase' = "planned" => MakePlan \/ phase = "planned"
    BY DEF Next, vars, tables, outside, process, Exit, ReadyToBegin, IsNext, ToEmbed,
           Working, Environment, Start, Program, Decide, Fault, ReturnSummary,
           IngestDocument, IngestFailure, IngestRemoval, ChangeModel, DiscoverChunks,
           CancelDiscovery, CancelPlan, DryRun, PruneOrphans, NothingToDo,
           CancelProbe, ProbeDimension, ProbeFails, CreateManifest, BeginRun,
           KeepChunk, DeleteVector, Embed, EmbedFails, MarkDeleted, UpsertVector,
           RecordIndexed, RecordRejected, RecordError, RecordErrorRejected, FinishRun,
           Return, Cancel, WriteFails, DeleteFails, DatabaseFault, Crash
  <1>3. phase' = "manifest" => ProbeDimension \/ phase = "manifest"
    BY DEF Next, vars, tables, outside, process, Exit, ReadyToBegin, IsNext, ToEmbed,
           Working, Environment, Start, Program, Decide, Fault, ReturnSummary,
           IngestDocument, IngestFailure, IngestRemoval, ChangeModel, DiscoverChunks,
           CancelDiscovery, MakePlan, CancelPlan, DryRun, PruneOrphans, NothingToDo,
           CancelProbe, ProbeFails, CreateManifest, BeginRun, KeepChunk, DeleteVector,
           Embed, EmbedFails, MarkDeleted, UpsertVector, RecordIndexed,
           RecordRejected, RecordError, RecordErrorRejected, FinishRun, Return,
           Cancel, WriteFails, DeleteFails, DatabaseFault, Crash
  <1>4. phase' = "begin" => CreateManifest \/ phase = "begin"
    BY DEF Next, vars, tables, outside, process, Exit, ReadyToBegin, IsNext, ToEmbed,
           Working, Environment, Start, Program, Decide, Fault, ReturnSummary,
           IngestDocument, IngestFailure, IngestRemoval, ChangeModel, DiscoverChunks,
           CancelDiscovery, MakePlan, CancelPlan, DryRun, PruneOrphans, NothingToDo,
           CancelProbe, ProbeDimension, ProbeFails, BeginRun, KeepChunk, DeleteVector,
           Embed, EmbedFails, MarkDeleted, UpsertVector, RecordIndexed,
           RecordRejected, RecordError, RecordErrorRejected, FinishRun, Return,
           Cancel, WriteFails, DeleteFails, DatabaseFault, Crash
  <1>5. phase' \in Working \ {"begin"} => BeginRun \/ phase \in Working \ {"begin"}
    BY DEF Next, vars, tables, outside, process, Exit, ReadyToBegin, IsNext, ToEmbed,
           Working, Environment, Start, Program, Decide, Fault, ReturnSummary,
           IngestDocument, IngestFailure, IngestRemoval, ChangeModel, DiscoverChunks,
           CancelDiscovery, MakePlan, CancelPlan, DryRun, PruneOrphans, NothingToDo,
           CancelProbe, ProbeDimension, ProbeFails, CreateManifest, KeepChunk,
           DeleteVector, Embed, EmbedFails, MarkDeleted, UpsertVector, RecordIndexed,
           RecordRejected, RecordError, RecordErrorRejected, FinishRun, Return,
           Cancel, WriteFails, DeleteFails, DatabaseFault, Crash
  <1>6. phase' = "upsert" =>
              (phase = "upsert" /\ UNCHANGED item) \/ \E c \in Chunks : Embed(c)
    BY DEF Next, vars, tables, outside, process, Exit, ReadyToBegin, IsNext, ToEmbed,
           Working, Environment, Start, Program, Decide, Fault, ReturnSummary,
           IngestDocument, IngestFailure, IngestRemoval, ChangeModel, DiscoverChunks,
           CancelDiscovery, MakePlan, CancelPlan, DryRun, PruneOrphans, NothingToDo,
           CancelProbe, ProbeDimension, ProbeFails, CreateManifest, BeginRun,
           KeepChunk, DeleteVector, EmbedFails, MarkDeleted, UpsertVector,
           RecordIndexed, RecordRejected, RecordError, RecordErrorRejected, FinishRun,
           Return, Cancel, WriteFails, DeleteFails, DatabaseFault, Crash
  <1> QED
    BY <1>1, <1>2, <1>3, <1>4, <1>5, <1>6

\* A chunk is taken from the plan and kept until its decision is carried out.
LEMMA HandleStep ==
    ASSUME [Next]_vars
    PROVE  /\ phase' \in {"upsert", "record", "fail"} =>
                 \/ phase \in {"upsert", "record", "fail"} /\ UNCHANGED <<item, plan>>
                 \/ \E c \in Chunks : Embed(c) \/ EmbedFails(c)
           /\ phase' = "mark" =>
                 \/ phase = "mark" /\ UNCHANGED <<item, plan>>
                 \/ \E c \in Chunks : DeleteVector(c)
  <1>1. phase' \in {"upsert", "record", "fail"} =>
          \/ phase \in {"upsert", "record", "fail"} /\ UNCHANGED <<item, plan>>
          \/ \E c \in Chunks : Embed(c) \/ EmbedFails(c)
    BY DEF Next, vars, tables, outside, process, Exit, ReadyToBegin, IsNext, ToEmbed,
           Environment, Start, Program, Decide, Fault, ReturnSummary, IngestDocument,
           IngestFailure, IngestRemoval, ChangeModel, DiscoverChunks, CancelDiscovery,
           MakePlan, CancelPlan, DryRun, PruneOrphans, NothingToDo, CancelProbe,
           ProbeDimension, ProbeFails, CreateManifest, BeginRun, KeepChunk,
           DeleteVector, MarkDeleted, UpsertVector, RecordIndexed, RecordRejected,
           RecordError, RecordErrorRejected, FinishRun, Return, Cancel, WriteFails,
           DeleteFails, DatabaseFault, Crash
  <1>2. phase' = "mark" =>
          \/ phase = "mark" /\ UNCHANGED <<item, plan>>
          \/ \E c \in Chunks : DeleteVector(c)
    BY DEF Next, vars, tables, outside, process, Exit, ReadyToBegin, IsNext, ToEmbed,
           Environment, Start, Program, Decide, Fault, ReturnSummary, IngestDocument,
           IngestFailure, IngestRemoval, ChangeModel, DiscoverChunks, CancelDiscovery,
           MakePlan, CancelPlan, DryRun, PruneOrphans, NothingToDo, CancelProbe,
           ProbeDimension, ProbeFails, CreateManifest, BeginRun, KeepChunk, Embed,
           EmbedFails, MarkDeleted, UpsertVector, RecordIndexed, RecordRejected,
           RecordError, RecordErrorRejected, FinishRun, Return, Cancel, WriteFails,
           DeleteFails, DatabaseFault, Crash
  <1> QED
    BY <1>1, <1>2

\* Within a run only these steps change what the process knows of it.
LEMMA JobSame ==
    ASSUME [Next]_vars, phase' \notin {"idle", "discovered", "done"}
    PROVE  UNCHANGED job \/ MakePlan \/ ProbeDimension \/ BeginRun
  BY DEF Next, vars, tables, outside, process, Exit, ReadyToBegin, IsNext, ToEmbed,
         Environment, Start, Program, Decide, Fault, ReturnSummary, IngestDocument,
         IngestFailure, IngestRemoval, ChangeModel, DiscoverChunks, CancelDiscovery,
         CancelPlan, DryRun, PruneOrphans, NothingToDo, CancelProbe, ProbeFails,
         CreateManifest, KeepChunk, DeleteVector, Embed, EmbedFails, MarkDeleted,
         UpsertVector, RecordIndexed, RecordRejected, RecordError,
         RecordErrorRejected, FinishRun, Return, Cancel, WriteFails, DeleteFails,
         DatabaseFault, Crash

LEMMA NextDim == TypeOK /\ ModelInv /\ DimInv /\ [Next]_vars => DimInv'
  <1> SUFFICES ASSUME TypeOK, ModelInv, DimInv, [Next]_vars PROVE DimInv'
    OBVIOUS
  <1>1. CASE MakePlan
    BY <1>1 DEF MakePlan, DimInv, Working, tables, TypeOK, IndexerType
  <1>2. CASE ProbeDimension
    <2>1. dim[job.model] # NoDim
      BY <1>2, DimsAssumption DEF ProbeDimension, ModelInv, TypeOK, CorpusType
    <2> QED
      BY <1>2, <2>1
         DEF ProbeDimension, DimInv, Working, tables, TypeOK, IndexerType
  <1>3. CASE CreateManifest
    BY <1>3 DEF CreateManifest, DimInv, ModelInv, Working, TypeOK, TablesType
  <1>4. CASE BeginRun
    BY <1>4 DEF BeginRun, ReadyToBegin, DimInv, Working, TypeOK, IndexerType
  <1>5. CASE \E c \in Chunks : Embed(c)
    BY <1>5 DEF Embed, ToEmbed, IsNext, FitsManifest, DimInv, Working, tables
  <1>6. CASE /\ ~MakePlan /\ ~ProbeDimension /\ ~CreateManifest /\ ~BeginRun
             /\ ~\E c \in Chunks : Embed(c)
    <2>1. UNCHANGED manifests
      BY <1>6, ManifestsStep
    <2>2. phase' \notin {"idle", "discovered", "done"} => UNCHANGED job
      BY <1>6, JobSame
    <2> QED
      BY <1>6, <2>1, <2>2, PhaseOrder DEF DimInv, Working
  <1> QED
    BY <1>1, <1>2, <1>3, <1>4, <1>5, <1>6

------------------------------------------------------------------------------
(* What the plan says of its chunks. *)

PlanInv ==
    /\ \A c \in Chunks :
          /\ plan[c] \in {"new", "update", "unchanged"} => c \in job.chunks
          /\ plan[c] = "delete" => c \notin job.chunks /\ job.obsolete = "delete"
    /\ phase \in {"upsert", "record", "fail"} =>
          item.chunk \in Chunks /\ plan[item.chunk] \in {"new", "update"}
    /\ phase = "mark" => item.chunk \in Chunks /\ plan[item.chunk] = "delete"
    /\ phase \in {"idle", "discovered"} => plan = NoPlan

LEMMA NextPlan == TypeOK /\ PlanInv /\ [Next]_vars => PlanInv'
  <1> SUFFICES ASSUME TypeOK, PlanInv, [Next]_vars PROVE PlanInv'
    OBVIOUS
  <1>1. phase' \in {"upsert", "record", "fail"} =>
          item'.chunk \in Chunks /\ plan'[item'.chunk] \in {"new", "update"}
    BY HandleStep DEF PlanInv, Embed, EmbedFails, ToEmbed
  <1>2. phase' = "mark" => item'.chunk \in Chunks /\ plan'[item'.chunk] = "delete"
    <2>1. ASSUME NEW c \in Chunks, DeleteVector(c)
          PROVE  item'.chunk = c /\ plan'[c] = "delete"
      BY <2>1 DEF DeleteVector
    <2>2. CASE phase = "mark" /\ UNCHANGED <<item, plan>>
      BY <2>2 DEF PlanInv
    <2> QED
      BY HandleStep, <2>1, <2>2
  <1>3. phase' \in {"idle", "discovered"} => plan' = NoPlan
    BY DEF Next, vars, tables, outside, process, Exit, ReadyToBegin, IsNext, ToEmbed,
           PlanInv, Environment, Start, Program, Decide, Fault, ReturnSummary,
           IngestDocument, IngestFailure, IngestRemoval, ChangeModel, DiscoverChunks,
           CancelDiscovery, MakePlan, CancelPlan, DryRun, PruneOrphans, NothingToDo,
           CancelProbe, ProbeDimension, ProbeFails, CreateManifest, BeginRun,
           KeepChunk, DeleteVector, Embed, EmbedFails, MarkDeleted, UpsertVector,
           RecordIndexed, RecordRejected, RecordError, RecordErrorRejected, FinishRun,
           Return, Cancel, WriteFails, DeleteFails, DatabaseFault, Crash
  <1>4. CASE Exit \/ Start
    BY <1>1, <1>2, <1>3, <1>4 DEF Exit, Start, DiscoverChunks, PlanInv, NoPlan, NoJob, DecisionType
  <1>5. CASE ~Exit /\ ~Start
    <2>1. job'.chunks = job.chunks /\ job'.obsolete = job.obsolete
      BY <1>5, JobStep DEF TypeOK, IndexerType, MakePlan, ProbeDimension, BeginRun
    <2>2. \A c \in Chunks :
             plan'[c] \in {plan[c], "none", Decision(c)}
      BY PlanStep DEF TypeOK, IndexerType, NoPlan, Done, MakePlan, CreateManifest
    <2>3. \A c \in Chunks :
             /\ Decision(c) \in {"new", "update", "unchanged"} => c \in job.chunks
             /\ Decision(c) = "delete" => c \notin job.chunks /\ job.obsolete = "delete"
      BY DEF Decision
    <2> QED
      BY <1>1, <1>2, <1>3, <2>1, <2>2, <2>3 DEF PlanInv
  <1> QED
    BY <1>4, <1>5

------------------------------------------------------------------------------
(* One dimension per collection. *)

LEMMA NextMixed ==
    ASSUME TypeOK, ModelInv, DimInv, PlanInv, NoMixedDimensions, [Next]_vars
    PROVE  NoMixedDimensions'
  <1> SUFFICES ASSUME NEW e \in Entry PROVE vectors'[e] \in {NoDim, manifests'[e[1]]}
    BY DEF NoMixedDimensions
  <1>1. vectors[e] \in {NoDim, manifests[e[1]]} /\ e[1] \in Models
    BY DEF NoMixedDimensions, Entry
  <1>2. CASE CreateManifest
    <2>1. vectors' = vectors
      BY <1>2 DEF CreateManifest
    <2>2. manifests[job.model] = NoDim
      BY <1>2 DEF CreateManifest, DimInv
    <2> QED
      BY <1>1, <1>2, <2>1, <2>2 DEF CreateManifest, TypeOK, TablesType
  <1>3. CASE manifests' = manifests
    <2>1. PruneOrphans => vectors'[e] \in {NoDim, vectors[e]}
      BY DEF PruneOrphans, Pruned
    <2>2. ASSUME NEW c \in Chunks, DeleteVector(c)
          PROVE  vectors'[e] \in {NoDim, vectors[e]}
      BY <2>2 DEF DeleteVector, TypeOK, TablesType
    <2>3. ASSUME UpsertVector
          PROVE  vectors'[e] \in {vectors[e], manifests[e[1]]}
      <3>1. vectors' = [vectors EXCEPT ![Key] = item.dim]
        BY <2>3 DEF UpsertVector
      <3>2. item.dim = manifests[job.model]
        BY <2>3 DEF UpsertVector, DimInv, Working
      <3>3. Key[1] = job.model
        BY DEF Key
      <3> QED
        BY <3>1, <3>2, <3>3 DEF TypeOK, TablesType
    <2> QED
      BY <1>1, <1>3, <2>1, <2>2, <2>3, VectorsStep
  <1> QED
    BY <1>2, <1>3, ManifestsStep

\* NoMixedDimensions: no collection ever holds vectors of two dimensions, whatever
\* versions of a model are installed while it is filled.
THEOREM OneDimension == Spec => []NoMixedDimensions
  <1>1. Init => TypeOK /\ ModelInv /\ DimInv /\ PlanInv /\ NoMixedDimensions
    BY InitType DEF Init, ModelInv, DimInv, Working, PlanInv, NoPlan, NoMixedDimensions
  <1>2. TypeOK /\ ModelInv /\ DimInv /\ PlanInv /\ NoMixedDimensions /\ [Next]_vars
            => (TypeOK /\ ModelInv /\ DimInv /\ PlanInv /\ NoMixedDimensions)'
    BY NextType, NextDim, NextPlan, NextMixed
  <1> QED
    BY <1>1, <1>2, PTL DEF Spec

------------------------------------------------------------------------------
(* The index holds what it claims. *)

\* How one row may change, and which current chunks it may belong to.
LEMMA RowStep ==
    ASSUME TypeOK, [Next]_vars, NEW e \in Entry
    PROVE  \/ states'[e] = NoState
           \/ states'[e] = states[e] /\ (e[2] \in Vigente' => e[2] \in Vigente)
           \/ e = Key /\ Vigente' = Vigente
                /\ (MarkDeleted \/ RecordIndexed \/ RecordError)
  <1>1. states \in [Entry -> State] /\ e[2] \in Chunks
    BY DEF TypeOK, TablesType, Entry
  <1>2. CASE MarkDeleted \/ RecordIndexed \/ RecordError
    <2>1. UNCHANGED <<stored, current>>
      BY <1>2 DEF MarkDeleted, RecordIndexed, RecordError, outside
    <2>2. Vigente' = Vigente
      BY <2>1 DEF Vigente
    <2>3. e # Key => states'[e] = states[e]
      BY <1>1, <1>2 DEF MarkDeleted, RecordIndexed, RecordError
    <2> QED
      BY <1>2, <2>2, <2>3
  <1>3. CASE \E f \in Files : IngestFailure(f) \/ IngestRemoval(f)
    BY <1>1, <1>3 DEF IngestFailure, IngestRemoval, Cascade, Vigente, Of, tables
  <1>4. CASE \E f \in Files, d \in Documents : IngestDocument(f, d)
    BY <1>1, <1>4 DEF IngestDocument, Cascade, Vigente, Of
  <1>5. CASE UNCHANGED <<stored, current>> /\ ~(MarkDeleted \/ RecordIndexed \/ RecordError)
    <2>1. Vigente' = Vigente
      BY <1>5 DEF Vigente
    <2>2. states'[e] = NoState \/ states'[e] = states[e]
      BY <1>1, <1>5, StatesStep DEF Cascade
    <2> QED
      BY <2>1, <2>2
  <1> QED
    BY <1>2, <1>3, <1>4, <1>5, CorpusStep

\* While a run that deletes is under way, a current chunk it did not find has come
\* back through ingestion, which left no row for it.
ObsoleteInv ==
    job.obsolete = "delete" =>
        \A e \in Entry : e[2] \in Vigente /\ e[2] \notin job.chunks
                            => states[e].status = "none"

\* Steps other than the first and the last of a run keep its request.
LEMMA RequestKept ==
    ASSUME TypeOK, [Next]_vars, ~Exit, ~Start
    PROVE  /\ job'.model = job.model /\ job'.mode = job.mode
           /\ job'.chunks = job.chunks /\ job'.obsolete = job.obsolete
  BY JobStep DEF TypeOK, IndexerType, MakePlan, ProbeDimension, BeginRun

LEMMA NextObsolete ==
    ASSUME TypeOK, PlanInv, ObsoleteInv, [Next]_vars
    PROVE  ObsoleteInv'
  <1>1. CASE Exit
    BY <1>1 DEF Exit, NoJob, ObsoleteInv
  <1>2. CASE Start
    <2>1. PICK request \in Request, x \in Models : DiscoverChunks(request, x)
      BY <1>2 DEF Start
    <2>2. request.obsolete = "delete" => request.within = Chunks
      BY DEF Request
    <2>3. Vigente' = Vigente /\ Vigente \subseteq Chunks
      BY <2>1 DEF DiscoverChunks, Vigente, TypeOK, CorpusType
    <2>4. job'.obsolete = "delete" => job'.chunks = Vigente
      BY <2>1, <2>2, <2>3 DEF DiscoverChunks
    <2> QED
      BY <2>3, <2>4 DEF ObsoleteInv
  <1>3. CASE ~Exit /\ ~Start
    <2> SUFFICES ASSUME job.obsolete = "delete", NEW e \in Entry,
                        e[2] \in Vigente', e[2] \notin job.chunks
                 PROVE  states'[e].status = "none"
      BY <1>3, RequestKept DEF ObsoleteInv
    <2>1. states[e].status = "none" \/ e[2] \notin Vigente
      BY DEF ObsoleteInv
    <2>2. CASE states'[e] = NoState
      BY <2>2 DEF NoState
    <2>3. CASE states'[e] = states[e] /\ (e[2] \in Vigente' => e[2] \in Vigente)
      BY <2>1, <2>3
    <2>4. CASE e = Key /\ Vigente' = Vigente /\ MarkDeleted
      BY <2>1, <2>4 DEF MarkDeleted
    <2>5. CASE e = Key /\ (RecordIndexed \/ RecordError)
      <3>1. e[2] = item.chunk
        BY <2>5 DEF Key
      <3> QED
        BY <2>5, <3>1 DEF RecordIndexed, RecordError, PlanInv
    <2> QED
      BY <2>2, <2>3, <2>4, <2>5, RowStep
  <1> QED
    BY <1>1, <1>2, <1>3

VectorInv ==
    /\ IndexedHasVector
    /\ phase = "record" => vectors[Key] # NoDim

\* Nothing touches a vector between its commit and the one of its row.
LEMMA RecordStep ==
    ASSUME [Next]_vars, phase' = "record"
    PROVE  UpsertVector \/ (phase = "record" /\ UNCHANGED <<job, item, vectors>>)
  BY DEF Next, vars, tables, outside, process, Exit, ReadyToBegin, IsNext, ToEmbed,
         Environment, Start, Program, Decide, Fault, ReturnSummary, IngestDocument,
         IngestFailure, IngestRemoval, ChangeModel, DiscoverChunks, CancelDiscovery,
         MakePlan, CancelPlan, DryRun, PruneOrphans, NothingToDo, CancelProbe,
         ProbeDimension, ProbeFails, CreateManifest, BeginRun, KeepChunk,
         DeleteVector, Embed, EmbedFails, MarkDeleted, RecordIndexed,
         RecordRejected, RecordError, RecordErrorRejected, FinishRun, Return,
         Cancel, WriteFails, DeleteFails, DatabaseFault, Crash

LEMMA NextVector ==
    ASSUME TypeOK, ModelInv, DimInv, PlanInv, ObsoleteInv, VectorInv, [Next]_vars
    PROVE  VectorInv'
  <1>1. vectors \in [Entry -> Dims \cup {NoDim}]
    BY DEF TypeOK, TablesType
  <1>2. UpsertVector => /\ Key \in Entry /\ item.dim # NoDim /\ Key' = Key
                        /\ vectors' = [vectors EXCEPT ![Key] = item.dim]
    BY DEF UpsertVector, ModelInv, DimInv, PlanInv, Working, Entry, Key
  <1>3. phase' = "record" => vectors'[Key'] # NoDim
    <2>1. CASE phase = "record" /\ UNCHANGED <<job, item, vectors>>
      BY <2>1 DEF VectorInv, Key
    <2>2. CASE UpsertVector
      BY <1>1, <1>2, <2>2
    <2> QED
      BY <2>1, <2>2, RecordStep
  <1>4. ASSUME NEW e \in Entry, e[2] \in Vigente', states'[e].status = "indexed"
        PROVE  vectors'[e] # NoDim
    <2>1. CASE RecordIndexed
      <3>1. vectors' = vectors
        BY <2>1 DEF RecordIndexed
      <3>2. e = Key \/ (states[e].status = "indexed" /\ e[2] \in Vigente)
        BY <1>4, RowStep DEF NoState
      <3> QED
        BY <2>1, <3>1, <3>2 DEF VectorInv, IndexedHasVector, RecordIndexed
    <2>2. CASE ~RecordIndexed
      <3>1. MarkDeleted /\ e = Key => states'[e].status # "indexed"
        BY DEF MarkDeleted, MarkedRow, TypeOK, TablesType
      <3>2. RecordError /\ e = Key => states'[e].status # "indexed"
        BY DEF RecordError, TypeOK, TablesType
      <3>3. states[e].status = "indexed" /\ e[2] \in Vigente
        BY <1>4, <2>2, <3>1, <3>2, RowStep DEF NoState
      <3>4. vectors[e] # NoDim
        BY <3>3 DEF VectorInv, IndexedHasVector
      <3>5. PruneOrphans => vectors'[e] = vectors[e]
        BY <3>3 DEF PruneOrphans, Pruned, Vigente
      <3>6. UpsertVector => vectors'[e] # NoDim
        BY <1>1, <1>2, <3>4
      <3>7. ASSUME NEW c \in Chunks, DeleteVector(c)
            PROVE  vectors'[e] = vectors[e]
        <4>1. c \notin job.chunks /\ job.obsolete = "delete"
          BY <3>7 DEF DeleteVector, PlanInv
        <4>2. e # <<job.model, c>>
          BY <3>3, <4>1 DEF ObsoleteInv
        <4> QED
          BY <1>1, <3>7, <4>2 DEF DeleteVector
      <3> QED
        BY <3>4, <3>5, <3>6, <3>7, VectorsStep
    <2> QED
      BY <2>1, <2>2
  <1> QED
    BY <1>3, <1>4 DEF VectorInv, IndexedHasVector

IndexInv ==
    TypeOK /\ ModelInv /\ DimInv /\ PlanInv /\ ObsoleteInv /\ VectorInv

LEMMA InitIndex == Init => IndexInv
  <1> SUFFICES ASSUME Init PROVE IndexInv
    OBVIOUS
  <1>1. ModelInv /\ DimInv /\ PlanInv
    BY DEF Init, ModelInv, DimInv, Working, PlanInv, NoPlan
  <1>2. ObsoleteInv
    BY DEF Init, ObsoleteInv, NoJob
  <1>3. VectorInv
    BY DEF Init, VectorInv, IndexedHasVector, NoState
  <1> QED
    BY <1>1, <1>2, <1>3, InitType DEF IndexInv

LEMMA NextIndex == IndexInv /\ [Next]_vars => IndexInv'
  BY NextType, NextDim, NextPlan, NextObsolete, NextVector DEF IndexInv

\* IndexedHasVector: a current chunk that the index records as indexed has its
\* vector, at every commit of either process.
THEOREM Searchable == Spec => []IndexedHasVector
  <1>1. IndexInv => IndexedHasVector
    BY DEF IndexInv, VectorInv
  <1> QED
    BY <1>1, InitIndex, NextIndex, PTL DEF Spec

------------------------------------------------------------------------------
(* What a step of a run may write. *)

LEMMA ScopeStep ==
    ASSUME IndexInv, [Next]_vars, NEW e \in Entry,
           vectors'[e] # vectors[e], job.obsolete = "keep"
    PROVE  e[1] = job.model /\ e[2] \in job.chunks /\ vectors'[e] # NoDim
  <1>1. ~PruneOrphans
    BY DEF PruneOrphans
  <1>2. \A c \in Chunks : ~DeleteVector(c)
    BY DEF DeleteVector, IndexInv, PlanInv
  <1>3. UpsertVector
    BY <1>1, <1>2, VectorsStep
  <1>4. item.dim # NoDim /\ item.chunk \in job.chunks
    BY <1>3 DEF UpsertVector, IndexInv, DimInv, PlanInv, Working
  <1>5. e = Key /\ vectors'[e] = item.dim
    BY <1>3 DEF UpsertVector, IndexInv, TypeOK, TablesType
  <1> QED
    BY <1>4, <1>5 DEF Key

\* OnlyScopeIsWritten: a run that may not delete writes vectors of its own scope and
\* model, and removes none.
THEOREM ScopeRespected == Spec => OnlyScopeIsWritten
  <1>1. IndexInv /\ [Next]_vars
            => [\A e \in Entry :
                  (vectors'[e] # vectors[e] /\ job.obsolete = "keep")
                    => e[1] = job.model /\ e[2] \in job.chunks /\ vectors'[e] # NoDim]_vars
    BY ScopeStep
  <1> QED
    BY <1>1, InitIndex, NextIndex, PTL DEF Spec, OnlyScopeIsWritten

\* An incremental plan leaves alone what is indexed.
RewriteInv ==
    job.mode # "full" =>
        \A c \in Chunks : plan[c] \in {"new", "update"}
            => states[<<job.model, c>>].status # "indexed"

LEMMA NextRewrite ==
    ASSUME IndexInv, RewriteInv, [Next]_vars
    PROVE  RewriteInv'
  <1> USE DEF IndexInv
  <1>1. CASE Exit \/ Start
    <2>1. plan' = NoPlan
      BY <1>1 DEF Exit, Start, DiscoverChunks, PlanInv
    <2> QED
      BY <2>1 DEF RewriteInv, NoPlan
  <1>2. CASE ~Exit /\ ~Start
    <2> SUFFICES ASSUME job.mode # "full", NEW c \in Chunks, plan'[c] \in {"new", "update"}
                 PROVE  states'[<<job.model, c>>].status # "indexed"
      BY <1>2, RequestKept DEF RewriteInv
    <2> DEFINE e == <<job.model, c>>
    <2>1. CASE MakePlan \/ CreateManifest
      <3>1. plan'[c] = Decision(c) /\ states' = states
        BY <2>1 DEF MakePlan, CreateManifest, tables
      <3> QED
        BY <3>1 DEF Decision
    <2>2. CASE ~MakePlan /\ ~CreateManifest
      <3>1. plan[c] \in {"new", "update"}
        BY <2>2, PlanStep DEF NoPlan, Done, TypeOK, IndexerType
      <3>2. states[e].status # "indexed"
        BY <3>1 DEF RewriteInv
      <3>3. CASE e \in Entry
        <4>1. ~(RecordIndexed /\ e = Key)
          <5>1. RecordIndexed => plan'[item.chunk] = "none"
            BY DEF RecordIndexed, Done, PlanInv, TypeOK, IndexerType
          <5> QED
            BY <5>1 DEF Key
        <4>2. (MarkDeleted \/ RecordError) /\ e = Key => states'[e].status # "indexed"
          BY <3>3 DEF MarkDeleted, RecordError, MarkedRow, TypeOK, TablesType
        <4> QED
          BY <3>2, <3>3, <4>1, <4>2, RowStep DEF NoState
      <3>4. CASE e \notin Entry
        <4>1. phase = "idle"
          BY <3>4 DEF ModelInv, Entry
        <4> QED
          BY <3>1, <4>1 DEF PlanInv, NoPlan
      <3> QED
        BY <3>3, <3>4
    <2> QED
      BY <2>1, <2>2
  <1> QED
    BY <1>1, <1>2

\* NoRedundantEmbedding: an incremental or partial run, also one that resumes an
\* interrupted one, asks the provider for no chunk already indexed.
THEOREM Incremental == Spec => NoRedundantEmbedding
  <1>1. Init => IndexInv /\ RewriteInv
    BY InitIndex DEF Init, RewriteInv, NoJob
  <1>2. IndexInv /\ RewriteInv /\ [Next]_vars => IndexInv' /\ RewriteInv'
    BY NextIndex, NextRewrite
  <1>3. IndexInv /\ RewriteInv /\ [Next]_vars
            => [(phase = "loop" /\ phase' = "upsert" /\ job.mode # "full")
                  => states[<<job.model, item'.chunk>>].status # "indexed"]_vars
    <2> SUFFICES ASSUME IndexInv, RewriteInv, [Next]_vars,
                        phase = "loop", phase' = "upsert", job.mode # "full"
                 PROVE  states[<<job.model, item'.chunk>>].status # "indexed"
      OBVIOUS
    <2>1. PICK c \in Chunks : Embed(c)
      BY PhaseOrder
    <2>2. item'.chunk = c /\ plan[c] \in {"new", "update"}
      BY <2>1 DEF Embed, ToEmbed
    <2> QED
      BY <2>2 DEF RewriteInv
  <1> QED
    BY <1>1, <1>2, <1>3, PTL DEF Spec, NoRedundantEmbedding

------------------------------------------------------------------------------
(* What a run leaves behind: tables that mirror the corpus, if it deletes and *)
(* completes, and counters that say what is in them, however it ends.        *)

Planned == {"planned", "pruned"} \cup Working
Swept == {"pruned", "manifest"} \cup Working
Early == {"idle", "discovered", "planned", "pruned", "manifest", "begin"}

Finished == phase = "done" /\ job.status = "completed" /\ job.effect = "write"

\* A chunk of which the plan asks nothing more has the row it should have.
Settled(c) ==
    LET e == <<job.model, c>>
    IN /\ (c \in job.chunks /\ plan[c] \in {"none", "unchanged"})
             => states[e].status = "indexed"
       /\ (c \notin job.chunks /\ plan[c] = "none")
             => \/ states[e].status = "none"
                \/ states[e].status = "deleted" /\ vectors[e] = NoDim

AllSettled == \A c \in Chunks : Settled(c)
NoOrphans == \A e \in Entry : vectors[e] # NoDim => e[2] \in stored

\* A run that deletes, and ingestion has not committed since it read the chunks.
Undisturbed == job.obsolete = "delete" /\ ~dirty

MirrorInv ==
    /\ phase \in Early => m.failed = 0
    /\ Undisturbed =>
          /\ phase # "idle" => job.chunks = Vigente
          /\ (phase \in Planned /\ m.failed = 0) => AllSettled
          /\ phase = "mark" => vectors[Key] = NoDim
          /\ phase \in Swept => NoOrphans
          /\ Finished => AllSettled /\ NoOrphans /\ plan = NoPlan

------------------------------------------------------------------------------
(* Facts shared by several steps. *)

\* What the types give the steps below.
LEMMA MirrorTypes ==
    ASSUME IndexInv
    PROVE  /\ states \in [Entry -> State] /\ vectors \in [Entry -> Dims \cup {NoDim}]
           /\ plan \in [Chunks -> Decisions] /\ m \in Counters
           /\ \A c \in Chunks : phase # "idle" => <<job.model, c>> \in Entry
  BY DEF IndexInv, TypeOK, TablesType, IndexerType, ModelInv, Entry

\* The request and the model of a run never change.
LEMMA RequestSame ==
    ASSUME IndexInv,
           \/ UNCHANGED job
           \/ \E x \in RunStatus : job' = [job EXCEPT !.status = x]
           \/ \E x : job' = [job EXCEPT !.dim = x]
           \/ \E x : job' = [job EXCEPT !.id = x]
    PROVE  /\ job'.chunks = job.chunks /\ job'.obsolete = job.obsolete
           /\ job'.model = job.model /\ job'.effect = job.effect
  BY DEF IndexInv, TypeOK, IndexerType

\* Steps that only move the process on, without finishing its run.
LEMMA MirrorKept ==
    ASSUME MirrorInv,
           UNCHANGED <<stored, current, dirty, states, vectors, plan, m>>,
           job'.chunks = job.chunks, job'.obsolete = job.obsolete,
           job'.model = job.model,
           phase = "idle" => phase' = "idle",
           phase' \in Early => phase \in Early,
           phase' \in Planned => phase \in Planned,
           phase' \in Swept => phase \in Swept,
           phase' = "mark" => phase = "mark" /\ UNCHANGED item,
           Finished' => Finished
    PROVE  MirrorInv'
  BY DEF MirrorInv, Undisturbed, AllSettled, Settled, NoOrphans, Vigente, Key

\* decide_index_plan leaves nothing out.
LEMMA DecisionSettles ==
    ASSUME plan' = [c \in Chunks |-> Decision(c)], UNCHANGED states,
           job'.chunks = job.chunks, job'.model = job.model, job.obsolete = "delete"
    PROVE  AllSettled'
  <1> SUFFICES ASSUME NEW c \in Chunks PROVE Settled(c)'
    BY DEF AllSettled
  <1>1. plan'[c] = Decision(c)
    OBVIOUS
  <1> QED
    BY <1>1 DEF Settled, Decision

------------------------------------------------------------------------------
(* One lemma per step that writes a table or the plan. *)

LEMMA MirrorDiscover ==
    ASSUME IndexInv, MirrorInv, Start
    PROVE  MirrorInv'
  <1>1. PICK request \in Request, x \in Models : DiscoverChunks(request, x)
    BY DEF Start
  <1>2. request.obsolete = "delete" => request.within = Chunks
    BY <1>1 DEF Request
  <1>3. Vigente \subseteq Chunks /\ Vigente' = Vigente
    BY <1>1 DEF DiscoverChunks, Vigente, IndexInv, TypeOK, CorpusType
  <1>4. /\ phase = "idle" /\ phase' = "discovered" /\ m' = m
        /\ job'.obsolete = request.obsolete /\ job'.chunks = Vigente \cap request.within
    BY <1>1 DEF DiscoverChunks
  <1> QED
    BY <1>2, <1>3, <1>4
       DEF MirrorInv, Undisturbed, Finished, Early, Planned, Swept, Working

LEMMA MirrorPlan ==
    ASSUME IndexInv, MirrorInv, MakePlan \/ CreateManifest
    PROVE  MirrorInv'
  <1>1. /\ job'.chunks = job.chunks /\ job'.obsolete = job.obsolete
        /\ job'.model = job.model
    BY RequestSame DEF MakePlan, CreateManifest
  <1>2. job.obsolete = "delete" => AllSettled'
    BY <1>1, DecisionSettles DEF MakePlan, CreateManifest, tables
  <1>3. /\ UNCHANGED <<stored, current, dirty, vectors, m>>
        /\ \/ phase = "discovered" /\ phase' = "planned"
           \/ phase = "manifest" /\ phase' = "begin"
    BY DEF MakePlan, CreateManifest, tables, outside
  <1> QED
    BY <1>1, <1>2, <1>3 DEF MirrorInv, Undisturbed, Finished, Early, Planned, Swept,
                            Working, NoOrphans, Vigente

LEMMA MirrorPrune ==
    ASSUME IndexInv, MirrorInv, PruneOrphans
    PROVE  MirrorInv'
  <1>1. UNCHANGED <<stored, current, dirty, job, plan, states, m>>
    BY DEF PruneOrphans, outside
  <1>2. phase = "planned" /\ phase' = "pruned"
    BY DEF PruneOrphans
  <1>3. job.obsolete = "delete" => vectors' = Pruned
    BY DEF PruneOrphans
  <1>4. \A e \in Entry : Pruned[e] \in {vectors[e], NoDim}
                            /\ (Pruned[e] # NoDim => e[2] \in stored)
    BY DEF Pruned
  <1>5. \A c \in Chunks : <<job.model, c>> \in Entry
    BY <1>2, MirrorTypes
  <1>6. Undisturbed /\ m.failed = 0 => AllSettled'
    BY <1>1, <1>2, <1>3, <1>4, <1>5
       DEF MirrorInv, Undisturbed, AllSettled, Settled, Planned
  <1>7. Undisturbed => NoOrphans'
    BY <1>1, <1>3, <1>4 DEF Undisturbed, NoOrphans
  <1> QED
    BY <1>1, <1>2, <1>6, <1>7 DEF MirrorInv, Undisturbed, Finished, Early, Vigente

LEMMA MirrorKeep ==
    ASSUME IndexInv, MirrorInv, NEW c \in Chunks, KeepChunk(c)
    PROVE  MirrorInv'
  <1>1. /\ UNCHANGED <<stored, current, dirty, job, states, vectors, phase>>
        /\ plan' = [plan EXCEPT ![c] = "none"] /\ plan[c] = "unchanged"
        /\ phase = "loop" /\ m'.failed = m.failed
    BY MirrorTypes DEF KeepChunk, outside, tables, IsNext, Done, Count, Counters
  <1>2. c \in job.chunks
    BY <1>1 DEF IndexInv, PlanInv
  <1>3. AllSettled => AllSettled'
    BY <1>1, <1>2, MirrorTypes DEF AllSettled, Settled
  <1> QED
    BY <1>1, <1>3 DEF MirrorInv, Undisturbed, Finished, Early, Planned, Swept,
                      Working, NoOrphans, Vigente

LEMMA MirrorDeleteVector ==
    ASSUME IndexInv, MirrorInv, NEW c \in Chunks, DeleteVector(c)
    PROVE  MirrorInv'
  <1>1. /\ UNCHANGED <<stored, current, dirty, job, states, plan, m>>
        /\ vectors' = [vectors EXCEPT ![<<job.model, c>>] = NoDim]
        /\ item'.chunk = c /\ phase = "loop" /\ phase' = "mark"
    BY DEF DeleteVector, outside, IsNext
  <1>2. \A e \in Entry : vectors'[e] \in {vectors[e], NoDim}
    BY <1>1, MirrorTypes
  <1>3. vectors'[Key'] = NoDim
    BY <1>1, MirrorTypes DEF Key
  <1>4. AllSettled => AllSettled'
    BY <1>1, <1>2, MirrorTypes DEF AllSettled, Settled
  <1>5. NoOrphans => NoOrphans'
    BY <1>1, <1>2 DEF NoOrphans
  <1> QED
    BY <1>1, <1>3, <1>4, <1>5 DEF MirrorInv, Undisturbed, Finished, Early, Planned,
                                  Swept, Working, Vigente

LEMMA MirrorMark ==
    ASSUME IndexInv, MirrorInv, MarkDeleted
    PROVE  MirrorInv'
  <1> DEFINE c == item.chunk
  <1>1. /\ UNCHANGED <<stored, current, dirty, job, vectors>>
        /\ plan' = [plan EXCEPT ![c] = "none"]
        /\ phase = "mark" /\ phase' = "loop" /\ m'.failed = m.failed
    BY MirrorTypes DEF MarkDeleted, outside, Done, Count, Counters
  <1>2. c \in Chunks /\ c \notin job.chunks /\ Key = <<job.model, c>> /\ Key \in Entry
    BY <1>1, MirrorTypes DEF IndexInv, PlanInv, Key
  <1>3. /\ states'[Key].status \in {"none", "deleted"}
        /\ \A e \in Entry : e # Key => states'[e] = states[e]
    BY <1>2, MirrorTypes DEF MarkDeleted, MarkedRow
  <1>4. Undisturbed /\ m.failed = 0 => AllSettled'
    <2> SUFFICES ASSUME Undisturbed, m.failed = 0, NEW d \in Chunks PROVE Settled(d)'
      BY DEF AllSettled
    <2>1. Settled(d) /\ vectors[Key] = NoDim
      BY <1>1 DEF MirrorInv, Planned, Working, AllSettled
    <2>2. CASE d = c
      BY <2>1, <2>2, <1>1, <1>2, <1>3 DEF Settled
    <2>3. CASE d # c
      <3>1. states'[<<job.model, d>>] = states[<<job.model, d>>] /\ plan'[d] = plan[d]
        BY <2>3, <1>1, <1>2, <1>3, MirrorTypes
      <3> QED
        BY <2>1, <3>1, <1>1 DEF Settled
    <2> QED
      BY <2>2, <2>3
  <1> QED
    BY <1>1, <1>4 DEF MirrorInv, Undisturbed, Finished, Early, Planned, Swept,
                      Working, NoOrphans, Vigente

LEMMA MirrorUpsert ==
    ASSUME IndexInv, MirrorInv, UpsertVector
    PROVE  MirrorInv'
  <1>1. /\ UNCHANGED <<stored, current, dirty, job, states, plan, m>>
        /\ vectors' = [vectors EXCEPT ![Key] = item.dim]
        /\ phase = "upsert" /\ phase' = "record"
    BY DEF UpsertVector, outside
  <1>2. item.chunk \in job.chunks /\ Key = <<job.model, item.chunk>>
    BY <1>1 DEF IndexInv, PlanInv, Key
  <1>3. AllSettled => AllSettled'
    BY <1>1, <1>2, MirrorTypes DEF AllSettled, Settled
  <1>4. Undisturbed /\ NoOrphans => NoOrphans'
    <2>1. Undisturbed => item.chunk \in stored
      BY <1>1, <1>2 DEF MirrorInv, Vigente
    <2> QED
      BY <1>1, <1>2, <2>1, MirrorTypes DEF NoOrphans
  <1> QED
    BY <1>1, <1>3, <1>4 DEF MirrorInv, Undisturbed, Finished, Early, Planned, Swept,
                            Working, Vigente

LEMMA MirrorIndexed ==
    ASSUME IndexInv, MirrorInv, RecordIndexed
    PROVE  MirrorInv'
  <1> DEFINE c == item.chunk
  <1>1. /\ UNCHANGED <<stored, current, dirty, job, vectors>>
        /\ plan' = [plan EXCEPT ![c] = "none"]
        /\ states' = [states EXCEPT ![Key] = [status |-> "indexed", run |-> job.id]]
        /\ phase = "record" /\ phase' = "loop" /\ m'.failed = m.failed
    BY MirrorTypes DEF RecordIndexed, outside, Done, Count, Counters
  <1>2. c \in Chunks /\ c \in job.chunks /\ Key = <<job.model, c>> /\ Key \in Entry
    BY <1>1, MirrorTypes DEF IndexInv, PlanInv, Key
  <1>3. AllSettled => AllSettled'
    BY <1>1, <1>2, MirrorTypes DEF AllSettled, Settled
  <1> QED
    BY <1>1, <1>3 DEF MirrorInv, Undisturbed, Finished, Early, Planned, Swept,
                      Working, NoOrphans, Vigente

\* A run with a failure promises nothing but that no vector is an orphan.
LEMMA MirrorFailed ==
    ASSUME IndexInv, MirrorInv, RecordError \/ \E c \in Chunks : DeleteFails(c)
    PROVE  MirrorInv'
  <1>1. /\ UNCHANGED <<stored, current, dirty, job, vectors>>
        /\ phase \in {"fail", "loop", "mark"} /\ phase' = "loop"
    BY DEF RecordError, DeleteFails, outside, tables, IsNext
  <1>2. m'.failed = m.failed + 1 /\ m.failed \in Nat
    BY MirrorTypes DEF RecordError, DeleteFails, Count, Counters
  <1> QED
    BY <1>1, <1>2 DEF MirrorInv, Undisturbed, Finished, Early, Planned, Swept,
                      Working, NoOrphans, Vigente

LEMMA MirrorFinish ==
    ASSUME IndexInv, MirrorInv, FinishRun \/ NothingToDo
    PROVE  MirrorInv'
  <1>1. UNCHANGED <<stored, current, dirty, states, vectors, plan, m>>
    BY DEF FinishRun, NothingToDo, ReturnSummary, outside, tables
  <1>2. /\ phase \in {"loop", "pruned"} /\ phase' = "done"
        /\ \E x \in RunStatus : job' = [job EXCEPT !.status = x]
    BY DEF FinishRun, NothingToDo, ReturnSummary, FinalStatus, RunStatus
  <1>3. /\ job'.chunks = job.chunks /\ job'.obsolete = job.obsolete
        /\ job'.model = job.model
    BY <1>2, RequestSame
  <1>4. ASSUME Undisturbed, Finished' PROVE AllSettled' /\ NoOrphans' /\ plan' = NoPlan
    <2>1. m.failed = 0 /\ ToIndex = {} /\ ToDelete = {}
      <3>1. CASE FinishRun
        <4>1. FinalStatus = "completed"
          BY <3>1, <1>4 DEF FinishRun, Finished, IndexInv, TypeOK, IndexerType
        <4>2. m.failed \in Nat
          BY MirrorTypes DEF Counters
        <4> QED
          BY <3>1, <4>1, <4>2 DEF FinishRun, FinalStatus
      <3>2. CASE NothingToDo
        BY <3>2 DEF NothingToDo, MirrorInv, Early, IndexInv, PlanInv, ToIndex
      <3> QED
        BY <3>1, <3>2
    <2>2. plan = NoPlan
      BY <2>1, MirrorTypes DEF ToIndex, ToDelete, NoPlan, Decisions
    <2>3. AllSettled /\ NoOrphans
      BY <1>2, <1>4, <2>1 DEF MirrorInv, Planned, Swept, Working
    <2> QED
      BY <1>1, <1>3, <2>2, <2>3 DEF AllSettled, Settled, NoOrphans
  <1> QED
    BY <1>1, <1>2, <1>3, <1>4
       DEF MirrorInv, Undisturbed, Early, Planned, Swept, Working, Vigente

\* The process ends, or ingestion commits: there is nothing left to promise.
LEMMA MirrorExit ==
    ASSUME Exit
    PROVE  MirrorInv'
  BY DEF Exit, NoJob, NoCounters, MirrorInv, Undisturbed

LEMMA MirrorIngest ==
    ASSUME MirrorInv, dirty' = TRUE, UNCHANGED process
    PROVE  MirrorInv'
  BY DEF MirrorInv, Undisturbed, process

------------------------------------------------------------------------------
(* The other steps. *)

LEMMA MirrorReturns ==
    ASSUME IndexInv, MirrorInv,
           CancelDiscovery \/ CancelPlan \/ DryRun \/ CancelProbe
    PROVE  MirrorInv'
  <1>1. \E x \in RunStatus : job' = [job EXCEPT !.status = x]
    BY DEF CancelDiscovery, CancelPlan, DryRun, CancelProbe, ReturnSummary, RunStatus
  <1>2. ~Finished'
    <2>1. DryRun => job'.effect = "dry_run"
      BY RequestSame, <1>1 DEF DryRun
    <2>2. ~DryRun => job'.status = "interrupted"
      BY DEF CancelDiscovery, CancelPlan, CancelProbe, ReturnSummary, IndexInv,
             TypeOK, IndexerType
    <2> QED
      BY <2>1, <2>2 DEF Finished
  <1> QED
    BY <1>1, <1>2, RequestSame, MirrorKept
       DEF CancelDiscovery, CancelPlan, DryRun, CancelProbe, ReturnSummary, outside,
           tables, Early, Planned, Swept, Working

LEMMA MirrorMoves ==
    ASSUME IndexInv, MirrorInv,
           \/ ProbeDimension \/ ProbeFails \/ BeginRun \/ RecordRejected
           \/ RecordErrorRejected \/ WriteFails \/ DatabaseFault \/ Cancel
           \/ \E c \in Chunks : Embed(c) \/ EmbedFails(c)
    PROVE  MirrorInv'
  <1>1. CASE ProbeDimension \/ BeginRun
    BY <1>1, RequestSame, MirrorKept
       DEF ProbeDimension, BeginRun, ReadyToBegin, outside, tables, Early, Planned,
           Swept, Working, Finished
  <1>2. CASE Cancel
    BY <1>2, MirrorKept DEF Cancel, outside, tables, Finished
  <1>3. CASE \/ ProbeFails \/ RecordRejected \/ RecordErrorRejected \/ WriteFails
             \/ DatabaseFault
    <2>1. /\ UNCHANGED <<stored, current, dirty, states, vectors, plan, m, job>>
          /\ phase # "idle" /\ phase' \in {"fail", "aborted"}
          /\ phase' = "fail" => phase \in {"upsert", "record"}
      BY <1>3 DEF ProbeFails, RecordRejected, RecordErrorRejected, WriteFails,
                  DatabaseFault, ReadyToBegin, outside, tables
    <2> QED
      BY <2>1, MirrorKept DEF Early, Planned, Swept, Working, Finished
  <1>4. CASE \E c \in Chunks : Embed(c) \/ EmbedFails(c)
    BY <1>4, MirrorKept
       DEF Embed, EmbedFails, ToEmbed, IsNext, outside, tables, Early, Planned, Swept,
           Working, Finished
  <1> QED
    BY <1>1, <1>2, <1>3, <1>4

LEMMA MirrorEnvironment ==
    ASSUME MirrorInv, Environment
    PROVE  MirrorInv'
  <1>1. CASE \E x \in Models, d \in Dims : ChangeModel(x, d)
    BY <1>1, MirrorKept DEF ChangeModel, corpus, tables, process, Finished
  <1>2. CASE ~\E x \in Models, d \in Dims : ChangeModel(x, d)
    BY <1>2, MirrorIngest
       DEF Environment, IngestDocument, IngestFailure, IngestRemoval
  <1> QED
    BY <1>1, <1>2

LEMMA NextMirror == IndexInv /\ MirrorInv /\ [Next]_vars => MirrorInv'
  <1> SUFFICES ASSUME IndexInv, MirrorInv, [Next]_vars PROVE MirrorInv'
    OBVIOUS
  <1>1. CASE Environment
    BY <1>1, MirrorEnvironment
  <1>2. CASE Start
    BY <1>2, MirrorDiscover
  <1>3. CASE Program
    <2>1. CASE \E c \in Chunks : Decide(c)
      BY <2>1, MirrorKeep, MirrorDeleteVector, MirrorMoves DEF Decide
    <2>2. CASE Return
      BY <2>2, MirrorExit DEF Return
    <2> QED
      BY <1>3, <2>1, <2>2, MirrorReturns, MirrorMoves, MirrorPlan, MirrorPrune,
         MirrorFinish, MirrorMark, MirrorUpsert, MirrorIndexed, MirrorFailed
         DEF Program
  <1>4. CASE Cancel \/ Fault
    BY <1>4, MirrorMoves, MirrorFailed, MirrorExit DEF Fault, Crash
  <1>5. CASE UNCHANGED vars
    BY <1>5, MirrorKept
       DEF vars, Finished
  <1> QED
    BY <1>1, <1>2, <1>3, <1>4, <1>5 DEF Next

\* CompletedRunMirrorsCorpus: after a completed run of the whole corpus that may
\* delete, every current chunk is indexed with its vector, no other chunk is claimed
\* or keeps the vector of a row marked deleted, and no vector outlives its chunk.
THEOREM Mirror == Spec => []CompletedRunMirrorsCorpus
  <1>1. Init => MirrorInv
    BY DEF Init, MirrorInv, Undisturbed, NoJob, NoCounters
  <1>2. IndexInv /\ MirrorInv => CompletedRunMirrorsCorpus
    <2> SUFFICES ASSUME IndexInv, MirrorInv, Completed, job.obsolete = "delete"
                 PROVE  /\ \A c \in Chunks :
                              LET status == states[<<job.model, c>>].status
                              IN IF c \in Vigente
                                 THEN /\ status = "indexed"
                                      /\ vectors[<<job.model, c>>] # NoDim
                                 ELSE /\ status \in {"none", "deleted"}
                                      /\ status = "deleted"
                                            => vectors[<<job.model, c>>] = NoDim
                        /\ \A e \in Entry : vectors[e] # NoDim => e[2] \in stored
      BY DEF CompletedRunMirrorsCorpus
    <2>1. AllSettled /\ NoOrphans /\ plan = NoPlan /\ job.chunks = Vigente
      BY DEF MirrorInv, Completed, Finished, Undisturbed
    <2>2. \A c \in Chunks : <<job.model, c>> \in Entry /\ plan[c] = "none"
      BY <2>1, MirrorTypes DEF Completed, NoPlan
    <2>3. ASSUME NEW c \in Chunks, states[<<job.model, c>>].status = "indexed", c \in Vigente
          PROVE  vectors[<<job.model, c>>] # NoDim
      BY <2>2, <2>3 DEF IndexInv, VectorInv, IndexedHasVector
    <2> QED
      BY <2>1, <2>2, <2>3 DEF AllSettled, Settled, NoOrphans
  <1> QED
    BY <1>1, <1>2, InitIndex, NextIndex, NextMirror, PTL DEF Spec

------------------------------------------------------------------------------
(* The counters of a run and the rows that carry its number. *)

Counting == (Working \ {"begin"}) \cup {"done"}
Rows(status) == {c \in Chunks : states[<<job.model, c>>] = [status |-> status, run |-> job.id]}

\* Every chunk with a row of this run is off the plan, and was counted when it got it.
Tally ==
    /\ \A c \in Chunks : states[<<job.model, c>>].run = job.id => plan[c] = "none"
    /\ \A status \in {"indexed", "deleted", "error"} : IsFiniteSet(Rows(status))
    /\ Cardinality(Rows("indexed")) = m.new + m.updated
    /\ Cardinality(Rows("deleted")) = m.deleted
    /\ Cardinality(Rows("error")) <= m.failed

CountInv ==
    /\ \A e \in Entry : states[e].run <= Len(runs)
    /\ phase \in Early => job.id = 0 /\ m = NoCounters
    /\ ~dirty /\ phase \in Planned =>
          \A c \in Chunks : plan[c] = "delete" => states[<<job.model, c>>].status # "none"
    /\ ~dirty /\ job.id # 0 /\ phase \in Counting => Tally

\* Steps that neither count nor write a row.
LEMMA CountKept ==
    ASSUME CountInv, UNCHANGED <<states, plan, m>>, dirty' = dirty,
           job'.id = job.id, job'.model = job.model, Len(runs') = Len(runs),
           phase' \in Early => phase \in Early,
           phase' \in Planned => phase \in Planned,
           phase' \in Counting => phase \in Counting \/ job.id = 0
    PROVE  CountInv'
  <1>1. Tally => Tally'
    BY DEF Tally, Rows
  <1> QED
    BY <1>1 DEF CountInv

LEMMA CountExit ==
    ASSUME CountInv, Exit, UNCHANGED <<states, runs>>
    PROVE  CountInv'
  BY DEF Exit, CountInv, Early, Planned, Working, Counting, NoJob

\* What ingestion takes away was run 0's.
LEMMA CountIngest ==
    ASSUME IndexInv, CountInv, dirty' = TRUE, UNCHANGED <<runs, process>>,
           states' = states \/ \E f \in Files : states' = Cascade(f)
    PROVE  CountInv'
  <1>1. Len(runs) \in Nat
    BY DEF IndexInv, TypeOK, TablesType
  <1>2. \A e \in Entry : states'[e].run <= Len(runs')
    BY <1>1 DEF CountInv, Cascade, NoState
  <1> QED
    BY <1>2 DEF CountInv, process

LEMMA CountDiscover ==
    ASSUME CountInv, Start
    PROVE  CountInv'
  BY DEF Start, DiscoverChunks, CountInv, tables, Early, Planned, Working, Counting

LEMMA CountPlan ==
    ASSUME IndexInv, CountInv, MakePlan \/ CreateManifest
    PROVE  CountInv'
  <1>1. \A c \in Chunks : plan'[c] = "delete" => states[<<job.model, c>>].status # "none"
    BY DEF MakePlan, CreateManifest, Decision
  <1>2. /\ job'.model = job.model /\ job'.id = job.id
        /\ UNCHANGED <<states, runs, m>> /\ phase \in Early /\ phase' \notin Counting
    BY DEF MakePlan, CreateManifest, IndexInv, TypeOK, IndexerType, tables, Early, Counting, Working
  <1> QED
    BY <1>1, <1>2 DEF CountInv

\* No row carries the number of a run that has just begun.
LEMMA CountBegin ==
    ASSUME IndexInv, CountInv, BeginRun
    PROVE  CountInv'
  <1>1. /\ runs \in Seq(RunRow) /\ states \in [Entry -> State]
        /\ phase # "idle" /\ job.model \in Models /\ phase \in Early /\ phase \in Planned
    BY DEF IndexInv, TypeOK, TablesType, ModelInv, BeginRun, ReadyToBegin, Early, Planned, Working
  <1>2. Len(runs) \in Nat /\ Len(runs') = Len(runs) + 1
    BY <1>1 DEF BeginRun
  <1>3. /\ job'.id = Len(runs) + 1 /\ job'.model = job.model /\ phase' = "loop"
        /\ states' = states /\ plan' = plan /\ m' = m /\ dirty' = dirty
    BY DEF BeginRun, outside, IndexInv, TypeOK, IndexerType
  <1>4. \A e \in Entry : states[e].run \in Nat /\ states[e].run <= Len(runs)
    BY <1>1 DEF CountInv, State
  <1>5. \A c \in Chunks : <<job.model, c>> \in Entry
    BY <1>1 DEF Entry
  <1>6. \A c \in Chunks : states'[<<job'.model, c>>].run # job'.id
    BY <1>2, <1>3, <1>4, <1>5
  <1>7. ASSUME NEW status PROVE Rows(status)' = {}
    BY <1>6 DEF Rows
  <1>8. m' = NoCounters
    BY <1>1, <1>3 DEF CountInv
  <1>9. Tally'
    BY <1>6, <1>7, <1>8, FS_EmptySet DEF Tally, NoCounters
  <1>10. \A e \in Entry : states'[e].run <= Len(runs')
    BY <1>2, <1>3, <1>4
  <1> QED
    BY <1>1, <1>3, <1>9, <1>10 DEF CountInv, Early, Working

\* A decision that leaves no row is counted among the unchanged or the failed.
LEMMA CountUnwritten ==
    ASSUME IndexInv, CountInv, \E c \in Chunks : KeepChunk(c) \/ DeleteFails(c)
    PROVE  CountInv'
  <1>1. PICK c \in Chunks : KeepChunk(c) \/ DeleteFails(c)
    OBVIOUS
  <1>2. /\ UNCHANGED <<states, runs, job, dirty>> /\ phase' = "loop" /\ phase \in {"loop", "mark"}
        /\ plan' = [plan EXCEPT ![c] = "none"]
        /\ m' \in {[m EXCEPT !.unchanged = @ + 1], [m EXCEPT !.failed = @ + 1]}
    BY <1>1 DEF KeepChunk, DeleteFails, IsNext, Count, Done, tables, outside
  <1>3. plan \in [Chunks -> Decisions] /\ m \in Counters
    BY DEF IndexInv, TypeOK, IndexerType
  <1>4. /\ m'.new = m.new /\ m'.updated = m.updated /\ m'.deleted = m.deleted
        /\ m'.failed \in {m.failed, m.failed + 1} /\ m.failed \in Nat
    BY <1>2, <1>3 DEF Counters
  <1>5. ASSUME NEW status PROVE Rows(status)' = Rows(status)
    BY <1>2 DEF Rows
  <1>6. ASSUME Tally PROVE Tally'
    <2>1. Cardinality(Rows("error")) \in Nat
      BY <1>6, FS_CardinalityType DEF Tally
    <2>2. Cardinality(Rows("error")) <= m'.failed
      BY <1>4, <1>6, <2>1 DEF Tally
    <2> QED
      BY <1>2, <1>3, <1>4, <1>5, <1>6, <2>2 DEF Tally
  <1> QED
    BY <1>2, <1>3, <1>6 DEF CountInv, Early, Planned, Working, Counting

\* A decision that ends with a row of the chunk in hand.
LEMMA RowAdded ==
    ASSUME IndexInv, Tally, NEW s \in {"indexed", "deleted", "error"}, UNCHANGED job, job.id # 0,
           item.chunk \in Chunks, plan[item.chunk] # "none", Key \in Entry,
           states' = [states EXCEPT ![Key] = [status |-> s, run |-> job.id]],
           plan' = [plan EXCEPT ![item.chunk] = "none"]
    PROVE  /\ Rows(s)' = Rows(s) \cup {item.chunk} /\ item.chunk \notin Rows(s)
           /\ \A other \in {"indexed", "deleted", "error"} \ {s} : Rows(other)' = Rows(other)
           /\ \A c \in Chunks : states'[<<job'.model, c>>].run = job'.id => plan'[c] = "none"
  <1>1. states \in [Entry -> State] /\ plan \in [Chunks -> Decisions]
    BY DEF IndexInv, TypeOK, TablesType, IndexerType
  <1>2. states'[Key] = [status |-> s, run |-> job.id]
    BY <1>1
  <1>3. ASSUME NEW c \in Chunks, c # item.chunk
        PROVE  states'[<<job.model, c>>] = states[<<job.model, c>>]
    BY <1>1, <1>3 DEF Key
  <1>4. states[Key].run # job.id
    BY DEF Tally, Key
  <1>5. \A status : item.chunk \notin Rows(status)
    BY <1>4 DEF Rows, Key
  <1>6. ASSUME NEW status
        PROVE  Rows(status)' = IF status = s THEN Rows(status) \cup {item.chunk} ELSE Rows(status)
    <2>1. ASSUME NEW c \in Chunks, c # item.chunk
          PROVE  c \in Rows(status)' <=> c \in Rows(status)
      BY <1>3, <2>1 DEF Rows
    <2>2. item.chunk \in Rows(status)' <=> status = s
      BY <1>2 DEF Rows, Key
    <2>3. Rows(status) \subseteq Chunks /\ Rows(status)' \subseteq Chunks
      BY DEF Rows
    <2> QED
      BY <1>5, <2>1, <2>2, <2>3
  <1>7. \A c \in Chunks : states'[<<job'.model, c>>].run = job'.id => plan'[c] = "none"
    BY <1>1, <1>3 DEF Tally
  <1> QED
    BY <1>5, <1>6, <1>7

\* It changes one counter, the one that goes with the row.
LEMMA CountWritten ==
    ASSUME IndexInv, CountInv, NEW s \in {"indexed", "deleted", "error"},
           UNCHANGED <<job, runs, dirty>>, item.chunk \in Chunks, plan[item.chunk] # "none",
           phase \in Working \ {"begin"}, phase' = "loop",
           states' = [states EXCEPT ![Key] = [status |-> s, run |-> job.id]],
           plan' = [plan EXCEPT ![item.chunk] = "none"],
           m' \in Counters,
           m'.new + m'.updated = m.new + m.updated + IF s = "indexed" THEN 1 ELSE 0,
           m'.deleted = m.deleted + IF s = "deleted" THEN 1 ELSE 0,
           m'.failed = m.failed + IF s = "error" THEN 1 ELSE 0
    PROVE  CountInv'
  <1>1. /\ states \in [Entry -> State] /\ plan \in [Chunks -> Decisions] /\ m \in Counters
        /\ job.id \in 0..Len(runs) /\ Len(runs) \in Nat /\ Key \in Entry
    BY DEF IndexInv, TypeOK, TablesType, IndexerType, ModelInv, Working, Key, Entry
  <1>2. \A e \in Entry : states'[e].run <= Len(runs')
    BY <1>1 DEF CountInv
  <1>3. ASSUME ~dirty, NEW c \in Chunks, plan'[c] = "delete"
        PROVE  states'[<<job'.model, c>>].status # "none"
    <2>1. c # item.chunk /\ plan[c] = "delete"
      BY <1>1, <1>3
    <2>2. states'[<<job'.model, c>>] = states[<<job.model, c>>]
      BY <1>1, <2>1 DEF Key
    <2> QED
      BY <1>3, <2>1, <2>2 DEF CountInv, Planned
  <1>4. ASSUME ~dirty, job.id # 0 PROVE Tally'
    <2>1. Tally
      BY <1>4 DEF CountInv, Counting
    <2>2. /\ Rows(s)' = Rows(s) \cup {item.chunk} /\ item.chunk \notin Rows(s)
          /\ \A other \in {"indexed", "deleted", "error"} \ {s} : Rows(other)' = Rows(other)
          /\ \A c \in Chunks : states'[<<job'.model, c>>].run = job'.id => plan'[c] = "none"
      BY <1>1, <1>4, <2>1, RowAdded
    <2>3. \A status \in {"indexed", "deleted", "error"} :
             IsFiniteSet(Rows(status)) /\ Cardinality(Rows(status)) \in Nat
      BY <2>1, FS_CardinalityType DEF Tally
    <2>4. /\ IsFiniteSet(Rows(s) \cup {item.chunk})
          /\ Cardinality(Rows(s) \cup {item.chunk}) = Cardinality(Rows(s)) + 1
      BY <2>2, <2>3, FS_AddElement
    <2>5. ASSUME NEW status \in {"indexed", "deleted", "error"}
          PROVE  /\ IsFiniteSet(Rows(status)')
                 /\ Cardinality(Rows(status)') = Cardinality(Rows(status)) + IF s = status THEN 1 ELSE 0
      <3>1. CASE status = s
        <4>1. Rows(status)' = Rows(s) \cup {item.chunk}
          BY <2>2, <3>1
        <4> QED
          BY <2>4, <3>1, <4>1
      <3>2. CASE status # s
        <4>1. Rows(status)' = Rows(status)
          BY <2>2, <3>2
        <4> QED
          BY <2>3, <3>2, <4>1
      <3> QED
        BY <3>1, <3>2
    <2>6. /\ Cardinality(Rows("indexed")') = m'.new + m'.updated
          /\ Cardinality(Rows("deleted")') = m'.deleted
          /\ Cardinality(Rows("error")') <= m'.failed
      <3>1. /\ Cardinality(Rows("indexed")) = m.new + m.updated
            /\ Cardinality(Rows("deleted")) = m.deleted
            /\ Cardinality(Rows("error")) <= m.failed
        BY <2>1 DEF Tally
      <3>2. m.new \in Nat /\ m.updated \in Nat /\ m.deleted \in Nat /\ m.failed \in Nat
        BY <1>1 DEF Counters
      <3> QED
        BY <2>3, <2>5, <3>1, <3>2
    <2> QED
      BY <2>2, <2>5, <2>6 DEF Tally
  <1> QED
    BY <1>2, <1>3, <1>4 DEF CountInv, Early, Working

LEMMA CountRecord ==
    ASSUME IndexInv, CountInv, RecordIndexed \/ RecordError
    PROVE  CountInv'
  <1>1. item.chunk \in Chunks /\ plan[item.chunk] \in {"new", "update"}
    BY DEF IndexInv, PlanInv, RecordIndexed, RecordError
  <1>2. m \in Counters
    BY DEF IndexInv, TypeOK, IndexerType
  <1>3. CASE RecordIndexed
    <2>1. m' = [m EXCEPT !.new = @ + 1] \/ m' = [m EXCEPT !.updated = @ + 1]
      BY <1>3 DEF RecordIndexed, Count
    <2>2. /\ m' \in Counters /\ m'.new + m'.updated = m.new + m.updated + 1
          /\ m'.deleted = m.deleted + 0 /\ m'.failed = m.failed + 0
      BY <1>2, <2>1 DEF Counters
    <2> QED
      BY <1>1, <1>3, <2>2, CountWritten DEF RecordIndexed, Done, outside, Working
  <1>4. CASE RecordError
    <2>1. m' = [m EXCEPT !.failed = @ + 1]
      BY <1>4 DEF RecordError, Count
    <2>2. /\ m' \in Counters /\ m'.new + m'.updated = m.new + m.updated + 0
          /\ m'.deleted = m.deleted + 0 /\ m'.failed = m.failed + 1
      BY <1>2, <2>1 DEF Counters
    <2> QED
      BY <1>1, <1>4, <2>2, CountWritten DEF RecordError, Done, outside, Working
  <1> QED
    BY <1>3, <1>4

\* The row of an obsolete chunk is there to be marked, unless ingestion took it.
LEMMA CountMark ==
    ASSUME IndexInv, CountInv, MarkDeleted
    PROVE  CountInv'
  <1>1. /\ item.chunk \in Chunks /\ plan[item.chunk] = "delete"
        /\ phase = "mark" /\ phase' = "loop" /\ UNCHANGED <<job, runs, dirty>>
        /\ plan' = [plan EXCEPT ![item.chunk] = "none"] /\ m' = [m EXCEPT !.deleted = @ + 1]
    BY DEF IndexInv, PlanInv, MarkDeleted, Done, Count, outside
  <1>2. m \in Counters
    BY DEF IndexInv, TypeOK, IndexerType
  <1>3. /\ m' \in Counters /\ m'.new + m'.updated = m.new + m.updated + 0
        /\ m'.deleted = m.deleted + 1 /\ m'.failed = m.failed + 0
    BY <1>1, <1>2 DEF Counters
  <1>4. CASE states[Key].status # "none"
    BY <1>1, <1>3, <1>4, CountWritten DEF MarkDeleted, MarkedRow, Working
  <1>5. CASE states[Key].status = "none"
    <2>1. dirty
      BY <1>1, <1>5 DEF CountInv, Planned, Working, Key
    <2>2. states' = states
      BY <1>5 DEF MarkDeleted
    <2> QED
      BY <1>1, <2>1, <2>2 DEF CountInv, Early, Working
  <1> QED
    BY <1>4, <1>5

\* The steps that only move the process on.
LEMMA CountMoves ==
    ASSUME IndexInv, CountInv,
           \/ CancelDiscovery \/ CancelPlan \/ DryRun \/ PruneOrphans \/ NothingToDo \/ CancelProbe
           \/ ProbeDimension \/ ProbeFails \/ UpsertVector \/ RecordRejected \/ RecordErrorRejected
           \/ FinishRun \/ Cancel \/ WriteFails \/ DatabaseFault
           \/ \E x \in Models, d \in Dims : ChangeModel(x, d)
           \/ \E c \in Chunks : DeleteVector(c) \/ Embed(c) \/ EmbedFails(c)
    PROVE  CountInv'
  <1>1. UNCHANGED <<states, plan, m>> /\ dirty' = dirty
    BY DEF CancelDiscovery, CancelPlan, DryRun, PruneOrphans, NothingToDo, CancelProbe, ProbeDimension,
        ProbeFails, UpsertVector, RecordRejected, RecordErrorRejected, FinishRun, Cancel, WriteFails,
        DatabaseFault, ChangeModel, DeleteVector, Embed, EmbedFails, ReturnSummary, outside, tables, corpus,
        process
  <1>2. job'.id = job.id /\ job'.model = job.model
    BY DEF CancelDiscovery, CancelPlan, DryRun, PruneOrphans, NothingToDo, CancelProbe, ProbeDimension,
        ProbeFails, UpsertVector, RecordRejected, RecordErrorRejected, FinishRun, Cancel, WriteFails,
        DatabaseFault, ChangeModel, DeleteVector, Embed, EmbedFails, ReturnSummary, process, IndexInv, TypeOK,
        IndexerType
  <1>3. Len(runs') = Len(runs)
    <2>1. CASE FinishRun
      <3>1. runs \in Seq(RunRow)
        BY DEF IndexInv, TypeOK, TablesType
      <3> QED
        BY <2>1, <3>1 DEF FinishRun
    <2>2. CASE ~FinishRun
      BY <2>2 DEF CancelDiscovery, CancelPlan, DryRun, PruneOrphans, NothingToDo, CancelProbe, ProbeDimension,
          ProbeFails, UpsertVector, RecordRejected, RecordErrorRejected, Cancel, WriteFails, DatabaseFault,
          ChangeModel, DeleteVector, Embed, EmbedFails, ReturnSummary, tables
    <2> QED
      BY <2>1, <2>2
  <1>4. /\ phase' \in Early => phase \in Early
        /\ phase' \in Planned => phase \in Planned
        /\ phase' \in Counting => phase \in Counting \/ phase \in Early
    BY DEF CancelDiscovery, CancelPlan, DryRun, PruneOrphans, NothingToDo, CancelProbe, ProbeDimension,
        ProbeFails, UpsertVector, RecordRejected, RecordErrorRejected, FinishRun, Cancel, WriteFails,
        DatabaseFault, ChangeModel, DeleteVector, Embed, EmbedFails, ReturnSummary, process, Early, Planned,
        Counting, Working, ToEmbed, IsNext
  <1> QED
    BY <1>1, <1>2, <1>3, <1>4, CountKept DEF CountInv

LEMMA NextCount == IndexInv /\ CountInv /\ [Next]_vars => CountInv'
  <1> SUFFICES ASSUME IndexInv, CountInv, [Next]_vars PROVE CountInv'
    OBVIOUS
  <1>1. CASE Environment
    BY <1>1, CountMoves, CountIngest
       DEF Environment, IngestDocument, IngestFailure, IngestRemoval, tables
  <1>2. CASE Start
    BY <1>2, CountDiscover
  <1>3. CASE Program
    <2>1. CASE \E c \in Chunks : Decide(c)
      BY <2>1, CountUnwritten, CountMoves DEF Decide
    <2>2. CASE Return
      BY <2>2, CountExit DEF Return, tables
    <2> QED
      BY <1>3, <2>1, <2>2, CountMoves, CountPlan, CountBegin, CountMark, CountRecord DEF Program
  <1>4. CASE Cancel \/ Fault
    BY <1>4, CountMoves, CountUnwritten, CountExit DEF Fault, Crash, tables
  <1>5. CASE UNCHANGED vars
    BY <1>5, CountKept DEF vars
  <1> QED
    BY <1>1, <1>2, <1>3, <1>4, <1>5 DEF Next

\* CountersMatchIndex: what the summary of a run says was indexed, deleted and failed is what
\* chunk_embeddings shows under its number, however it ended and whatever failed on the way.
THEOREM Counted == Spec => []CountersMatchIndex
  <1>1. Init => CountInv
    BY DEF Init, CountInv, NoState, NoJob, Planned, Working, Counting
  <1>2. CountInv => CountersMatchIndex
    BY DEF CountInv, CountersMatchIndex, Counting, Tally, Rows, Touched
  <1> QED
    BY <1>1, <1>2, InitIndex, NextIndex, NextCount, PTL DEF Spec
==============================================================================
