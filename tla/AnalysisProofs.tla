--------------------------- MODULE AnalysisProofs ---------------------------
(***************************************************************************)
(* What analysis publishes is true, for any number of files, symbols,        *)
(* references, runs and commits of ingestion; and a run that ingestion leaves *)
(* in peace resolves every reference and mirrors the texts.                 *)
(***************************************************************************)
EXTENDS Analysis, FiniteSetTheorems, WellFoundedInduction, TLAPS

\* Phases in which a run has a row that is open, and those in which it writes.
Reading == {"extract", "extracted"}
Writing == {"symbols", "references", "scope", "deleted", "catalogue", "pending", "relation",
            "candidates", "reference"}

\* A reference as it was read was in the text that it was read with.
SeenInv == \A x \in Reference : seen[x].chunk # NoText => x[2] \in Refers[seen[x].chunk]

TodoInv == phase = "references" => todo \subseteq ReferencesFound

\* Rows that carry the number of a run.
Wrote(n) ==
    \/ \E s \in Symbols : symbols[s].run = n
    \/ \E x \in Reference : references[x].run = n
    \/ \E y \in Relation : relations[y].run = n

\* A run writes nothing before it could last be interrupted, and is open while it writes.
RunsInv ==
    /\ \A n : Wrote(n) => n \in 0..Len(runs)
    /\ \A n \in 1..Len(runs) : runs[n].status = "interrupted" => ~Wrote(n)
    /\ phase \in Reading /\ job.id # 0 => ~Wrote(job.id)
    /\ phase \in Reading \cup Writing /\ job.id # 0 => runs[job.id].status = "running"

\* A run has no row before it begins.
FreshInv == phase = "discovered" => job.id = 0

AnalysisInv == TypeOK /\ PublishedIsInText /\ SeenInv /\ TodoInv /\ FreshInv /\ RunsInv

---------------------------------------------------------------------------
(* What the operators of a run return. *)

LEMMA FiniteReferences == IsFiniteSet(Reference)
  BY FS_Product, AnalysisData DEF Reference

LEMMA Counted == ASSUME NEW S, S \subseteq Reference PROVE Cardinality(S) \in Nat
  BY FiniteReferences, FS_Subset, FS_CardinalityType

\* The files of a job, and what they define and name.
LEMMA JobData ==
    ASSUME TypeOK
    PROVE  /\ FilesFound \subseteq Files /\ \A f \in FilesFound : job.found[f] \in Texts
           /\ ReferencesFound \subseteq Reference
           /\ \A x \in Reference : x[1] \in Files /\ x[2] \in Refs
           /\ \A x \in ReferencesFound : SourceOf(x) \in SymbolOrNull /\ WrittenAs(x) \in Resolution
<1>1. FilesFound \subseteq Files /\ \A f \in FilesFound : job.found[f] \in Texts
  BY DEF TypeOK, FilesFound, TextOrNone
<1>2. \A x \in Reference : x[1] \in Files /\ x[2] \in Refs
  BY DEF Reference
<1>3. ASSUME NEW x \in ReferencesFound PROVE SourceOf(x) \in SymbolOrNull /\ WrittenAs(x) \in Resolution
  <2>1. x[1] \in FilesFound /\ x[2] \in Refs
    BY <1>2 DEF ReferencesFound
  <2>2. Defines[job.found[x[1]]] \in SymbolOrNull
    BY <1>1, <2>1, AnalysisData DEF SymbolOrNull
  <2>3. Kind[x[2]] \in Kinds
    BY <2>1, AnalysisData
  <2> QED
    BY <2>2, <2>3 DEF SourceOf, WrittenAs, SymbolOrNull, Kinds, Resolution
<1> QED
  BY <1>1, <1>2, <1>3 DEF ReferencesFound

LEMMA DecisionData ==
    ASSUME NEW r \in Refs, NEW source, NEW catalogue
    PROVE  /\ Decision(r, source, catalogue).status \in Resolution
           /\ Decision(r, source, catalogue).target \in SymbolOrNull
           /\ Decision(r, source, catalogue).among \subseteq Symbols
<1> DEFINE matches == Matches(r, source, catalogue)
<1>1. matches \subseteq Symbols
  BY AnalysisData DEF Matches, Narrow
<1>2. Kind[r] \in Kinds
  BY AnalysisData
<1>3. matches # {} => (CHOOSE s \in matches : TRUE) \in Symbols
  BY <1>1
<1> HIDE DEF matches
<1>4. Decision(r, source, catalogue) =
        IF Kind[r] \in {"dynamic", "external"}
        THEN [status |-> Kind[r], target |-> NoSymbol, among |-> {}]
        ELSE IF matches = {} THEN [status |-> "unresolved", target |-> NoSymbol, among |-> {}]
        ELSE IF Cardinality(matches) = 1
        THEN [status |-> "resolved", target |-> CHOOSE s \in matches : TRUE, among |-> {}]
        ELSE [status |-> "ambiguous", target |-> NoSymbol, among |-> matches]
  BY DEF Decision, matches
<1> QED
  BY <1>1, <1>2, <1>3, <1>4 DEF Resolution, SymbolOrNull

LEMMA CountersData ==
    ASSUME m \in Counters, NEW rows, DOMAIN rows \subseteq Reference, NEW catalogue
    PROVE  Resolved(rows, catalogue) \in Counters
<1>1. \A which : Count(rows, catalogue, which) \in Nat
  <2> SUFFICES ASSUME NEW which PROVE Count(rows, catalogue, which) \in Nat
    OBVIOUS
  <2>1. {x \in DOMAIN rows : Decision(x[2], rows[x], catalogue).status \in which} \subseteq Reference
    OBVIOUS
  <2> QED
    BY <2>1, Counted DEF Count
<1> QED
  BY <1>1 DEF Resolved, Counters

LEMMA ExtractedIsFinite == ASSUME TypeOK PROVE Cardinality(Extracted) \in Nat
<1> DEFINE give == [f \in FilesFound |-> Defines[job.found[f]]]
<1>1. IsFiniteSet(FilesFound)
  BY AnalysisData, FS_Subset DEF FilesFound
<1>2. give \in Surjection(FilesFound, Extracted)
  BY DEF Surjection, Extracted
<1> QED
  BY <1>1, <1>2, FS_Surjection, FS_CardinalityType

LEMMA SourcesData == ASSUME TypeOK, NEW scope PROVE Sources(scope) \in [Files -> TextOrNone]
  BY DEF TypeOK, Sources, TextOrNone

---------------------------------------------------------------------------
(* Types. *)

\* Ingestion takes chunks, symbols and candidates away.
LEMMA DropData ==
    ASSUME TypeOK, NEW f \in Files, DropDocument(f)
    PROVE  /\ symbols' \in [Symbols -> SymbolRow]
           /\ references' \in [Reference -> ReferenceRow]
           /\ relations' \in [Relation -> RelationRow]
           /\ candidates' \in [Relation -> SUBSET Symbols]
<1>1. \A s \in SymbolOrNull : Keep(s, Dropped(f)) \in SymbolOrNull
  BY DEF Keep, SymbolOrNull
<1>2. symbols' \in [Symbols -> SymbolRow]
  BY DEF DropDocument, TypeOK, NoSymbolRow, SymbolRow
<1>3. references' \in [Reference -> ReferenceRow]
  <2>1. ASSUME NEW x \in Reference
        PROVE  [references[x] EXCEPT !.source = Keep(@, Dropped(f)),
                    !.chunk = IF x[1] = f THEN NoText ELSE @] \in ReferenceRow
    <3>1. references[x] \in ReferenceRow
      BY DEF TypeOK
    <3> QED
      BY <1>1, <3>1 DEF ReferenceRow, TextOrNone
  <2> QED
    BY <2>1 DEF DropDocument
<1>4. relations' \in [Relation -> RelationRow]
  <2>1. ASSUME NEW y \in Relation
        PROVE  [relations[y] EXCEPT !.source = Keep(@, Dropped(f)), !.target = Keep(@, Dropped(f)),
                    !.chunk = IF y[1][1] = f THEN NoText ELSE @] \in RelationRow
    <3>1. relations[y] \in RelationRow
      BY DEF TypeOK
    <3> QED
      BY <1>1, <3>1 DEF RelationRow, TextOrNone
  <2> QED
    BY <2>1 DEF DropDocument
<1>5. candidates' \in [Relation -> SUBSET Symbols]
  BY DEF DropDocument, TypeOK
<1> QED
  BY <1>2, <1>3, <1>4, <1>5

LEMMA IngestTypes == ASSUME TypeOK, Ingest PROVE TypeOK'
<1>1. PICK f \in Files :
        \/ \E t \in Texts : IngestDocument(f, t)
        \/ IngestFailure(f)
        \/ \E how \in {"skipped", "deleted"} : IngestRemoval(f, how)
  BY DEF Ingest
<1>2. UNCHANGED <<runs, process>> /\ edits' \in 0..MaxEdits /\ dirty' \in BOOLEAN
  <2>1. Commit /\ UNCHANGED <<runs, process>>
    BY <1>1 DEF IngestDocument, IngestFailure, IngestRemoval
  <2> QED
    BY <2>1, AnalysisBounds DEF Commit, TypeOK
<1>3. text' \in [Files -> TextOrNone] /\ state' \in [Files -> FileState]
  BY <1>1 DEF IngestDocument, IngestFailure, IngestRemoval, TypeOK, TextOrNone, FileState
<1>4. /\ symbols' \in [Symbols -> SymbolRow] /\ references' \in [Reference -> ReferenceRow]
      /\ relations' \in [Relation -> RelationRow] /\ candidates' \in [Relation -> SUBSET Symbols]
  <2>1. CASE DropDocument(f)
    BY <2>1, DropData
  <2>2. CASE UNCHANGED knowledge
    BY <2>2 DEF knowledge, TypeOK
  <2> QED
    BY <1>1, <2>1, <2>2 DEF IngestDocument, IngestFailure, IngestRemoval
<1> QED
  BY <1>2, <1>3, <1>4 DEF TypeOK, process

\* Steps that write no knowledge.
LEMMA ControlTypes ==
    ASSUME TypeOK, UNCHANGED <<text, state, edits, symbols, references, relations, candidates>>,
           dirty' \in BOOLEAN, phase' \in Phase, cancelled' \in BOOLEAN,
           runs' \in Seq([status : RunStatus, counters : Counters]),
           job' \in [id : 0..Len(runs'), whole : BOOLEAN, dry : BOOLEAN,
                     found : [Files -> TextOrNone], status : RunStatus],
           IF phase' = "symbols" THEN todo' \subseteq Files ELSE todo' \subseteq Reference,
           known' \in SUBSET Symbols, seen' \in [Reference -> ReferenceRow], m' \in Counters
    PROVE  TypeOK'
  BY DEF TypeOK

LEMMA ExitData ==
    ASSUME Exit
    PROVE  /\ phase' \in Phase /\ cancelled' \in BOOLEAN /\ todo' = {} /\ known' = {}
           /\ job' = NoJob /\ phase' = "idle" /\ m' \in Counters
           /\ \A n \in Nat : NoJob \in [id : 0..n, whole : BOOLEAN, dry : BOOLEAN,
                                        found : [Files -> TextOrNone], status : RunStatus]
           /\ seen' \in [Reference -> ReferenceRow] /\ \A x \in Reference : seen'[x].chunk = NoText
<1>1. NoReferenceRow \in ReferenceRow /\ NoReferenceRow.chunk = NoText
  BY DEF NoReferenceRow, ReferenceRow, TextOrNone, SymbolOrNull, Resolution
<1>2. NoCounters \in Counters
  BY DEF NoCounters, Counters
<1>3. \A n \in Nat : NoJob \in [id : 0..n, whole : BOOLEAN, dry : BOOLEAN,
                               found : [Files -> TextOrNone], status : RunStatus]
  BY DEF NoJob, TextOrNone, RunStatus
<1> QED
  BY <1>1, <1>2, <1>3 DEF Exit, Phase

LEMMA FinishData ==
    ASSUME TypeOK, NEW status \in RunStatus, NEW counters \in Counters, Finish(status, counters)
    PROVE  /\ phase' = "done" /\ m' \in Counters /\ Len(runs') = Len(runs)
           /\ runs' \in Seq([status : RunStatus, counters : Counters])
           /\ job' \in [id : 0..Len(runs'), whole : BOOLEAN, dry : BOOLEAN,
                         found : [Files -> TextOrNone], status : RunStatus]
           /\ \A n \in 1..Len(runs) :
                runs'[n].status = IF n = job.id THEN status ELSE runs[n].status
<1> DEFINE row == [status |-> status, counters |-> counters]
<1>1. row \in [status : RunStatus, counters : Counters] /\ row.status = status
  OBVIOUS
<1>2. /\ runs \in Seq([status : RunStatus, counters : Counters]) /\ Len(runs) \in Nat /\ job.id \in 0..Len(runs)
      /\ job \in [id : 0..Len(runs), whole : BOOLEAN, dry : BOOLEAN,
                  found : [Files -> TextOrNone], status : RunStatus]
  BY DEF TypeOK
<1>3. runs' = IF job.id = 0 THEN runs ELSE [runs EXCEPT ![job.id] = row]
  BY DEF Finish
<1> HIDE DEF row
<1>4. /\ runs' \in Seq([status : RunStatus, counters : Counters]) /\ Len(runs') = Len(runs)
      /\ \A n \in 1..Len(runs) : runs'[n].status = IF n = job.id THEN status ELSE runs[n].status
  <2>1. CASE job.id = 0
    BY <2>1, <1>2, <1>3
  <2>2. CASE job.id # 0
    <3>1. job.id \in 1..Len(runs) /\ runs' = [runs EXCEPT ![job.id] = row]
      BY <2>2, <1>2, <1>3
    <3> QED
      BY <3>1, <1>1, <1>2
  <2> QED
    BY <2>1, <2>2
<1>5. job' = [job EXCEPT !.status = status] /\ phase' = "done" /\ m' = counters
  BY DEF Finish
<1> QED
  BY <1>2, <1>4, <1>5

LEMMA DiscoveryTypes ==
    ASSUME TypeOK, Start \/ CancelDiscovery \/ BeginRun \/ Extract
    PROVE  TypeOK'
<1>1. CASE Start
  <2>1. PICK scope \in Prefixes \cup {Files}, dry \in BOOLEAN : Discover(scope, dry)
    BY <1>1 DEF Start
  <2>2. job' \in [id : 0..Len(runs), whole : BOOLEAN, dry : BOOLEAN,
                  found : [Files -> TextOrNone], status : RunStatus]
    BY <2>1, SourcesData DEF Discover, RunStatus, TypeOK
  <2> QED
    BY <2>1, <2>2 DEF Discover, TypeOK, Phase, knowledge
<1>2. CASE CancelDiscovery
  BY <1>2 DEF CancelDiscovery, TypeOK, Phase, RunStatus, corpus, knowledge
<1>3. CASE BeginRun
  <2>1. UNCHANGED <<corpus, knowledge, cancelled, todo, known, seen, m>> /\ phase' = "extract"
    BY <1>3 DEF BeginRun
  <2>2. CASE UNCHANGED <<runs, job>>
    BY <1>3, <2>1, <2>2 DEF TypeOK, Phase, corpus, knowledge, BeginRun
  <2>3. CASE /\ runs' = Append(runs, [status |-> "running", counters |-> NoCounters])
             /\ job' = [job EXCEPT !.id = Len(runs) + 1]
    <3>1. [status |-> "running", counters |-> NoCounters] \in [status : RunStatus, counters : Counters]
      BY DEF RunStatus, NoCounters, Counters
    <3>2. runs' \in Seq([status : RunStatus, counters : Counters]) /\ Len(runs') = Len(runs) + 1
          /\ Len(runs) \in Nat
      BY <2>3, <3>1 DEF TypeOK
    <3>3. job' \in [id : 0..Len(runs'), whole : BOOLEAN, dry : BOOLEAN,
                    found : [Files -> TextOrNone], status : RunStatus]
      <4>1. job \in [id : 0..Len(runs), whole : BOOLEAN, dry : BOOLEAN,
                     found : [Files -> TextOrNone], status : RunStatus]
        BY DEF TypeOK
      <4>2. Len(runs) + 1 \in 0..Len(runs')
        BY <3>2
      <4> QED
        BY <2>3, <4>1, <4>2
    <3> QED
      BY <1>3, <2>1, <3>2, <3>3 DEF TypeOK, Phase, corpus, knowledge, BeginRun
  <2> QED
    BY <1>3, <2>2, <2>3 DEF BeginRun
<1>4. CASE Extract
  <2>1. Cardinality(Extracted) \in Nat /\ Cardinality(ReferencesFound) \in Nat
    BY ExtractedIsFinite, Counted, JobData
  <2>2. m' \in Counters
    BY <1>4, <2>1 DEF Extract, TypeOK, Counters
  <2> QED
    BY <1>4, <2>2 DEF Extract, TypeOK, Phase, corpus, knowledge
<1> QED
  BY <1>1, <1>2, <1>3, <1>4

LEMMA FinishTypes ==
    ASSUME TypeOK, CancelExtraction \/ DryRun \/ FinishRun
    PROVE  TypeOK'
<1>1. PICK status \in RunStatus, counters \in Counters : Finish(status, counters)
  <2>1. Resolved([x \in ReferencesFound |-> SourceOf(x)], Extracted) \in Counters
    BY CountersData, JobData DEF TypeOK
  <2> QED
    BY <2>1 DEF CancelExtraction, DryRun, FinishRun, RunStatus, TypeOK
<1>2. UNCHANGED <<corpus, knowledge, cancelled, todo, known, seen>> /\ phase # "symbols"
  BY DEF CancelExtraction, DryRun, FinishRun
<1> QED
  BY <1>1, <1>2, FinishData DEF TypeOK, Phase, corpus, knowledge

LEMMA EndTypes ==
    ASSUME TypeOK, Return \/ Cancel \/ ForeignKeyViolated \/ DatabaseFault \/ Crash
    PROVE  TypeOK'
<1>1. CASE Return \/ Crash
  <2>1. Exit /\ UNCHANGED <<corpus, knowledge, runs>>
    BY <1>1 DEF Return, Crash
  <2>2. Len(runs) \in Nat /\ {} \subseteq Reference /\ {} \subseteq Files
    BY DEF TypeOK
  <2> QED
    BY <2>1, <2>2, ExitData DEF TypeOK, corpus, knowledge
<1>2. CASE Cancel
  BY <1>2 DEF Cancel, TypeOK, corpus, knowledge
<1>3. CASE ForeignKeyViolated \/ DatabaseFault
  BY <1>3 DEF ForeignKeyViolated, DatabaseFault, Abort, TypeOK, Phase, corpus, knowledge
<1> QED
  BY <1>1, <1>2, <1>3

LEMMA LoopTypes ==
    ASSUME TypeOK, Persist \/ SymbolsDone \/ ReferencesDone \/ ReadSymbols \/ ReadReferences
    PROVE  TypeOK'
<1>1. CASE Persist
  BY <1>1 DEF Persist, TypeOK, Phase, corpus, knowledge
<1>2. CASE SymbolsDone
  BY <1>2, JobData DEF SymbolsDone, TypeOK, Phase, corpus, knowledge
<1>3. CASE ReferencesDone
  BY <1>3 DEF ReferencesDone, TypeOK, Phase, corpus, knowledge
<1>4. CASE ReadSymbols
  BY <1>4 DEF ReadSymbols, Active, TypeOK, Phase, corpus, knowledge
<1>5. CASE ReadReferences
  <2>1. Pending \subseteq Reference
    BY DEF Pending
  <2>2. Resolved([x \in Pending |-> references[x].source], known) \in Counters
    BY <2>1, CountersData DEF TypeOK
  <2>3. m' \in Counters
    <3> DEFINE counters == Resolved([x \in Pending |-> references[x].source], known)
    <3>1. m' = [counters EXCEPT !.references = Cardinality(Pending)]
      BY <1>5 DEF ReadReferences
    <3>2. Cardinality(Pending) \in Nat
      BY <2>1, Counted
    <3> HIDE DEF counters
    <3> QED
      BY <2>2, <3>1, <3>2 DEF Counters, counters
  <2> QED
    BY <1>5, <2>1, <2>3 DEF ReadReferences, TypeOK, Phase, corpus, knowledge
<1> QED
  BY <1>1, <1>2, <1>3, <1>4, <1>5

\* What a run writes.
LEMMA SymbolTypes ==
    ASSUME TypeOK, NEW f \in Files, UpsertSymbol(f)
    PROVE  TypeOK'
<1> DEFINE row == [run |-> job.id, file |-> f, chunk |-> job.found[f], status |-> "active"]
<1>1. job.id \in Nat /\ job.found[f] \in Texts
  BY DEF TypeOK, UpsertSymbol, ChunkExists, TextOrNone
<1>2. row \in SymbolRow
  BY <1>1 DEF SymbolRow
<1>3. symbols' = [symbols EXCEPT ![Defines[job.found[f]]] = row]
  BY DEF UpsertSymbol
<1> HIDE DEF row
<1>4. symbols' \in [Symbols -> SymbolRow]
  BY <1>2, <1>3 DEF TypeOK
<1> QED
  BY <1>4 DEF UpsertSymbol, TypeOK, corpus

LEMMA ReferenceTypes ==
    ASSUME TypeOK, TodoInv, NEW x \in Reference, UpsertReference(x)
    PROVE  TypeOK'
<1> DEFINE row == [run |-> job.id, source |-> SourceOf(x), chunk |-> job.found[x[1]], status |-> WrittenAs(x)]
<1>1. x \in ReferencesFound /\ x[1] \in FilesFound
  BY DEF UpsertReference, NextReference, TodoInv, ReferencesFound
<1>2. job.id \in Nat /\ job.found[x[1]] \in Texts /\ SourceOf(x) \in SymbolOrNull /\ WrittenAs(x) \in Resolution
  BY <1>1, JobData DEF TypeOK
<1>3. row \in ReferenceRow
  BY <1>2 DEF ReferenceRow, TextOrNone
<1>4. references' = [references EXCEPT ![x] = row]
  BY DEF UpsertReference
<1> HIDE DEF row
<1>5. references' \in [Reference -> ReferenceRow]
  BY <1>3, <1>4 DEF TypeOK
<1>6. todo' \subseteq Reference /\ phase' # "symbols"
  BY DEF UpsertReference, TypeOK
<1> QED
  BY <1>5, <1>6 DEF UpsertReference, TypeOK, corpus

LEMMA ReconcileTypes == ASSUME TypeOK, ReconcileScope \/ ReconcileDeleted PROVE TypeOK'
<1>1. \A x \in Reference : references[x] \in ReferenceRow
  BY DEF TypeOK
<1>2. \A y \in Relation : relations[y] \in RelationRow
  BY DEF TypeOK
<1>3. \A s \in Symbols : symbols[s] \in SymbolRow
  BY DEF TypeOK
<1>4. \A s \in Symbols, status \in {"active", "stale", "deleted"} :
        Lives(s) => [symbols[s] EXCEPT !.status = status] \in SymbolRow
  BY <1>3 DEF Lives, SymbolRow
<1>5. \A y \in Relation : [relations[y] EXCEPT !.status = "stale"] \in RelationRow
  BY <1>2 DEF RelationRow
<1>6. \A x \in Reference : [references[x] EXCEPT !.status = "unresolved"] \in ReferenceRow
  BY <1>1 DEF ReferenceRow, Resolution
<1>7. NoReferenceRow \in ReferenceRow /\ NoRelationRow \in RelationRow
  BY DEF NoReferenceRow, ReferenceRow, NoRelationRow, RelationRow, TextOrNone, SymbolOrNull, Resolution
<1>8. symbols' \in [Symbols -> SymbolRow]
  BY <1>3, <1>4 DEF ReconcileScope, ReconcileDeleted, Outdated
<1>9. references' \in [Reference -> ReferenceRow]
  BY <1>1, <1>6, <1>7 DEF ReconcileScope, ReconcileDeleted
<1>10. relations' \in [Relation -> RelationRow]
  BY <1>2, <1>5, <1>7 DEF ReconcileScope, ReconcileDeleted
<1>11. candidates' \in [Relation -> SUBSET Symbols]
  BY DEF TypeOK, ReconcileScope, ReconcileDeleted
<1> QED
  BY <1>8, <1>9, <1>10, <1>11 DEF ReconcileScope, ReconcileDeleted, TypeOK, Phase, corpus

LEMMA DecidedData ==
    ASSUME TypeOK, NEW x \in Reference
    PROVE  /\ Decided(x).status \in Resolution /\ Decided(x).target \in SymbolOrNull
           /\ Decided(x).among \subseteq Symbols /\ RelationOf(x) \in Relation
           /\ seen[x] \in ReferenceRow /\ job.id \in Nat
<1>1. x[2] \in Refs
  BY DEF Reference
<1> QED
  BY <1>1, DecisionData DEF Decided, RelationOf, Relation, TypeOK

LEMMA ResolutionTypes ==
    ASSUME TypeOK, NEW x \in Reference, UpsertRelation(x) \/ ReplaceCandidates(x) \/ UpdateReference(x)
    PROVE  TypeOK'
<1> USE DecidedData
<1>1. CASE UpsertRelation(x)
  <2> DEFINE row == [run |-> job.id, source |-> seen[x].source, target |-> Decided(x).target,
                     chunk |-> seen[x].chunk, resolution |-> Decided(x).status, status |-> "active"]
  <2>1. row \in RelationRow
    BY DEF RelationRow, ReferenceRow
  <2>2. relations' = [relations EXCEPT ![RelationOf(x)] = row]
    BY <1>1 DEF UpsertRelation
  <2> HIDE DEF row
  <2>3. relations' \in [Relation -> RelationRow]
    BY <2>1, <2>2 DEF TypeOK
  <2> QED
    BY <1>1, <2>3 DEF UpsertRelation, TypeOK, Phase, corpus
<1>2. CASE ReplaceCandidates(x)
  <2>1. candidates' \in [Relation -> SUBSET Symbols]
    BY <1>2 DEF ReplaceCandidates, TypeOK
  <2> QED
    BY <1>2, <2>1 DEF ReplaceCandidates, TypeOK, Phase, corpus
<1>3. CASE UpdateReference(x)
  <2> DEFINE row == [run |-> job.id, source |-> seen[x].source, chunk |-> seen[x].chunk,
                     status |-> Decided(x).status]
  <2>1. row \in ReferenceRow
    BY DEF ReferenceRow
  <2>2. references' = [references EXCEPT ![x] = row]
    BY <1>3 DEF UpdateReference
  <2> HIDE DEF row
  <2>3. references' \in [Reference -> ReferenceRow]
    BY <2>1, <2>2 DEF TypeOK
  <2>4. todo' \subseteq Reference
    BY <1>3 DEF UpdateReference, TypeOK
  <2> QED
    BY <1>3, <2>3, <2>4 DEF UpdateReference, TypeOK, Phase, corpus
<1> QED
  BY <1>1, <1>2, <1>3

LEMMA TypesKept == ASSUME TypeOK, TodoInv, [Next]_vars PROVE TypeOK'
<1>1. CASE UNCHANGED vars
  BY <1>1 DEF vars, TypeOK
<1>2. CASE Next
  BY <1>2, IngestTypes, DiscoveryTypes, FinishTypes, EndTypes, LoopTypes, SymbolTypes, ReferenceTypes,
      ReconcileTypes, ResolutionTypes DEF Next, Program
<1> QED
  BY <1>1, <1>2

---------------------------------------------------------------------------
(* The rows and the texts. *)

LEMMA IngestKeepsTexts == ASSUME TypeOK, PublishedIsInText, Ingest PROVE PublishedIsInText'
<1>1. PICK f \in Files :
        \/ \E t \in Texts : IngestDocument(f, t)
        \/ IngestFailure(f)
        \/ \E how \in {"skipped", "deleted"} : IngestRemoval(f, how)
  BY DEF Ingest
<1>2. CASE IngestFailure(f)
  BY <1>2 DEF IngestFailure, knowledge, PublishedIsInText, Lives
<1>3. CASE ~IngestFailure(f)
  <2>1. DropDocument(f) /\ \A g \in Files \ {f} : text'[g] = text[g]
    BY <1>1, <1>3 DEF IngestDocument, IngestRemoval, TypeOK
  <2>2. ASSUME NEW s \in Symbols, Lives(s)'
        PROVE  text'[symbols'[s].file] = symbols'[s].chunk /\ Defines[symbols'[s].chunk] = s
    <3>1. symbols'[s] = symbols[s] /\ Lives(s) /\ symbols[s].file # f
      BY <2>1, <2>2 DEF DropDocument, Dropped, Lives, NoSymbolRow
    <3>2. symbols[s].file \in Files
      BY <3>1 DEF TypeOK, SymbolRow, Lives
    <3> QED
      BY <2>1, <3>1, <3>2 DEF PublishedIsInText
  <2>3. ASSUME NEW x \in Reference, references'[x].chunk # NoText
        PROVE  text'[x[1]] = references'[x].chunk /\ x[2] \in Refers[text'[x[1]]]
    <3>1. references[x] \in ReferenceRow
      BY DEF TypeOK
    <3>2. references'[x].chunk = IF x[1] = f THEN NoText ELSE references[x].chunk
      BY <2>1, <3>1 DEF DropDocument, ReferenceRow
    <3>3. x[1] \in Files \ {f} /\ references'[x].chunk = references[x].chunk
      BY <2>3, <3>2 DEF Reference
    <3> QED
      BY <2>1, <2>3, <3>3 DEF PublishedIsInText
  <2> QED
    BY <2>2, <2>3 DEF PublishedIsInText
<1> QED
  BY <1>2, <1>3

\* A run writes a symbol or a reference whose chunk exists at that moment: the database checks.
LEMMA WritesKeepTexts ==
    ASSUME AnalysisInv,
           \/ \E f \in Files : UpsertSymbol(f)
           \/ \E x \in Reference : UpsertReference(x)
           \/ \E x \in Reference : UpdateReference(x)
    PROVE  PublishedIsInText'
<1> USE DEF AnalysisInv
<1>1. ASSUME NEW f \in Files, UpsertSymbol(f) PROVE PublishedIsInText'
  <2> DEFINE t == job.found[f]
             row == [run |-> job.id, file |-> f, chunk |-> t, status |-> "active"]
  <2>1. text[f] = t /\ text' = text /\ references' = references /\ symbols' = [symbols EXCEPT ![Defines[t]] = row]
    BY <1>1 DEF UpsertSymbol, ChunkExists, corpus
  <2>2. \A s \in Symbols : symbols'[s] = IF s = Defines[t] THEN row ELSE symbols[s]
    BY <2>1 DEF TypeOK
  <2>3. row.file = f /\ row.chunk = t
    OBVIOUS
  <2> HIDE DEF row, t
  <2> QED
    BY <2>1, <2>2, <2>3 DEF PublishedIsInText, Lives
<1>2. ASSUME NEW x \in Reference, UNCHANGED <<text, symbols>>, NEW row, row.chunk # NoText,
             references' = [references EXCEPT ![x] = row],
             text[x[1]] = row.chunk, x[2] \in Refers[row.chunk]
      PROVE  PublishedIsInText'
  <2>1. \A y \in Reference : references'[y] = IF y = x THEN row ELSE references[y]
    BY <1>2 DEF TypeOK
  <2> QED
    BY <1>2, <2>1 DEF PublishedIsInText, Lives
<1>3. ASSUME NEW x \in Reference, UpsertReference(x) PROVE PublishedIsInText'
  <2> DEFINE row == [run |-> job.id, source |-> SourceOf(x), chunk |-> job.found[x[1]], status |-> WrittenAs(x)]
  <2>1. x \in ReferencesFound
    BY <1>3 DEF UpsertReference, NextReference, TodoInv
  <2>2. row.chunk = job.found[x[1]] /\ references' = [references EXCEPT ![x] = row]
    BY <1>3 DEF UpsertReference
  <2>3. UNCHANGED <<text, symbols>> /\ text[x[1]] = job.found[x[1]] /\ job.found[x[1]] # NoText
    BY <1>3 DEF UpsertReference, ChunkExists, corpus
  <2> HIDE DEF row
  <2> QED
    BY <1>2, <2>1, <2>2, <2>3 DEF ReferencesFound
<1>4. ASSUME NEW x \in Reference, UpdateReference(x) PROVE PublishedIsInText'
  <2> DEFINE row == [run |-> job.id, source |-> seen[x].source, chunk |-> seen[x].chunk,
                     status |-> Decided(x).status]
  <2>1. row.chunk = seen[x].chunk /\ references' = [references EXCEPT ![x] = row]
    BY <1>4 DEF UpdateReference
  <2>2. UNCHANGED <<text, symbols>> /\ text[x[1]] = seen[x].chunk /\ seen[x].chunk # NoText
    BY <1>4 DEF UpdateReference, RowsExist, ChunkExists, corpus
  <2> HIDE DEF row
  <2> QED
    BY <1>2, <2>1, <2>2 DEF SeenInv
<1> QED
  BY <1>1, <1>3, <1>4

LEMMA ReconcileKeepsTexts ==
    ASSUME TypeOK, PublishedIsInText, ReconcileScope \/ ReconcileDeleted PROVE PublishedIsInText'
<1>1. text' = text
  BY DEF ReconcileScope, ReconcileDeleted, corpus
<1>2. \A s \in Symbols : symbols'[s].run = symbols[s].run /\
        (Lives(s) => symbols'[s].file = symbols[s].file /\ symbols'[s].chunk = symbols[s].chunk)
  BY DEF TypeOK, SymbolRow, Lives, ReconcileScope, ReconcileDeleted, Outdated
<1>3. \A x \in Reference : references'[x].chunk \in {references[x].chunk, NoText}
  BY DEF TypeOK, ReferenceRow, ReconcileScope, ReconcileDeleted, NoReferenceRow
<1> QED
  BY <1>1, <1>2, <1>3 DEF PublishedIsInText, Lives

LEMMA TextsKept == ASSUME AnalysisInv, [Next]_vars PROVE PublishedIsInText'
<1>1. TypeOK /\ PublishedIsInText
  BY DEF AnalysisInv
<1>2. CASE UNCHANGED <<text, symbols, references>>
  BY <1>1, <1>2 DEF PublishedIsInText, Lives
<1>3. CASE ~UNCHANGED <<text, symbols, references>>
  <2>1. \/ Ingest \/ ReconcileScope \/ ReconcileDeleted
        \/ \E f \in Files : UpsertSymbol(f)
        \/ \E x \in Reference : UpsertReference(x)
        \/ \E x \in Reference : UpdateReference(x)
    BY <1>3 DEF Next, vars, Program, Start, Discover, CancelDiscovery, BeginRun, Extract, CancelExtraction, DryRun,
        Persist, SymbolsDone, ReferencesDone, ReadSymbols, ReadReferences, UpsertRelation, ReplaceCandidates,
        ForeignKeyViolated, Abort, FinishRun, Return, Cancel, DatabaseFault, Crash, corpus, knowledge
  <2> QED
    BY <1>1, <2>1, IngestKeepsTexts, WritesKeepTexts, ReconcileKeepsTexts
<1> QED
  BY <1>2, <1>3

LEMMA SeenKept == ASSUME AnalysisInv, [Next]_vars PROVE SeenInv'
<1>1. SeenInv /\ PublishedIsInText
  BY DEF AnalysisInv
<1>2. CASE seen' = seen
  BY <1>1, <1>2 DEF SeenInv
<1>3. CASE seen' # seen
  <2>1. ReadReferences \/ Exit
    BY <1>3 DEF Next, vars, Program, Start, Ingest, IngestDocument, IngestFailure, IngestRemoval, process, Discover,
        CancelDiscovery, BeginRun, Extract, CancelExtraction, DryRun, Persist, SymbolsDone, ReferencesDone,
        ReadSymbols, UpsertSymbol, UpsertReference, ReconcileScope, ReconcileDeleted, UpsertRelation,
        ReplaceCandidates, UpdateReference, ForeignKeyViolated, Abort, FinishRun, Return, Cancel,
        DatabaseFault, Crash
  <2>2. CASE ReadReferences
    BY <1>1, <2>2 DEF ReadReferences, SeenInv, PublishedIsInText
  <2>3. CASE Exit
    BY <2>3, ExitData DEF SeenInv
  <2> QED
    BY <2>1, <2>2, <2>3
<1> QED
  BY <1>2, <1>3

LEMMA TodoKept == ASSUME AnalysisInv, [Next]_vars PROVE TodoInv'
<1> SUFFICES ASSUME phase' = "references" PROVE todo' \subseteq ReferencesFound'
  BY DEF TodoInv
<1>1. CASE phase = "references" /\ job' = job /\ todo' \subseteq todo
  BY <1>1 DEF AnalysisInv, TodoInv, ReferencesFound, FilesFound
<1>2. CASE SymbolsDone
  BY <1>2 DEF SymbolsDone, ReferencesFound, FilesFound
<1>3. SymbolsDone \/ (phase = "references" /\ job' = job /\ todo' \subseteq todo)
  BY DEF Next, vars, Program, Start, Ingest, IngestDocument, IngestFailure, IngestRemoval, process, Discover,
      CancelDiscovery, BeginRun, Extract, CancelExtraction, DryRun, Finish, Persist, ReferencesDone,
      ReadSymbols, ReadReferences, UpsertSymbol, UpsertReference, ReconcileScope, ReconcileDeleted,
      UpsertRelation, ReplaceCandidates, UpdateReference, ForeignKeyViolated, Abort, FinishRun, Return, Exit,
      Cancel, DatabaseFault, Crash
<1> QED
  BY <1>1, <1>2, <1>3

---------------------------------------------------------------------------
(* The rows and the runs. *)

\* A step that opens no run: it writes for the run that is writing, and may end one that reads.
LEMMA RunsGoOn ==
    ASSUME TypeOK, RunsInv, Len(runs') = Len(runs),
           \A n \in 1..Len(runs) : runs'[n].status = "interrupted" =>
                runs[n].status = "interrupted" \/ (n = job.id /\ phase \in Reading),
           \A n : Wrote(n)' => Wrote(n) \/ n = 0 \/ (n = job.id /\ phase \in Writing),
           phase' \in Reading => phase \in Reading,
           phase' \in Reading \cup Writing =>
                phase \in Reading \cup Writing /\ job'.id = job.id /\ runs' = runs
    PROVE  RunsInv'
<1>1. job.id \in 0..Len(runs) /\ Len(runs) \in Nat
  BY DEF TypeOK
<1>2. Reading \cap Writing = {}
  BY DEF Reading, Writing
<1>3. ASSUME NEW n, Wrote(n)' PROVE n \in 0..Len(runs')
  BY <1>1, <1>3 DEF RunsInv
<1>4. ASSUME NEW n \in 1..Len(runs'), runs'[n].status = "interrupted", Wrote(n)' PROVE FALSE
  <2>1. n # 0 /\ n \in 1..Len(runs)
    BY <1>4
  <2>2. Wrote(n) \/ (n = job.id /\ phase \in Writing)
    BY <1>4, <2>1
  <2>3. n = job.id /\ phase \in Writing => runs[n].status = "running"
    BY <2>1 DEF RunsInv
  <2> QED
    BY <1>2, <1>4, <2>1, <2>2, <2>3 DEF RunsInv
<1>5. phase' \in Reading /\ job'.id # 0 => ~Wrote(job'.id)
  BY <1>2 DEF RunsInv
<1>6. phase' \in Reading /\ job'.id # 0 => ~(Wrote(job.id)')
  <2> SUFFICES ASSUME phase' \in Reading, job'.id # 0 PROVE ~(Wrote(job.id)')
    OBVIOUS
  <2>1. phase \in Reading /\ phase \notin Writing /\ job'.id = job.id
    BY <1>2
  <2>2. \A n : n = job'.id => ~(Wrote(n)')
    BY <1>5, <2>1
  <2> QED
    BY <2>2 DEF Wrote
<1> QED
  BY <1>3, <1>4, <1>6 DEF RunsInv

LEMMA KnowledgeUnchanged == UNCHANGED knowledge => \A n : Wrote(n)' => Wrote(n)
  BY DEF knowledge, Wrote

\* Ingestion removes rows and gives none to a run.
LEMMA IngestKeepsRuns == ASSUME TypeOK, RunsInv, Ingest PROVE RunsInv'
<1>1. PICK f \in Files :
        \/ \E t \in Texts : IngestDocument(f, t)
        \/ IngestFailure(f)
        \/ \E how \in {"skipped", "deleted"} : IngestRemoval(f, how)
  BY DEF Ingest
<1>2. UNCHANGED <<runs, process>>
  BY <1>1 DEF IngestDocument, IngestFailure, IngestRemoval
<1>3. \A n : Wrote(n)' => Wrote(n) \/ n = 0
  <2>1. CASE UNCHANGED knowledge
    BY <2>1, KnowledgeUnchanged
  <2>2. CASE DropDocument(f)
    <3>1. \A s \in Symbols : symbols'[s].run \in {symbols[s].run, 0}
      BY <2>2 DEF DropDocument, NoSymbolRow
    <3>2. \A x \in Reference : references'[x].run = references[x].run
      BY <2>2 DEF DropDocument, TypeOK, ReferenceRow
    <3>3. \A y \in Relation : relations'[y].run = relations[y].run
      BY <2>2 DEF DropDocument, TypeOK, RelationRow
    <3> QED
      BY <3>1, <3>2, <3>3 DEF Wrote
  <2> QED
    BY <1>1, <2>1, <2>2 DEF IngestDocument, IngestFailure, IngestRemoval
<1>4. runs' = runs /\ job' = job /\ phase' = phase
  BY <1>2 DEF process
<1>5. \A n \in 1..Len(runs) : runs'[n].status = "interrupted" => runs[n].status = "interrupted"
  BY <1>4
<1> QED
  BY <1>3, <1>4, <1>5, RunsGoOn

\* Steps of a run that leave the rows alone and close nothing.
LEMMA QuietKeepsRuns ==
    ASSUME TypeOK, RunsInv,
           \/ Start \/ CancelDiscovery \/ Extract \/ Persist \/ SymbolsDone \/ ReferencesDone
           \/ ReadSymbols \/ ReadReferences \/ Return \/ Cancel \/ ForeignKeyViolated
           \/ DatabaseFault \/ Crash
    PROVE  RunsInv'
<1>1. runs' = runs /\ UNCHANGED knowledge
  BY DEF Start, Discover, CancelDiscovery, Extract, Persist, SymbolsDone, ReferencesDone, ReadSymbols,
      ReadReferences, Return, Cancel, ForeignKeyViolated, Abort, DatabaseFault, Crash
<1>2. \/ phase' \notin Reading \cup Writing
      \/ /\ phase \in Reading \cup Writing /\ job' = job
         /\ phase' \in Reading => phase \in Reading
  BY DEF Start, Discover, CancelDiscovery, Extract, Persist, SymbolsDone, ReferencesDone, ReadSymbols,
      ReadReferences, Return, Cancel, ForeignKeyViolated, Abort, DatabaseFault, Crash, Exit, Reading, Writing, TypeOK,
      Phase
<1> QED
  BY <1>1, <1>2, KnowledgeUnchanged, RunsGoOn

LEMMA FinishKeepsRuns ==
    ASSUME TypeOK, RunsInv, CancelExtraction \/ DryRun \/ FinishRun PROVE RunsInv'
<1>1. UNCHANGED knowledge
  BY DEF CancelExtraction, DryRun, FinishRun
<1>2. PICK status \in RunStatus, counters \in Counters :
        Finish(status, counters) /\ (status = "interrupted" => phase \in Reading)
  <2>1. Resolved([x \in ReferencesFound |-> SourceOf(x)], Extracted) \in Counters
    BY CountersData, JobData DEF TypeOK
  <2> QED
    BY <2>1 DEF CancelExtraction, DryRun, FinishRun, RunStatus, TypeOK, Reading
<1>3. Len(runs') = Len(runs) /\ phase' = "done" /\ phase' \notin Reading \cup Writing
  BY <1>2, FinishData DEF Reading, Writing
<1>4. \A n \in 1..Len(runs) : runs'[n].status = "interrupted" =>
        runs[n].status = "interrupted" \/ (n = job.id /\ phase \in Reading)
  BY <1>2, FinishData
<1> QED
  BY <1>1, <1>3, <1>4, KnowledgeUnchanged, RunsGoOn

LEMMA BeginKeepsRuns == ASSUME TypeOK, FreshInv, RunsInv, BeginRun PROVE RunsInv'
<1>1. UNCHANGED knowledge /\ phase = "discovered" /\ phase' = "extract"
  BY DEF BeginRun
<1>2. \A n : Wrote(n)' => n \in 0..Len(runs)
  BY <1>1, KnowledgeUnchanged DEF RunsInv
<1>3. Len(runs) \in Nat /\ runs \in Seq([status : RunStatus, counters : Counters]) /\ job.id \in 0..Len(runs)
  BY DEF TypeOK
<1>4. CASE UNCHANGED <<runs, job>> /\ job.id = 0
  <2>1. \A n \in 1..Len(runs) : runs[n].status = "interrupted" => ~(Wrote(n)')
    BY <1>1, KnowledgeUnchanged DEF RunsInv
  <2> QED
    BY <1>2, <1>4, <2>1 DEF RunsInv
<1>5. CASE ~job.dry
  <2> DEFINE row == [status |-> "running", counters |-> NoCounters]
  <2>1. row \in [status : RunStatus, counters : Counters] /\ row.status = "running"
    BY DEF RunStatus, NoCounters, Counters
  <2>2. runs' = Append(runs, row) /\ job' = [job EXCEPT !.id = Len(runs) + 1]
    BY <1>5 DEF BeginRun
  <2> HIDE DEF row
  <2>3. /\ Len(runs') = Len(runs) + 1 /\ runs'[Len(runs) + 1].status = "running"
        /\ \A n \in 1..Len(runs) : runs'[n] = runs[n]
    BY <1>3, <2>1, <2>2
  <2>4. job'.id = Len(runs) + 1
    BY <2>2 DEF TypeOK
  <2>5. \A n \in 1..Len(runs') : runs'[n].status = "interrupted" => ~(Wrote(n)')
    <3> SUFFICES ASSUME NEW n \in 1..Len(runs'), runs'[n].status = "interrupted" PROVE ~(Wrote(n)')
      OBVIOUS
    <3>1. n \in 1..Len(runs)
      BY <1>3, <2>3
    <3>2. ~Wrote(n)
      BY <2>3, <3>1 DEF RunsInv
    <3> QED
      BY <1>1, <3>2, KnowledgeUnchanged
  <2>6. ~(Wrote(job.id)')
    <3>1. Len(runs) + 1 \notin 0..Len(runs)
      BY <1>3
    <3>2. \A n : n = job'.id => ~(Wrote(n)')
      BY <1>2, <2>4, <3>1
    <3> QED
      BY <3>2 DEF Wrote
  <2>7. \A n : Wrote(n)' => n \in 0..Len(runs')
    BY <1>2, <1>3, <2>3
  <2> QED
    BY <2>3, <2>4, <2>5, <2>6, <2>7 DEF RunsInv
<1>6. job.dry => UNCHANGED <<runs, job>> /\ job.id = 0
  BY DEF BeginRun, FreshInv
<1> QED
  BY <1>4, <1>5, <1>6

\* Every row that a writing run leaves is its own, or one that was there.
LEMMA WritesKeepRuns ==
    ASSUME TypeOK, RunsInv,
           \/ \E f \in Files : UpsertSymbol(f)
           \/ \E x \in Reference : UpsertReference(x) \/ UpsertRelation(x) \/ ReplaceCandidates(x)
                                   \/ UpdateReference(x)
           \/ ReconcileScope \/ ReconcileDeleted
    PROVE  RunsInv'
<1>1. runs' = runs /\ job' = job /\ phase \in Writing /\ phase' \in Writing
  BY DEF UpsertSymbol, UpsertReference, UpsertRelation, ReplaceCandidates, UpdateReference, ReconcileScope,
      ReconcileDeleted, Writing
<1>2. \A s \in Symbols : symbols'[s].run \in {symbols[s].run, job.id}
  <2>1. CASE UNCHANGED symbols
    BY <2>1
  <2>2. CASE \E f \in Files : UpsertSymbol(f)
    BY <2>2 DEF UpsertSymbol, TypeOK
  <2>3. \A s \in Symbols : Lives(s) => [symbols[s] EXCEPT !.status = "stale"].run = symbols[s].run
                             /\ [symbols[s] EXCEPT !.status = "deleted"].run = symbols[s].run
    <3> SUFFICES ASSUME NEW s \in Symbols, Lives(s)
                 PROVE  [symbols[s] EXCEPT !.status = "stale"].run = symbols[s].run
                        /\ [symbols[s] EXCEPT !.status = "deleted"].run = symbols[s].run
      OBVIOUS
    <3>1. symbols[s] \in [run : Nat, file : Files, chunk : Texts, status : {"active", "stale", "deleted"}]
      BY DEF TypeOK, SymbolRow, Lives
    <3> QED
      BY <3>1
  <2>4. CASE ReconcileScope
    BY <2>3, <2>4 DEF ReconcileScope, Outdated
  <2>5. CASE ReconcileDeleted
    BY <2>3, <2>5 DEF ReconcileDeleted
  <2> QED
    BY <2>1, <2>2, <2>4, <2>5 DEF UpsertReference, UpsertRelation, ReplaceCandidates, UpdateReference
<1>3. \A x \in Reference : references'[x].run \in {references[x].run, job.id, 0}
  <2>1. CASE UNCHANGED references
    BY <2>1
  <2>2. CASE \E x \in Reference : UpsertReference(x) \/ UpdateReference(x)
    BY <2>2 DEF UpsertReference, UpdateReference, TypeOK
  <2>3. CASE ReconcileScope
    BY <2>3 DEF ReconcileScope, NoReferenceRow
  <2>4. CASE ReconcileDeleted
    BY <2>4 DEF ReconcileDeleted, TypeOK, ReferenceRow
  <2> QED
    BY <2>1, <2>2, <2>3, <2>4 DEF UpsertSymbol, UpsertRelation, ReplaceCandidates
<1>4. \A y \in Relation : relations'[y].run \in {relations[y].run, job.id, 0}
  <2>1. CASE UNCHANGED relations
    BY <2>1
  <2>2. CASE \E x \in Reference : UpsertRelation(x)
    BY <2>2 DEF UpsertRelation, TypeOK
  <2>3. CASE ReconcileScope
    BY <2>3 DEF ReconcileScope, NoRelationRow, TypeOK, RelationRow
  <2>4. CASE ReconcileDeleted
    BY <2>4 DEF ReconcileDeleted, TypeOK, RelationRow
  <2> QED
    BY <2>1, <2>2, <2>3, <2>4 DEF UpsertSymbol, UpsertReference, UpdateReference, ReplaceCandidates
<1>5. \A n : Wrote(n)' => Wrote(n) \/ n = 0 \/ n = job.id
  BY <1>2, <1>3, <1>4 DEF Wrote
<1>6. Reading \cap Writing = {}
  BY DEF Reading, Writing
<1> QED
  BY <1>1, <1>5, <1>6, RunsGoOn

LEMMA RunsKept == ASSUME AnalysisInv, [Next]_vars PROVE RunsInv'
<1>1. TypeOK /\ FreshInv /\ RunsInv
  BY DEF AnalysisInv
<1>2. CASE Ingest
  BY <1>1, <1>2, IngestKeepsRuns
<1>3. CASE BeginRun
  BY <1>1, <1>3, BeginKeepsRuns
<1>4. CASE CancelExtraction \/ DryRun \/ FinishRun
  BY <1>1, <1>4, FinishKeepsRuns
<1>5. CASE \/ \E f \in Files : UpsertSymbol(f)
           \/ \E x \in Reference : UpsertReference(x) \/ UpsertRelation(x) \/ ReplaceCandidates(x)
                                   \/ UpdateReference(x)
           \/ ReconcileScope \/ ReconcileDeleted
  BY <1>1, <1>5, WritesKeepRuns
<1>6. CASE \/ Start \/ CancelDiscovery \/ Extract \/ Persist \/ SymbolsDone \/ ReferencesDone
           \/ ReadSymbols \/ ReadReferences \/ Return \/ Cancel \/ ForeignKeyViolated
           \/ DatabaseFault \/ Crash
  BY <1>1, <1>6, QuietKeepsRuns
<1>7. CASE UNCHANGED vars
  BY <1>1, <1>7 DEF vars, RunsInv, Wrote
<1> QED
  BY <1>2, <1>3, <1>4, <1>5, <1>6, <1>7 DEF Next, Program

LEMMA FreshKept == ASSUME AnalysisInv, [Next]_vars PROVE FreshInv'
<1> SUFFICES ASSUME phase' = "discovered" PROVE job'.id = 0
  BY DEF FreshInv
<1>1. CASE Start
  BY <1>1 DEF Start, Discover
<1>2. Start \/ (phase = "discovered" /\ job' = job)
  BY DEF Next, vars, Program, Ingest, IngestDocument, IngestFailure, IngestRemoval, process,
      CancelDiscovery, BeginRun, Extract, CancelExtraction, DryRun, Finish, Persist, SymbolsDone, ReferencesDone,
      ReadSymbols, ReadReferences, UpsertSymbol, UpsertReference, ReconcileScope, ReconcileDeleted,
      UpsertRelation, ReplaceCandidates, UpdateReference, ForeignKeyViolated, Abort, FinishRun, Return, Exit,
      Cancel, DatabaseFault, Crash
<1> QED
  BY <1>1, <1>2 DEF AnalysisInv, FreshInv

---------------------------------------------------------------------------
(* The theorems. *)

LEMMA InitHolds == Init => AnalysisInv
<1> SUFFICES ASSUME Init PROVE AnalysisInv
  OBVIOUS
<1>1. TypeOK
  <2>1. NoSymbolRow \in SymbolRow
    BY DEF NoSymbolRow, SymbolRow
  <2>2. NoReferenceRow \in ReferenceRow
    BY DEF NoReferenceRow, ReferenceRow, SymbolOrNull, TextOrNone, Resolution
  <2>3. NoRelationRow \in RelationRow
    BY DEF NoRelationRow, RelationRow, SymbolOrNull, TextOrNone, Resolution
  <2>4. NoCounters \in Counters
    BY DEF NoCounters, Counters
  <2>5. runs \in Seq([status : RunStatus, counters : Counters]) /\ Len(runs) = 0
    BY DEF Init
  <2>6. job \in [id : 0..Len(runs), whole : BOOLEAN, dry : BOOLEAN,
               found : [Files -> TextOrNone], status : RunStatus]
    BY <2>5 DEF Init, NoJob, TextOrNone, RunStatus
  <2>7. text \in [Files -> TextOrNone] /\ state \in [Files -> FileState]
    BY DEF Init, TextOrNone, FileState
  <2>8. edits \in 0..MaxEdits
    BY AnalysisBounds DEF Init
  <2>9. candidates \in [Relation -> SUBSET Symbols] /\ phase \in Phase
    BY DEF Init, Phase
  <2> QED
    BY <2>1, <2>2, <2>3, <2>4, <2>5, <2>6, <2>7, <2>8, <2>9 DEF TypeOK, Init
<1>2. PublishedIsInText
  BY DEF Init, PublishedIsInText, Lives, NoSymbolRow, NoReferenceRow
<1>3. SeenInv
  BY DEF Init, SeenInv, NoReferenceRow
<1>4. TodoInv /\ FreshInv
  BY DEF Init, TodoInv, FreshInv
<1>5. RunsInv
  <2>1. \A n : Wrote(n) => n = 0
    BY DEF Init, Wrote, NoSymbolRow, NoReferenceRow, NoRelationRow
  <2>2. Len(runs) = 0 /\ phase \notin Reading \cup Writing
    BY DEF Init, Reading, Writing
  <2> QED
    BY <2>1, <2>2 DEF RunsInv
<1> QED
  BY <1>1, <1>2, <1>3, <1>4, <1>5 DEF AnalysisInv

LEMMA AnalysisStep == AnalysisInv /\ [Next]_vars => AnalysisInv'
  BY TypesKept, TextsKept, SeenKept, TodoKept, FreshKept, RunsKept DEF AnalysisInv

\* Every table, and the memory of the process, holds what its type says, however the
\* steps of analysis, of ingestion and the faults follow one another.
THEOREM TypeCorrect == Spec => []TypeOK
<1>1. AnalysisInv => TypeOK
  BY DEF AnalysisInv
<1> QED
  BY <1>1, InitHolds, AnalysisStep, PTL DEF Spec

\* A symbol or a reference that analysis publishes is in the text its file has now,
\* although ingestion commits between any two of its statements; and no row carries the
\* number of a run that Ctrl+C ended.
THEOREM Published == Spec => []PublishedIsTrue
<1>1. AnalysisInv => PublishedIsTrue
  BY DEF AnalysisInv, PublishedIsTrue, InterruptedPublishesNothing, RunsInv, Wrote
<1> QED
  BY <1>1, InitHolds, AnalysisStep, PTL DEF Spec

---------------------------------------------------------------------------
(* A run that ingestion leaves in peace: its invariant. *)

\* A run that completed, dry runs apart.
Closed == phase = "done" /\ job.status = "completed" /\ ~job.dry
At(phases) == phase \in phases \/ Closed

\* What has been done when the run is in one of these phases.
Resolving == {"relation", "candidates", "reference"}
Reconciled == {"deleted", "catalogue", "pending"} \cup Resolving
Filled == {"scope"} \cup Reconciled
Named == {"references"} \cup Filled

\* Current documents have a text.
CorpusInv == \A f \in Vigente : text[f] \in Texts

JobInv ==
    /\ phase \in Writing => ~job.dry
    /\ At(Reading \cup Writing) /\ ~job.dry => job.id # 0

\* The texts found are those there are.
SourcesInv ==
    At({"discovered"} \cup Reading \cup Writing) =>
        /\ \A f \in FilesFound : f \in Written /\ job.found[f] = text[f]
        /\ job.whole => FilesFound = Written

Given(f) ==
    symbols[Defines[job.found[f]]] =
        [run |-> job.id, file |-> f, chunk |-> job.found[f], status |-> "active"]

\* The run gives a row to each symbol that it found, and takes the others of its files away.
SymbolsInv ==
    /\ phase = "symbols" => /\ \A f \in todo : Definer(f)
                            /\ \A f \in Files : Definer(f) => f \in todo \/ Given(f)
    /\ At(Named) => \A f \in Files : Definer(f) => Given(f)
    /\ At(Writing) => \A s \in Symbols : symbols[s].run = job.id =>
            \E f \in Files : Definer(f) /\ Defines[job.found[f]] = s /\ Given(f)
    /\ At(Reconciled) => \A s \in Active : symbols[s].file \in FilesFound =>
            symbols[s].run = job.id

ReferencesInv ==
    /\ phase = "references" => \A x \in ReferencesFound : x \in todo \/ references[x].run = job.id
    /\ phase = "scope" => \A x \in ReferencesFound : references[x].run = job.id
    /\ phase \in {"symbols", "references", "scope"} =>
            \A x \in Reference : references[x].run = job.id => x \in ReferencesFound
    /\ At(Reconciled) => \A x \in Reference : x[1] \in FilesFound =>
            (references[x].run # 0 <=> x \in ReferencesFound)

RelationsInv ==
    /\ phase \in Writing \ Resolving => \A y \in Relation : relations[y].run # job.id
    /\ At(Reconciled) => \A y \in Relation :
            y[1][1] \in FilesFound /\ relations[y].status = "active" => relations[y].run = job.id

\* The relation that was decided for x is there, and no other of this run.
Related(x) ==
    /\ relations[RelationOf(x)] =
          [run |-> job.id, source |-> seen[x].source, target |-> Decided(x).target,
           chunk |-> seen[x].chunk, resolution |-> Decided(x).status, status |-> "active"]
    /\ \A y \in Relation : y[1] = x /\ relations[y].run = job.id => y = RelationOf(x)
Unrelated(x) == \A y \in Relation : y[1] = x => relations[y].run # job.id
Chosen(x) == candidates[RelationOf(x)] = Decided(x).among

Settled(x) ==
    /\ references[x].status = Decided(x).status
    /\ IF Decided(x).status = "unresolved" THEN Unrelated(x) ELSE Related(x) /\ Chosen(x)

\* A reference that is still to be resolved: only the first may have been begun.
Begun(x) ==
    \/ Unrelated(x) /\ (NextReference(x) => phase = "relation")
    \/ /\ NextReference(x) /\ phase \in {"candidates", "reference"}
       /\ Decided(x).status # "unresolved"
       /\ Related(x) /\ (phase = "reference" => Chosen(x))

ResolvingInv ==
    /\ At({"pending"} \cup Resolving) => known = Active
    /\ At(Resolving) =>
        /\ todo \subseteq Pending
        /\ \A x \in Reference : references[x].source = seen[x].source
                             /\ references[x].chunk = seen[x].chunk
        /\ \A x \in Pending : IF x \in todo THEN Begun(x) ELSE Settled(x)
    /\ Closed => todo = {}

Tally ==
    /\ At({"extracted"} \cup Writing) => m.symbols = Cardinality(Extracted)
    /\ At(Resolving) =>
        /\ m.references = Cardinality(Pending)
        /\ \A which \in {"resolved", "ambiguous"} :
              m[which] = Cardinality({x \in Pending : Decided(x).status = which})

\* A run that ingestion leaves in peace.
QuietInv ==
    ~dirty => SourcesInv /\ SymbolsInv /\ ReferencesInv /\ RelationsInv /\ ResolvingInv /\ Tally

\* Nothing is claimed of such a state.
Over == phase \notin {"discovered"} \cup Reading \cup Writing /\ ~Closed

SameJob == /\ job'.id = job.id /\ job'.found = job.found
           /\ job'.whole = job.whole /\ job'.dry = job.dry

Still == UNCHANGED <<knowledge, phase, job, todo, known, seen, m>>

\* The steps by which such a run goes on.
Moves ==
    \/ Extract \/ Persist \/ SymbolsDone \/ ReferencesDone \/ ReadSymbols \/ ReadReferences \/ FinishRun
    \/ ReconcileScope \/ ReconcileDeleted
    \/ \E f \in Files : UpsertSymbol(f)
    \/ \E x \in Reference : UpsertReference(x) \/ UpsertRelation(x) \/ ReplaceCandidates(x)
                            \/ UpdateReference(x)

LEMMA JobKept ==
    ASSUME TypeOK, Moves
    PROVE  UNCHANGED corpus /\ SameJob
<1>1. CASE FinishRun
  <2>1. job' = [job EXCEPT !.status = "completed"]
    BY <1>1 DEF FinishRun, Finish
  <2> QED
    BY <1>1, <2>1 DEF FinishRun, SameJob, TypeOK
<1>2. CASE ~FinishRun
  BY <1>2 DEF Moves, Extract, Persist, SymbolsDone, ReferencesDone, ReadSymbols, ReadReferences, ReconcileScope,
      ReconcileDeleted, UpsertSymbol, UpsertReference, UpsertRelation, ReplaceCandidates, UpdateReference, SameJob
<1> QED
  BY <1>1, <1>2

LEMMA QuietSteps ==
    ASSUME TypeOK, [Next]_vars, ~dirty'
    PROVE  \/ Start
           \/ Over'
           \/ ~dirty /\ UNCHANGED corpus /\ (BeginRun \/ (SameJob /\ (Moves \/ Still)))
<1>1. CASE CancelDiscovery \/ CancelExtraction \/ DryRun
  <2>1. phase' = "done" /\ (job'.status = "interrupted" \/ job'.dry)
    BY <1>1 DEF CancelDiscovery, CancelExtraction, DryRun, Finish, TypeOK
  <2> QED
    BY <2>1 DEF Over, Closed, Reading, Writing
<1>2. CASE Return \/ Crash \/ ForeignKeyViolated \/ DatabaseFault
  BY <1>2 DEF Return, Crash, Exit, ForeignKeyViolated, DatabaseFault, Abort, Over, Closed, Reading, Writing
<1>3. CASE Cancel \/ UNCHANGED vars
  BY <1>3 DEF Cancel, vars, corpus, knowledge, Still, SameJob
<1>4. CASE BeginRun
  BY <1>4 DEF BeginRun, corpus
<1>5. CASE Moves
  BY <1>5, JobKept DEF corpus
<1>6. ~Ingest
  BY DEF Ingest, IngestDocument, IngestFailure, IngestRemoval, Commit
<1> QED
  BY <1>1, <1>2, <1>3, <1>4, <1>5, <1>6 DEF Next, Program, Moves

\* What is said of the texts found is said of the job.
LEMMA FoundKept ==
    ASSUME SameJob
    PROVE  /\ FilesFound' = FilesFound /\ Extracted' = Extracted /\ ReferencesFound' = ReferencesFound
           /\ \A f : Definer(f)' <=> Definer(f)
           /\ \A x : SourceOf(x)' = SourceOf(x)
<1>1. FilesFound' = FilesFound
  BY DEF SameJob, FilesFound
<1>2. \A f : Definer(f)' <=> Definer(f)
  BY <1>1 DEF SameJob, Definer
<1> QED
  BY <1>1, <1>2 DEF SameJob, Extracted, ReferencesFound, SourceOf

LEMMA Least ==
    ASSUME NEW T, T \subseteq Nat, T # {}
    PROVE  \E x \in T : \A y \in T : x <= y
<1> DEFINE R == OpToRel(<, Nat)
<1>1. IsWellFoundedOn(R, Nat)
  BY NatLessThanWellFounded
<1>2. PICK x \in T : \A y \in T : <<y, x>> \notin R
  <2> HIDE DEF R
  <2> QED
    BY <1>1, WFMin
<1>3. \A y \in T : ~(y < x)
  BY <1>2 DEF OpToRel
<1>4. \A y \in T : x \in Nat /\ y \in Nat
  OBVIOUS
<1>5. \A y \in T : x <= y
  <2> HIDE DEF R
  <2> TAKE y \in T
  <2> QED
    BY <1>3, <1>4
<1> QED
  BY <1>5

\* Each symbol found has one definer.
LEMMA DefinerData ==
    ASSUME TypeOK
    PROVE  /\ \A s \in Extracted : \E f \in Files : Definer(f) /\ Defines[job.found[f]] = s
           /\ \A f, g \in Files :
                Definer(f) /\ Definer(g) /\ Defines[job.found[f]] = Defines[job.found[g]] => f = g
<1>1. FilesFound \subseteq Nat
  BY JobData, AnalysisData
<1>2. ASSUME NEW s \in Extracted
      PROVE  \E f \in Files : Definer(f) /\ Defines[job.found[f]] = s
  <2> DEFINE T == {f \in FilesFound : Defines[job.found[f]] = s}
  <2>1. T # {} /\ T \subseteq Nat
    BY <1>1 DEF Extracted
  <2>2. PICK f \in T : \A g \in T : f <= g
    BY <2>1, Least
  <2>3. Definer(f)
    BY <2>2 DEF Definer
  <2> QED
    BY <2>2, <2>3, JobData
<1>3. ASSUME NEW f \in Files, NEW g \in Files, Definer(f), Definer(g),
             Defines[job.found[f]] = Defines[job.found[g]]
      PROVE  f = g
  <2>1. f <= g /\ g <= f /\ f \in Nat /\ g \in Nat
    BY <1>1, <1>3 DEF Definer
  <2> QED
    BY <2>1
<1> QED
  BY <1>2, <1>3

\* The texts that a quiet run found are there, and what it found are symbols.
LEMMA QuietFound ==
    ASSUME TypeOK, SourcesInv, At({"discovered"} \cup Reading \cup Writing)
    PROVE  \A f \in FilesFound :
                /\ f \in Files /\ state[f] = "processed" /\ text[f] \in Texts
                /\ job.found[f] = text[f] /\ Defines[job.found[f]] \in Symbols
  BY JobData, AnalysisData DEF SourcesInv, Written, Vigente, SymbolOrNull

LEMMA JobInvKept == ASSUME AnalysisInv, JobInv, [Next]_vars PROVE JobInv'
<1>1. TypeOK
  BY DEF AnalysisInv
<1>2. CASE Start \/ CancelDiscovery \/ CancelExtraction \/ DryRun \/ Return \/ Crash \/ ForeignKeyViolated \/ DatabaseFault
  <2>1. \/ phase' \in {"discovered", "idle", "aborted"}
        \/ phase' = "done" /\ (job'.status = "interrupted" \/ job'.dry)
    BY <1>1, <1>2 DEF Start, Discover, CancelDiscovery, CancelExtraction, DryRun, Finish, TypeOK,
        Return, Crash, Exit, ForeignKeyViolated, DatabaseFault, Abort
  <2> QED
    BY <2>1 DEF JobInv, At, Closed, Reading, Writing
<1>3. CASE BeginRun
  <2>1. ~job'.dry => job'.id # 0
    <3>1. Len(runs) \in Nat
      BY <1>1 DEF TypeOK
    <3> QED
      BY <1>1, <1>3, <3>1 DEF BeginRun, TypeOK
  <2> QED
    BY <1>3, <2>1 DEF BeginRun, JobInv, At, Closed, Reading, Writing
<1>4. CASE Moves
  <2>1. SameJob
    BY <1>1, <1>4, JobKept
  <2>2. At(Reading \cup Writing) /\ (phase' \in Writing => phase \in Writing \/ ~job.dry)
    BY <1>4 DEF Moves, Extract, Persist, SymbolsDone, ReferencesDone, ReadSymbols, ReadReferences, ReconcileScope,
      ReconcileDeleted, UpsertSymbol, UpsertReference, UpsertRelation, ReplaceCandidates, UpdateReference, FinishRun,
      At, Reading, Writing
  <2> QED
    BY <2>1, <2>2 DEF JobInv, SameJob
<1>5. CASE Cancel \/ UNCHANGED vars \/ Ingest
  <2>1. UNCHANGED <<phase, job>>
    BY <1>5 DEF Cancel, vars, Ingest, IngestDocument, IngestFailure, IngestRemoval, process
  <2> QED
    BY <2>1 DEF JobInv, At, Closed
<1> QED
  BY <1>2, <1>3, <1>4, <1>5 DEF Next, Program, Moves

LEMMA CorpusKept == ASSUME AnalysisInv, CorpusInv, [Next]_vars PROVE CorpusInv'
<1>1. CASE Ingest
  <2>1. PICK f \in Files :
        \/ \E t \in Texts : IngestDocument(f, t)
        \/ IngestFailure(f)
        \/ \E how \in {"skipped", "deleted"} : IngestRemoval(f, how)
    BY <1>1 DEF Ingest
  <2> QED
    BY <2>1 DEF IngestDocument, IngestFailure, IngestRemoval, CorpusInv, Vigente, AnalysisInv, TypeOK
<1>2. CASE ~Ingest
  <2>1. UNCHANGED <<text, state>>
    BY <1>2 DEF Next, vars, Program, Start, Discover, CancelDiscovery, BeginRun, Extract, CancelExtraction, DryRun,
        Persist, SymbolsDone, ReferencesDone, ReadSymbols, ReadReferences, UpsertSymbol, UpsertReference,
        ReconcileScope, ReconcileDeleted, UpsertRelation, ReplaceCandidates, UpdateReference, ForeignKeyViolated,
        Abort, FinishRun, Return, Cancel, DatabaseFault, Crash, corpus
  <2> QED
    BY <2>1 DEF CorpusInv, Vigente
<1> QED
  BY <1>1, <1>2

LEMMA SourcesKept ==
    ASSUME AnalysisInv, CorpusInv, QuietInv, [Next]_vars, ~dirty'
    PROVE  SourcesInv'
<1>1. TypeOK
  BY DEF AnalysisInv
<1>2. CASE Start
  <2>1. PICK scope \in Prefixes \cup {Files}, dry \in BOOLEAN : Discover(scope, dry)
    BY <1>2 DEF Start
  <2>2. job'.found = Sources(scope) /\ (job'.whole <=> scope = Files) /\ UNCHANGED <<text, state>>
    BY <2>1 DEF Discover
  <2>3. \A f \in Files : job'.found[f] = IF f \in scope \cap Vigente /\ Defines[text[f]] # NoSymbol
                                         THEN text[f] ELSE NoText
    BY <2>2 DEF Sources
  <2>4. \A f \in FilesFound' : f \in scope \cap Vigente /\ Defines[text[f]] # NoSymbol /\ job'.found[f] = text[f]
    BY <2>3 DEF FilesFound
  <2>5. ASSUME NEW f \in Written, scope = Files PROVE f \in FilesFound'
    <3>1. f \in Files /\ f \in Vigente /\ Defines[text[f]] # NoSymbol
      BY <2>5 DEF Written, Vigente
    <3>2. job'.found[f] = text[f]
      BY <2>3, <2>5, <3>1
    <3>3. text[f] # NoText
      BY <3>1, AnalysisData DEF CorpusInv
    <3> QED
      BY <3>1, <3>2, <3>3 DEF FilesFound
  <2>6. Written' = Written
    BY <2>2 DEF Written, Vigente
  <2> QED
    BY <2>2, <2>4, <2>5, <2>6 DEF SourcesInv, Written, Vigente
<1>3. CASE Over'
  BY <1>3 DEF Over, SourcesInv, At
<1>4. CASE ~dirty /\ UNCHANGED corpus /\ (BeginRun \/ (SameJob /\ (Moves \/ Still)))
  <2>1. At({"discovered"} \cup Reading \cup Writing) \/ Still
    BY <1>4 DEF BeginRun, Moves, Extract, Persist, SymbolsDone, ReferencesDone, ReadSymbols, ReadReferences, ReconcileScope,
      ReconcileDeleted, UpsertSymbol, UpsertReference, UpsertRelation, ReplaceCandidates, UpdateReference, FinishRun,
      At, Reading, Writing
  <2>2. job'.found = job.found /\ job'.whole = job.whole
    BY <1>1, <1>4 DEF SameJob, BeginRun, TypeOK
  <2>3. FilesFound' = FilesFound /\ Written' = Written /\ UNCHANGED <<text, state>>
    BY <1>4, <2>2 DEF FilesFound, Written, Vigente, corpus
  <2>4. Still => (At({"discovered"} \cup Reading \cup Writing)' => At({"discovered"} \cup Reading \cup Writing))
    BY DEF Still, At, Closed, Reading, Writing
  <2> QED
    BY <1>4, <2>1, <2>2, <2>3, <2>4 DEF QuietInv, SourcesInv
<1> QED
  BY <1>1, <1>2, <1>3, <1>4, QuietSteps

LEMMA SymbolsKept ==
    ASSUME AnalysisInv, CorpusInv, JobInv, QuietInv, [Next]_vars, ~dirty'
    PROVE  SymbolsInv'
<1>1. TypeOK
  BY DEF AnalysisInv
<1>2. CASE Start \/ Over' \/ BeginRun \/ Extract
  <2>1. phase' \notin Writing /\ ~Closed'
    BY <1>2 DEF Start, Discover, Over, BeginRun, Extract, Closed, Writing, Reading
  <2> QED
    BY <2>1 DEF SymbolsInv, At, Named, Filled, Reconciled, Resolving, Writing
<1>3. ASSUME ~dirty, UNCHANGED corpus, SameJob, Moves \/ Still PROVE SymbolsInv' \/ Extract
  <2>1. SymbolsInv /\ SourcesInv /\ UNCHANGED <<text, state>>
    BY <1>3 DEF QuietInv, corpus
  <2>2. /\ FilesFound' = FilesFound /\ \A f : Definer(f)' <=> Definer(f)
        /\ job'.id = job.id /\ job'.found = job.found
    BY <1>3, FoundKept DEF SameJob
  <2>3. CASE Persist
    <3>1. job.id # 0
      BY <2>3 DEF Persist, JobInv, At, Reading
    <3>2. ~Wrote(job.id)
      BY <2>3, <3>1 DEF Persist, AnalysisInv, RunsInv, Reading
    <3>3. phase' = "symbols" /\ symbols' = symbols /\ todo' = {f \in Files : Definer(f)}
      BY <2>3 DEF Persist, knowledge
    <3>4. ~Closed' /\ "symbols" \notin Named /\ "symbols" \notin Reconciled
      BY <3>3 DEF Closed, Named, Filled, Reconciled, Resolving
    <3> QED
      BY <2>2, <3>2, <3>3, <3>4 DEF SymbolsInv, At, Wrote
  <2>4. CASE \E f \in Files : UpsertSymbol(f)
    <3>1. PICK f \in Files : UpsertSymbol(f)
      BY <2>4
    <3> DEFINE d == Defines[job.found[f]]
               row == [run |-> job.id, file |-> f, chunk |-> job.found[f], status |-> "active"]
    <3>2. /\ phase = "symbols" /\ phase' = "symbols" /\ f \in todo /\ todo' = todo \ {f}
          /\ symbols' = [symbols EXCEPT ![d] = row]
      BY <3>1 DEF UpsertSymbol, NextFile
    <3>3. Definer(f)
      BY <2>1, <3>2 DEF SymbolsInv
    <3>4. d \in Symbols
      <4>1. f \in FilesFound
        BY <3>3 DEF Definer
      <4>2. At({"discovered"} \cup Reading \cup Writing)
        BY <3>2 DEF At, Writing
      <4> QED
        BY <1>1, <2>1, <4>1, <4>2, QuietFound
    <3>5. symbols'[d] = row /\ \A s \in Symbols \ {d} : symbols'[s] = symbols[s]
      BY <1>1, <3>2, <3>4 DEF TypeOK
    <3>6. Given(f)'
      BY <2>2, <3>5 DEF Given
    <3>7. ASSUME NEW g \in Files, Definer(g), g # f PROVE Given(g) => Given(g)'
      <4>1. Defines[job.found[g]] # d
        BY <1>1, <3>3, <3>7, DefinerData
      <4>2. Defines[job.found[g]] \in Symbols
        <5>1. g \in FilesFound
          BY <3>7 DEF Definer
        <5>2. At({"discovered"} \cup Reading \cup Writing)
          BY <3>2 DEF At, Writing
        <5> QED
          BY <1>1, <2>1, <5>1, <5>2, QuietFound
      <4> QED
        BY <2>2, <3>5, <4>1, <4>2 DEF Given
    <3>8. \A g \in todo' : Definer(g)'
      BY <2>1, <2>2, <3>2 DEF SymbolsInv
    <3>9. \A g \in Files : Definer(g)' => g \in todo' \/ Given(g)'
      BY <2>1, <2>2, <3>2, <3>6, <3>7 DEF SymbolsInv
    <3>10. ASSUME NEW s \in Symbols, symbols'[s].run = job.id
           PROVE  \E g \in Files : Definer(g) /\ Defines[job.found[g]] = s /\ Given(g)'
      <4>1. CASE s = d
        BY <3>3, <3>6, <4>1
      <4>2. CASE s # d
        <5>1. PICK g \in Files : Definer(g) /\ Defines[job.found[g]] = s /\ Given(g)
          BY <2>1, <3>2, <3>5, <3>10, <4>2 DEF SymbolsInv, At, Writing
        <5> QED
          BY <3>7, <4>2, <5>1
      <4> QED
        BY <4>1, <4>2
    <3>11. ~Closed' /\ "symbols" \notin Named /\ "symbols" \notin Reconciled
      BY <3>2 DEF Closed, Named, Filled, Reconciled, Resolving
    <3> QED
      BY <2>2, <3>2, <3>8, <3>9, <3>10, <3>11 DEF SymbolsInv, At
  <2>5. CASE ReconcileScope \/ ReconcileDeleted
    <3>1. phase \in {"scope", "deleted"} /\ phase' \in Reconciled /\ phase' # "symbols" /\ ~Closed'
      BY <2>5 DEF ReconcileScope, ReconcileDeleted, Reconciled, Resolving, Closed
    <3>2. At(Named) /\ At(Writing) /\ phase' \in Writing
      BY <3>1 DEF At, Named, Filled, Reconciled, Resolving, Writing
    <3>3. \A f \in FilesFound : state[f] = "processed" /\ Defines[job.found[f]] \in Symbols
      <4>1. At({"discovered"} \cup Reading \cup Writing)
        BY <3>2 DEF At
      <4> QED
        BY <1>1, <2>1, <4>1, QuietFound
    <3>4. ASSUME NEW s \in Symbols, symbols[s].run = job.id PROVE symbols'[s] = symbols[s]
      <4>1. CASE ReconcileScope
        BY <3>4, <4>1 DEF ReconcileScope, Outdated
      <4>2. CASE ReconcileDeleted
        <5>1. PICK f \in Files : Definer(f) /\ Defines[job.found[f]] = s /\ Given(f)
          BY <2>1, <3>2, <3>4 DEF SymbolsInv
        <5>2. symbols[s].file \in FilesFound
          BY <5>1 DEF Given, Definer
        <5>3. state[symbols[s].file] # "deleted"
          BY <3>3, <5>2
        <5> QED
          BY <4>2, <5>3 DEF ReconcileDeleted
      <4> QED
        BY <2>5, <4>1, <4>2
    <3>5. \A s \in Symbols : symbols'[s].run = symbols[s].run
      <4>1. ASSUME NEW s \in Symbols, Lives(s), NEW status
            PROVE  [symbols[s] EXCEPT !.status = status].run = symbols[s].run
        <5>1. symbols[s] \in [run : Nat, file : Files, chunk : Texts, status : {"active", "stale", "deleted"}]
          BY <1>1, <4>1 DEF TypeOK, SymbolRow, Lives
        <5> QED
          BY <5>1
      <4>2. ASSUME NEW s \in Symbols PROVE symbols'[s].run = symbols[s].run
        <5>1. CASE ReconcileScope
          BY <4>1, <5>1 DEF ReconcileScope, Outdated
        <5>2. CASE ReconcileDeleted
          BY <4>1, <5>2 DEF ReconcileDeleted
        <5> QED
          BY <2>5, <5>1, <5>2
      <4> QED
        BY <4>2
    <3>6. ASSUME NEW f \in Files, Given(f), Defines[job.found[f]] \in Symbols PROVE Given(f)'
      BY <2>2, <3>4, <3>6 DEF Given
    <3>7. \A f \in Files : Definer(f) => Defines[job.found[f]] \in Symbols
      BY <3>3 DEF Definer
    <3>8. \A f \in Files : Definer(f) => Given(f)'
      BY <2>1, <3>2, <3>6, <3>7 DEF SymbolsInv
    <3>9. \A s \in Symbols : symbols'[s].run = job.id =>
            \E f \in Files : Definer(f) /\ Defines[job.found[f]] = s /\ Given(f)'
      BY <2>1, <3>2, <3>5, <3>8 DEF SymbolsInv
    <3>10. ASSUME NEW s \in Active', symbols'[s].file \in FilesFound PROVE symbols'[s].run = job.id
      <4>1. s \in Symbols /\ symbols'[s].run # 0 /\ symbols'[s].status = "active"
        BY <3>10 DEF Active, Lives
      <4>2. symbols[s] \in [run : Nat, file : Files, chunk : Texts, status : {"active", "stale", "deleted"}]
        BY <1>1, <3>5, <4>1 DEF TypeOK, SymbolRow
      <4>3. symbols'[s] = symbols[s]
        BY <2>5, <4>1, <4>2 DEF ReconcileScope, ReconcileDeleted
      <4>4. CASE ReconcileScope
        <5>1. symbols'[s] = IF Outdated(s) THEN [symbols[s] EXCEPT !.status = "stale"] ELSE symbols[s]
          BY <4>1, <4>4 DEF ReconcileScope
        <5>2. ~Outdated(s)
          BY <4>1, <4>2, <5>1
        <5> QED
          BY <3>10, <4>1, <4>3, <5>2 DEF Outdated, Lives
      <4>5. CASE ReconcileDeleted
        BY <2>1, <3>10, <4>1, <4>3, <4>5 DEF ReconcileDeleted, SymbolsInv, At, Reconciled, Active, Lives
      <4> QED
        BY <2>5, <4>4, <4>5
    <3> QED
      BY <2>2, <3>1, <3>8, <3>9, <3>10 DEF SymbolsInv, At
  <2>6. CASE \/ SymbolsDone \/ ReferencesDone \/ ReadSymbols \/ ReadReferences \/ FinishRun \/ Still
             \/ \E x \in Reference : UpsertReference(x) \/ UpsertRelation(x) \/ ReplaceCandidates(x)
                                     \/ UpdateReference(x)
    <3>1. symbols' = symbols
      BY <2>6 DEF SymbolsDone, ReferencesDone, ReadSymbols, ReadReferences, FinishRun, Still, UpsertReference,
          UpsertRelation, ReplaceCandidates, UpdateReference, knowledge
    <3>2. /\ At(Writing)' => At(Writing)
          /\ At(Named)' => At(Named) \/ (phase = "symbols" /\ todo = {})
          /\ At(Reconciled)' => At(Reconciled)
          /\ phase' = "symbols" => phase = "symbols" /\ todo' = todo
      <4>1. CASE Still
        BY <4>1 DEF Still, At, Closed
      <4>2. CASE SymbolsDone \/ ReferencesDone \/ FinishRun
        BY <4>2 DEF SymbolsDone, ReferencesDone, FinishRun, Finish, At, Closed, Writing, Named, Filled, Reconciled,
            Resolving
      <4>3. CASE ReadSymbols \/ ReadReferences
        BY <4>3 DEF ReadSymbols, ReadReferences, At, Closed, Writing, Named, Filled, Reconciled, Resolving
      <4>4. CASE \E x \in Reference : UpsertReference(x) \/ UpsertRelation(x) \/ ReplaceCandidates(x)
                                     \/ UpdateReference(x)
        BY <4>4 DEF UpsertReference, UpsertRelation, ReplaceCandidates, UpdateReference, At, Closed, Writing, Named,
            Filled, Reconciled, Resolving
      <4> QED
        BY <2>6, <4>1, <4>2, <4>3, <4>4
    <3>3. (\A f : Given(f)' <=> Given(f)) /\ Active' = Active
      BY <2>2, <3>1 DEF Given, Active, Lives
    <3> QED
      BY <2>1, <2>2, <3>1, <3>2, <3>3 DEF SymbolsInv
  <2> QED
    BY <1>3, <2>3, <2>4, <2>5, <2>6 DEF Moves
<1> QED
  BY <1>1, <1>2, <1>3, QuietSteps

\* Where a quiet run persists nothing yet, or nothing any more.
LEMMA NotWriting ==
    ASSUME Start \/ Over' \/ BeginRun \/ Extract
    PROVE  phase' \notin Writing /\ ~Closed'
  BY DEF Start, Discover, Over, BeginRun, Extract, Closed, Writing, Reading

LEMMA ReferencesKept ==
    ASSUME AnalysisInv, JobInv, QuietInv, [Next]_vars, ~dirty'
    PROVE  ReferencesInv'
<1>1. TypeOK
  BY DEF AnalysisInv
<1>2. CASE Start \/ Over' \/ BeginRun \/ Extract
  BY <1>2, NotWriting DEF ReferencesInv, At, Reconciled, Resolving, Writing
<1>3. ASSUME ~dirty, UNCHANGED corpus, SameJob, Moves \/ Still PROVE ReferencesInv' \/ Extract
  <2>1. ReferencesInv /\ SourcesInv /\ UNCHANGED <<text, state>>
    BY <1>3 DEF QuietInv, corpus
  <2>2. /\ FilesFound' = FilesFound /\ ReferencesFound' = ReferencesFound
        /\ job'.id = job.id
    BY <1>3, FoundKept DEF SameJob
  <2>3. CASE Persist
    <3>1. job.id # 0 /\ ~Wrote(job.id)
      BY <2>3 DEF Persist, JobInv, At, Reading, AnalysisInv, RunsInv
    <3>2. phase' = "symbols" /\ references' = references /\ ~Closed'
      BY <2>3 DEF Persist, knowledge, Closed
    <3> QED
      BY <2>2, <3>1, <3>2 DEF ReferencesInv, At, Reconciled, Resolving, Wrote
  <2>4. CASE \/ SymbolsDone \/ ReferencesDone \/ ReadSymbols \/ ReadReferences \/ FinishRun \/ Still
             \/ \E f \in Files : UpsertSymbol(f)
             \/ \E x \in Reference : UpsertRelation(x) \/ ReplaceCandidates(x)
    <3>1. references' = references
      BY <2>4 DEF SymbolsDone, ReferencesDone, ReadSymbols, ReadReferences, FinishRun, Still, UpsertSymbol,
          UpsertRelation, ReplaceCandidates, knowledge
    <3>2. /\ At(Reconciled)' => At(Reconciled)
          /\ phase' = "references" => \/ phase = "references" /\ todo' = todo
                                      \/ todo' = ReferencesFound
          /\ phase' = "scope" => phase = "scope" \/ (phase = "references" /\ todo = {})
          /\ phase' \in {"symbols", "references", "scope"} => phase \in {"symbols", "references", "scope"}
      <4>1. CASE Still
        BY <4>1 DEF Still, At, Closed
      <4>2. CASE SymbolsDone \/ ReferencesDone \/ FinishRun
        BY <4>2 DEF SymbolsDone, ReferencesDone, FinishRun, Finish, At, Closed, Reconciled, Resolving
      <4>3. CASE ReadSymbols \/ ReadReferences
        BY <4>3 DEF ReadSymbols, ReadReferences, At, Closed, Reconciled, Resolving
      <4>4. CASE \/ \E f \in Files : UpsertSymbol(f)
                 \/ \E x \in Reference : UpsertRelation(x) \/ ReplaceCandidates(x)
        BY <4>4 DEF UpsertSymbol, UpsertRelation, ReplaceCandidates, At, Closed, Reconciled, Resolving
      <4> QED
        BY <2>4, <4>1, <4>2, <4>3, <4>4
    <3> QED
      BY <2>1, <2>2, <3>1, <3>2 DEF ReferencesInv
  <2>5. CASE \E x \in Reference : UpsertReference(x)
    <3>1. PICK x \in Reference : UpsertReference(x)
      BY <2>5
    <3>2. /\ phase = "references" /\ phase' = "references" /\ todo' = todo \ {x} /\ x \in ReferencesFound
      BY <3>1 DEF UpsertReference, NextReference, AnalysisInv, TodoInv
    <3>3. references'[x].run = job.id /\ \A z \in Reference \ {x} : references'[z] = references[z]
      BY <1>1, <3>1 DEF UpsertReference, TypeOK
    <3>4. ReferencesFound \subseteq Reference /\ ~Closed'
      BY <3>2, <1>1, JobData DEF Closed
    <3> QED
      BY <2>1, <2>2, <3>2, <3>3, <3>4 DEF ReferencesInv, At, Reconciled, Resolving
  <2>6. CASE ReconcileScope
    <3>1. phase = "scope" /\ phase' = "deleted" /\ job.id # 0 /\ ~Closed'
      BY <2>6 DEF ReconcileScope, JobInv, At, Writing, Closed
    <3>2. \A x \in Reference : references'[x] = IF Obsolete(x) THEN NoReferenceRow ELSE references[x]
      BY <2>6 DEF ReconcileScope
    <3>3. ASSUME NEW x \in Reference, x[1] \in FilesFound
          PROVE  references'[x].run # 0 <=> x \in ReferencesFound
      <4>1. references[x].run = job.id <=> x \in ReferencesFound
        BY <2>1, <3>1 DEF ReferencesInv
      <4>2. NoReferenceRow.run = 0
        BY DEF NoReferenceRow
      <4> QED
        BY <3>1, <3>2, <3>3, <4>1, <4>2 DEF Obsolete
    <3> QED
      BY <2>2, <3>1, <3>3 DEF ReferencesInv, At
  <2>7. CASE ReconcileDeleted
    <3>1. phase = "deleted" /\ phase' = "catalogue" /\ ~Closed'
      BY <2>7 DEF ReconcileDeleted, Closed
    <3>2. \A x \in Reference : references'[x].run = references[x].run
      BY <1>1, <2>7 DEF ReconcileDeleted, TypeOK, ReferenceRow
    <3> QED
      BY <2>1, <2>2, <3>1, <3>2 DEF ReferencesInv, At, Reconciled
  <2>8. CASE \E x \in Reference : UpdateReference(x)
    <3>1. PICK x \in Reference : UpdateReference(x)
      BY <2>8
    <3>2. phase \in Resolving /\ phase' = "relation" /\ job.id # 0 /\ ~Closed'
      BY <3>1 DEF UpdateReference, JobInv, At, Writing, Closed, Resolving
    <3>3. references'[x].run = job.id /\ \A z \in Reference \ {x} : references'[z] = references[z]
      BY <1>1, <3>1 DEF UpdateReference, TypeOK
    <3>4. x[1] \in FilesFound => x \in ReferencesFound
      <4> SUFFICES ASSUME x[1] \in FilesFound PROVE x \in ReferencesFound
        OBVIOUS
      <4>1. seen[x].chunk # NoText /\ text[x[1]] = seen[x].chunk
        BY <3>1 DEF UpdateReference, RowsExist, ChunkExists
      <4>2. x[2] \in Refers[seen[x].chunk]
        BY <4>1 DEF AnalysisInv, SeenInv
      <4>3. job.found[x[1]] = text[x[1]]
        BY <2>1, <3>2 DEF SourcesInv, At, Resolving, Writing
      <4> QED
        BY <4>1, <4>2, <4>3 DEF ReferencesFound
    <3> QED
      BY <2>1, <2>2, <3>2, <3>3, <3>4 DEF ReferencesInv, At, Reconciled, Resolving
  <2> QED
    BY <1>3, <2>3, <2>4, <2>5, <2>6, <2>7, <2>8 DEF Moves
<1> QED
  BY <1>1, <1>2, <1>3, QuietSteps

LEMMA RelationsKept ==
    ASSUME AnalysisInv, JobInv, QuietInv, [Next]_vars, ~dirty'
    PROVE  RelationsInv'
<1>1. TypeOK
  BY DEF AnalysisInv
<1>2. CASE Start \/ Over' \/ BeginRun \/ Extract
  BY <1>2, NotWriting DEF RelationsInv, At, Reconciled, Resolving, Writing
<1>3. ASSUME ~dirty, UNCHANGED corpus, SameJob, Moves \/ Still PROVE RelationsInv' \/ Extract
  <2>1. RelationsInv
    BY <1>3 DEF QuietInv
  <2>2. FilesFound' = FilesFound /\ job'.id = job.id
    BY <1>3, FoundKept DEF SameJob
  <2>3. CASE Persist
    <3>1. job.id # 0 /\ ~Wrote(job.id)
      BY <2>3 DEF Persist, JobInv, At, Reading, AnalysisInv, RunsInv
    <3>2. phase' = "symbols" /\ relations' = relations /\ ~Closed'
      BY <2>3 DEF Persist, knowledge, Closed
    <3> QED
      BY <2>2, <3>1, <3>2 DEF RelationsInv, At, Reconciled, Resolving, Wrote
  <2>4. CASE \/ SymbolsDone \/ ReferencesDone \/ ReadSymbols \/ ReadReferences \/ FinishRun \/ Still
             \/ \E f \in Files : UpsertSymbol(f)
             \/ \E x \in Reference : UpsertReference(x) \/ ReplaceCandidates(x) \/ UpdateReference(x)
    <3>1. relations' = relations
      BY <2>4 DEF SymbolsDone, ReferencesDone, ReadSymbols, ReadReferences, FinishRun, Still, UpsertSymbol,
          UpsertReference, UpdateReference, ReplaceCandidates, knowledge
    <3>2. /\ At(Reconciled)' => At(Reconciled)
          /\ phase' \in Writing \ Resolving => phase \in Writing \ Resolving
      <4>1. CASE Still
        BY <4>1 DEF Still, At, Closed
      <4>2. CASE SymbolsDone \/ ReferencesDone \/ FinishRun
        BY <4>2 DEF SymbolsDone, ReferencesDone, FinishRun, Finish, At, Closed, Reconciled, Resolving, Writing
      <4>3. CASE ReadSymbols \/ ReadReferences
        BY <4>3 DEF ReadSymbols, ReadReferences, At, Closed, Reconciled, Resolving, Writing
      <4>4. CASE \/ \E f \in Files : UpsertSymbol(f)
                 \/ \E x \in Reference : UpsertReference(x) \/ ReplaceCandidates(x) \/ UpdateReference(x)
        BY <4>4 DEF UpsertSymbol, UpsertReference, ReplaceCandidates, UpdateReference, At, Closed, Reconciled,
            Resolving, Writing
      <4> QED
        BY <2>4, <4>1, <4>2, <4>3, <4>4
    <3> QED
      BY <2>1, <2>2, <3>1, <3>2 DEF RelationsInv
  <2>5. CASE ReconcileScope
    <3>1. phase = "scope" /\ phase' = "deleted" /\ job.id # 0 /\ ~Closed'
      BY <2>5 DEF ReconcileScope, JobInv, At, Writing, Closed
    <3>2. ASSUME NEW y \in Relation
          PROVE  /\ relations'[y].run # job.id
                 /\ ~(y[1][1] \in FilesFound /\ relations'[y].status = "active")
      <4>1. relations'[y] = IF Obsolete(y[1]) THEN NoRelationRow
                            ELSE IF Superseded(y) THEN [relations[y] EXCEPT !.status = "stale"]
                            ELSE relations[y]
        BY <2>5 DEF ReconcileScope
      <4>2. NoRelationRow.run = 0 /\ NoRelationRow.status = "stale"
        BY DEF NoRelationRow
      <4>3. relations[y] \in RelationRow /\ relations[y].run # job.id
        BY <1>1, <2>1, <3>1 DEF TypeOK, RelationsInv, Writing, Resolving
      <4>4. LET gone == [relations[y] EXCEPT !.status = "stale"]
            IN gone.run = relations[y].run /\ gone.status = "stale"
        BY <4>3 DEF RelationRow
      <4> QED
        BY <3>1, <4>1, <4>2, <4>3, <4>4 DEF Superseded
    <3> QED
      BY <2>2, <3>1, <3>2 DEF RelationsInv, At
  <2>6. CASE ReconcileDeleted
    <3>1. phase = "deleted" /\ phase' = "catalogue" /\ ~Closed'
      BY <2>6 DEF ReconcileDeleted, Closed
    <3>2. \A y \in Relation : /\ relations'[y].run = relations[y].run
                              /\ relations'[y].status \in {relations[y].status, "stale"}
      BY <1>1, <2>6 DEF ReconcileDeleted, TypeOK, RelationRow
    <3> QED
      BY <2>1, <2>2, <3>1, <3>2 DEF RelationsInv, At, Reconciled, Resolving, Writing
  <2>7. CASE \E x \in Reference : UpsertRelation(x)
    <3>1. PICK x \in Reference : UpsertRelation(x)
      BY <2>7
    <3>2. phase = "relation" /\ phase' = "candidates" /\ ~Closed'
      BY <3>1 DEF UpsertRelation, Closed
    <3>3. \A y \in Relation : relations'[y] = relations[y] \/ relations'[y].run = job.id
      BY <1>1, <3>1 DEF UpsertRelation, TypeOK
    <3> QED
      BY <2>1, <2>2, <3>2, <3>3 DEF RelationsInv, At, Reconciled, Resolving
  <2> QED
    BY <1>3, <2>3, <2>4, <2>5, <2>6, <2>7 DEF Moves
<1> QED
  BY <1>1, <1>2, <1>3, QuietSteps

LEMMA OneIsNext ==
    ASSUME NEW x \in Reference, NEW z \in Reference, NextReference(x), NextReference(z)
    PROVE  x = z
<1>1. \A y \in Reference : y = <<y[1], y[2]>> /\ y[1] \in Nat /\ y[2] \in Nat
  <2> SUFFICES ASSUME NEW y \in Reference PROVE y = <<y[1], y[2]>> /\ y[1] \in Nat /\ y[2] \in Nat
    OBVIOUS
  <2>1. y \in Files \X Refs
    BY DEF Reference
  <2>2. y = <<y[1], y[2]>> /\ y[1] \in Files /\ y[2] \in Refs
    BY <2>1
  <2> QED
    BY <2>2, AnalysisData
<1>2. Before(x, z) /\ Before(z, x)
  BY DEF NextReference
<1>3. x[1] = z[1] /\ x[2] = z[2]
  BY <1>1, <1>2 DEF Before
<1> QED
  BY <1>1, <1>3

LEMMA RelationData ==
    ASSUME NEW x \in Reference
    PROVE  RelationOf(x) \in Relation /\ RelationOf(x)[1] = x
<1>1. x[2] \in Refs
  BY DEF Reference
<1>2. Decided(x).target \in SymbolOrNull
  BY <1>1, DecisionData DEF Decided
<1> QED
  BY <1>2 DEF RelationOf, Relation

\* What is said of a reference depends only on what it has.
LEMMA ReferenceFrame ==
    ASSUME UNCHANGED <<seen, known>>, job'.id = job.id, NEW z \in Reference,
           \A y \in Relation : y[1] = z => relations'[y] = relations[y] /\ candidates'[y] = candidates[y]
    PROVE  /\ Decided(z)' = Decided(z) /\ RelationOf(z)' = RelationOf(z)
           /\ Related(z)' <=> Related(z)
           /\ Unrelated(z)' <=> Unrelated(z)
           /\ Chosen(z)' <=> Chosen(z)
           /\ references'[z] = references[z] => (Settled(z)' <=> Settled(z))
<1>1. Decided(z)' = Decided(z) /\ RelationOf(z)' = RelationOf(z)
  BY DEF Decided, RelationOf
<1>2. RelationOf(z) \in Relation /\ RelationOf(z)[1] = z
  BY RelationData
<1>3. Related(z)' <=> Related(z)
  BY <1>1, <1>2 DEF Related
<1>4. Unrelated(z)' <=> Unrelated(z)
  BY DEF Unrelated
<1>5. Chosen(z)' <=> Chosen(z)
  BY <1>1, <1>2 DEF Chosen
<1> QED
  BY <1>1, <1>3, <1>4, <1>5 DEF Settled

\* The three steps by which a reference is resolved.
LEMMA ResolveStep ==
    ASSUME TypeOK, ResolvingInv, UNCHANGED state, job'.id = job.id, NEW x \in Reference,
           UpsertRelation(x) \/ ReplaceCandidates(x) \/ UpdateReference(x)
    PROVE  ResolvingInv' /\ Pending' = Pending
<1> DEFINE row == [run |-> job.id, source |-> seen[x].source, target |-> Decided(x).target,
                  chunk |-> seen[x].chunk, resolution |-> Decided(x).status, status |-> "active"]
<1>1. /\ phase \in Resolving /\ phase' \in Resolving /\ NextReference(x)
      /\ UNCHANGED <<symbols, known, seen>>
  BY DEF UpsertRelation, ReplaceCandidates, UpdateReference, Resolving
<1>2. /\ known = Active /\ todo \subseteq Pending
      /\ \A z \in Reference : references[z].source = seen[z].source /\ references[z].chunk = seen[z].chunk
      /\ \A z \in Pending : IF z \in todo THEN Begun(z) ELSE Settled(z)
  BY <1>1 DEF ResolvingInv, At
<1>3. x \in todo /\ Begun(x) /\ RelationOf(x) \in Relation /\ RelationOf(x)[1] = x
  BY <1>1, <1>2, RelationData DEF NextReference
<1>4. \A z \in todo : z # x => ~NextReference(z) /\ Unrelated(z)
  BY <1>1, <1>2, OneIsNext DEF Begun, Pending
<1>5. \A z \in Reference : references'[z].source = seen[z].source /\ references'[z].chunk = seen[z].chunk
  <2>1. CASE UNCHANGED references
    BY <1>2, <2>1
  <2>2. CASE UpdateReference(x)
    BY <1>2, <2>2 DEF UpdateReference, TypeOK
  <2> QED
    BY <2>1, <2>2 DEF UpsertRelation, ReplaceCandidates
<1>6. Pending' = Pending
  BY <1>2, <1>5 DEF Pending, Current, Vigente
<1>7. \A z \in Reference \ {x} : references'[z] = references[z]
  BY DEF UpsertRelation, ReplaceCandidates, UpdateReference, TypeOK
<1>8. \A y \in Relation : y[1] # x => relations'[y] = relations[y] /\ candidates'[y] = candidates[y]
  BY <1>3 DEF UpsertRelation, ReplaceCandidates, UpdateReference, TypeOK
<1>9. ASSUME NEW z \in Reference, z # x
      PROVE  /\ Decided(z)' = Decided(z)
             /\ Unrelated(z)' <=> Unrelated(z)
             /\ Settled(z)' <=> Settled(z)
  BY <1>1, <1>7, <1>8, <1>9, ReferenceFrame
<1>10. Decided(x)' = Decided(x) /\ RelationOf(x)' = RelationOf(x)
  BY <1>1 DEF Decided, RelationOf
<1>11. known' = Active'
  BY <1>1, <1>2 DEF Active, Lives
<1>12. /\ todo' \subseteq Pending'
       /\ \A z \in Pending' : IF z \in todo' THEN Begun(z)' ELSE Settled(z)'
  <2>1. CASE UpsertRelation(x)
    <3>1. /\ phase = "relation" /\ phase' = "candidates" /\ todo' = todo
          /\ Decided(x).status # "unresolved"
          /\ relations' = [relations EXCEPT ![RelationOf(x)] = row]
      BY <2>1 DEF UpsertRelation
    <3>2. Unrelated(x)
      BY <1>3, <3>1 DEF Begun
    <3>3. relations'[RelationOf(x)] = row /\ \A y \in Relation \ {RelationOf(x)} : relations'[y] = relations[y]
      BY <1>3, <3>1 DEF TypeOK
    <3>4. Related(x)'
      BY <1>1, <1>10, <3>2, <3>3 DEF Related, Unrelated
    <3>5. NextReference(x)' /\ \A z \in todo : z # x => ~(NextReference(z)')
      BY <1>1, <1>4, <3>1 DEF NextReference
    <3>6. Begun(x)'
      BY <1>10, <3>1, <3>4, <3>5 DEF Begun
    <3>7. \A z \in todo : z # x => Begun(z)'
      BY <1>2, <1>4, <1>9, <3>5 DEF Begun, Pending
    <3> QED
      BY <1>2, <1>3, <1>6, <1>9, <3>1, <3>6, <3>7 DEF Pending
  <2>2. CASE ReplaceCandidates(x)
    <3>1. /\ phase = "candidates" /\ phase' = "reference" /\ todo' = todo /\ relations' = relations
          /\ candidates' = [candidates EXCEPT ![RelationOf(x)] = Decided(x).among]
      BY <2>2 DEF ReplaceCandidates
    <3>2. Related(x) /\ Decided(x).status # "unresolved"
      BY <1>1, <1>3, <3>1 DEF Begun
    <3>3. Related(x)' /\ Chosen(x)'
      BY <1>1, <1>3, <1>10, <3>1, <3>2 DEF Related, Chosen, TypeOK
    <3>4. NextReference(x)' /\ \A z \in todo : z # x => ~(NextReference(z)')
      BY <1>1, <1>4, <3>1 DEF NextReference
    <3>5. Begun(x)'
      BY <1>10, <3>1, <3>2, <3>3, <3>4 DEF Begun
    <3>6. \A z \in todo : z # x => Begun(z)'
      BY <1>2, <1>4, <1>9, <3>4 DEF Begun, Pending
    <3> QED
      BY <1>2, <1>3, <1>6, <1>9, <3>1, <3>5, <3>6 DEF Pending
  <2>3. CASE UpdateReference(x)
    <3>1. /\ phase = "reference" \/ (phase = "relation" /\ Decided(x).status = "unresolved")
          /\ phase' = "relation" /\ todo' = todo \ {x} /\ UNCHANGED <<relations, candidates>>
          /\ references'[x].status = Decided(x).status
      BY <2>3 DEF UpdateReference, TypeOK
    <3>2. IF Decided(x).status = "unresolved" THEN Unrelated(x) ELSE Related(x) /\ Chosen(x)
      BY <1>1, <1>3, <3>1 DEF Begun
    <3>3. /\ Related(x)' <=> Related(x)
          /\ Unrelated(x)' <=> Unrelated(x)
          /\ Chosen(x)' <=> Chosen(x)
      BY <1>1, <3>1, ReferenceFrame
    <3>4. Settled(x)'
      BY <1>10, <3>1, <3>2, <3>3 DEF Settled
    <3>5. \A z \in todo' : Begun(z)'
      BY <1>2, <1>4, <1>9, <3>1 DEF Begun, Pending
    <3> QED
      BY <1>2, <1>6, <1>9, <3>1, <3>4, <3>5 DEF Pending
  <2> QED
    BY <2>1, <2>2, <2>3
<1>13. ~Closed'
  BY <1>1 DEF Closed, Resolving
<1> QED
  BY <1>1, <1>5, <1>6, <1>11, <1>12, <1>13 DEF ResolvingInv, At

LEMMA ResolvingKept ==
    ASSUME AnalysisInv, QuietInv, [Next]_vars, ~dirty'
    PROVE  ResolvingInv'
<1>1. TypeOK
  BY DEF AnalysisInv
<1>2. CASE Start \/ Over' \/ BeginRun \/ Extract
  BY <1>2, NotWriting DEF ResolvingInv, At, Resolving, Writing
<1>3. ASSUME ~dirty, UNCHANGED corpus, SameJob, Moves \/ Still PROVE ResolvingInv' \/ Extract
  <2>1. ResolvingInv /\ RelationsInv /\ UNCHANGED state /\ job'.id = job.id
    BY <1>3 DEF QuietInv, corpus, SameJob
  <2>2. CASE \/ Persist \/ SymbolsDone \/ ReferencesDone \/ ReconcileScope \/ ReconcileDeleted
             \/ \E f \in Files : UpsertSymbol(f)
             \/ \E x \in Reference : UpsertReference(x)
    <3>1. phase' \notin {"pending"} \cup Resolving /\ ~Closed'
      BY <2>2 DEF Persist, SymbolsDone, ReferencesDone, ReconcileScope, ReconcileDeleted, UpsertSymbol,
          UpsertReference, Resolving, Closed
    <3> QED
      BY <3>1 DEF ResolvingInv, At
  <2>3. CASE ReadSymbols
    <3>1. phase' = "pending" /\ known' = Active /\ symbols' = symbols
      BY <2>3 DEF ReadSymbols, knowledge
    <3> QED
      BY <3>1 DEF ResolvingInv, At, Closed, Resolving, Active, Lives
  <2>4. CASE ReadReferences
    <3>1. /\ phase = "pending" /\ phase' = "relation" /\ seen' = references /\ todo' = Pending
          /\ UNCHANGED <<symbols, references, relations, known>>
      BY <2>4 DEF ReadReferences, knowledge
    <3>2. Pending' = Pending /\ known' = Active'
      BY <2>1, <3>1 DEF Pending, Current, Vigente, ResolvingInv, At, Active, Lives
    <3>3. \A x \in Pending : Begun(x)'
      BY <2>1, <3>1 DEF RelationsInv, Writing, Resolving, Begun, Unrelated
    <3>4. ~Closed'
      BY <3>1 DEF Closed
    <3> QED
      BY <3>1, <3>2, <3>3, <3>4 DEF ResolvingInv
  <2>5. CASE FinishRun \/ Still
    <3>1. /\ UNCHANGED <<symbols, references, relations, candidates, todo, known, seen>>
          /\ phase' = phase \/ (phase = "relation" /\ phase' = "done" /\ todo = {})
      BY <2>5 DEF FinishRun, Finish, Still, knowledge
    <3>2. /\ At({"pending"} \cup Resolving)' => At({"pending"} \cup Resolving)
          /\ At(Resolving)' => At(Resolving)
          /\ Closed' => todo = {}
      BY <2>1, <2>5, <3>1 DEF At, Closed, Resolving, Still, FinishRun, ResolvingInv
    <3>3. Pending' = Pending /\ Active' = Active
      BY <2>1, <3>1 DEF Pending, Current, Vigente, Active, Lives
    <3>4. \A x \in Pending : Settled(x)' <=> Settled(x)
      BY <2>1, <3>1, ReferenceFrame DEF Pending
    <3>5. \A x \in Pending : x \in todo /\ Begun(x) => Begun(x)'
      <4>1. todo # {} => phase' = phase
        BY <3>1
      <4>2. \A x : NextReference(x)' <=> NextReference(x)
        BY <3>1 DEF NextReference
      <4>3. \A x \in Reference :
                /\ Decided(x)' = Decided(x)
                /\ Related(x)' <=> Related(x)
                /\ Unrelated(x)' <=> Unrelated(x)
                /\ Chosen(x)' <=> Chosen(x)
        BY <2>1, <3>1, ReferenceFrame
      <4> QED
        BY <3>1, <4>1, <4>2, <4>3 DEF Begun, Pending
    <3> QED
      BY <2>1, <3>1, <3>2, <3>3, <3>4, <3>5 DEF ResolvingInv
  <2>6. CASE \E x \in Reference : UpsertRelation(x) \/ ReplaceCandidates(x) \/ UpdateReference(x)
    BY <1>1, <2>1, <2>6, ResolveStep
  <2> QED
    BY <1>3, <2>2, <2>3, <2>4, <2>5, <2>6 DEF Moves
<1> QED
  BY <1>1, <1>2, <1>3, QuietSteps

LEMMA TallyKept ==
    ASSUME AnalysisInv, QuietInv, [Next]_vars, ~dirty'
    PROVE  Tally'
<1>1. TypeOK
  BY DEF AnalysisInv
<1>2. CASE Start \/ Over' \/ BeginRun
  <2>1. phase' \notin {"extracted"} \cup Writing /\ ~Closed'
    BY <1>2 DEF Start, Discover, Over, BeginRun, Closed, Writing, Reading
  <2> QED
    BY <2>1 DEF Tally, At, Resolving, Writing
<1>3. ASSUME ~dirty, UNCHANGED corpus, SameJob, Moves \/ Still PROVE Tally'
  <2>1. Tally /\ ResolvingInv /\ UNCHANGED state
    BY <1>3 DEF QuietInv, corpus
  <2>2. Extracted' = Extracted /\ job'.id = job.id
    BY <1>3, FoundKept DEF SameJob
  <2>3. CASE Extract
    <3>1. m'.symbols = Cardinality(Extracted) /\ phase' = "extracted"
      BY <1>1, <2>3 DEF Extract, TypeOK, Counters
    <3> QED
      BY <2>2, <3>1 DEF Tally, At, Closed, Resolving
  <2>4. CASE ReadReferences
    <3> DEFINE rows == [x \in Pending |-> references[x].source]
    <3>1. /\ phase = "pending" /\ phase' = "relation" /\ seen' = references /\ UNCHANGED <<references, known>>
          /\ m' = [Resolved(rows, known) EXCEPT !.references = Cardinality(Pending)]
      BY <2>4 DEF ReadReferences, knowledge
    <3>2. Resolved(rows, known) \in Counters
      BY <1>1, CountersData DEF TypeOK, Pending
    <3>3. /\ Resolved(rows, known).symbols = m.symbols
          /\ Resolved(rows, known).resolved = Count(rows, known, {"resolved"})
          /\ Resolved(rows, known).ambiguous = Count(rows, known, {"ambiguous"})
      BY <1>1 DEF Resolved, TypeOK, Counters
    <3>4. Pending' = Pending /\ \A x \in Pending : Decided(x)' = Decision(x[2], rows[x], known)
      BY <2>1, <3>1 DEF Pending, Current, Vigente, Decided
    <3>5. \A which : Count(rows, known, {which}) = Cardinality({x \in Pending : Decided(x).status = which})'
      <4> SUFFICES ASSUME NEW which
                   PROVE  Count(rows, known, {which}) = Cardinality({x \in Pending : Decided(x).status = which})'
        OBVIOUS
      <4>1. {x \in DOMAIN rows : Decision(x[2], rows[x], known).status \in {which}}
              = {x \in Pending' : Decided(x)'.status = which}
        BY <3>4
      <4> QED
        BY <4>1 DEF Count
    <3> HIDE DEF rows
    <3>6. /\ m'.symbols = m.symbols /\ m'.references = Cardinality(Pending)
          /\ m'.resolved = Count(rows, known, {"resolved"})
          /\ m'.ambiguous = Count(rows, known, {"ambiguous"})
      BY <3>1, <3>2, <3>3 DEF Counters
    <3>7. m'.symbols = Cardinality(Extracted')
      BY <2>1, <2>2, <3>1, <3>6 DEF Tally, At, Writing
    <3> QED
      BY <3>4, <3>5, <3>6, <3>7 DEF Tally
  <2>5. CASE ~Extract /\ ~ReadReferences
    <3>1. m' = m /\ (At({"extracted"} \cup Writing)' => At({"extracted"} \cup Writing))
          /\ (At(Resolving)' => At(Resolving))
      <4>1. CASE Still
        BY <4>1 DEF Still, At, Closed
      <4>2. CASE FinishRun \/ Persist \/ SymbolsDone \/ ReferencesDone
        BY <4>2 DEF FinishRun, Finish, Persist, SymbolsDone, ReferencesDone, At, Closed, Writing, Resolving
      <4>3. CASE ReadSymbols \/ ReconcileScope \/ ReconcileDeleted
        BY <4>3 DEF ReadSymbols, ReconcileScope, ReconcileDeleted, At, Closed, Writing, Resolving
      <4>4. CASE \/ \E f \in Files : UpsertSymbol(f)
                 \/ \E x \in Reference : UpsertReference(x) \/ UpsertRelation(x) \/ ReplaceCandidates(x)
                                         \/ UpdateReference(x)
        BY <4>4 DEF UpsertSymbol, UpsertReference, UpsertRelation, ReplaceCandidates, UpdateReference, At, Closed,
            Writing, Resolving
      <4> QED
        BY <1>3, <2>5, <4>1, <4>2, <4>3, <4>4 DEF Moves
    <3>2. ASSUME At(Resolving)'
          PROVE  Pending' = Pending /\ UNCHANGED <<seen, known>>
      <4>1. CASE FinishRun \/ Still
        BY <2>1, <4>1 DEF FinishRun, Still, knowledge, Pending, Current, Vigente
      <4>2. CASE \E x \in Reference : UpsertRelation(x) \/ ReplaceCandidates(x) \/ UpdateReference(x)
        <5>1. UNCHANGED <<seen, known>>
          BY <4>2 DEF UpsertRelation, ReplaceCandidates, UpdateReference
        <5>2. Pending' = Pending
          BY <1>1, <2>1, <2>2, <4>2, ResolveStep
        <5> QED
          BY <5>1, <5>2
      <4>3. CASE \/ Persist \/ SymbolsDone \/ ReferencesDone \/ ReadSymbols \/ ReconcileScope \/ ReconcileDeleted
                 \/ \E f \in Files : UpsertSymbol(f)
                 \/ \E x \in Reference : UpsertReference(x)
        BY <3>2, <4>3 DEF Persist, SymbolsDone, ReferencesDone, ReadSymbols, ReconcileScope, ReconcileDeleted,
            UpsertSymbol, UpsertReference, At, Closed, Resolving
      <4> QED
        BY <1>3, <2>5, <4>1, <4>2, <4>3 DEF Moves
    <3>3. ASSUME At(Resolving)', NEW which
          PROVE  {x \in Pending : Decided(x).status = which}' = {x \in Pending : Decided(x).status = which}
      BY <3>2, <3>3 DEF Decided
    <3> QED
      BY <2>1, <2>2, <3>1, <3>2, <3>3 DEF Tally
  <2> QED
    BY <2>3, <2>4, <2>5
<1> QED
  BY <1>1, <1>2, <1>3, QuietSteps

---------------------------------------------------------------------------
(* The theorems about it. *)

LEMMA QuietInit == Init => CorpusInv /\ JobInv /\ QuietInv
<1> SUFFICES ASSUME Init PROVE CorpusInv /\ JobInv /\ QuietInv
  OBVIOUS
<1>1. CorpusInv
  BY DEF Init, CorpusInv, Vigente
<1>2. phase = "idle" /\ ~Closed
  BY DEF Init, Closed
<1>3. JobInv /\ SourcesInv
  BY <1>2 DEF JobInv, SourcesInv, At, Reading, Writing
<1>4. SymbolsInv /\ ReferencesInv
  BY <1>2 DEF SymbolsInv, ReferencesInv, At, Named, Filled, Reconciled, Resolving, Writing
<1>5. RelationsInv /\ ResolvingInv /\ Tally
  BY <1>2 DEF RelationsInv, ResolvingInv, Tally, At, Reconciled, Resolving, Writing
<1> QED
  BY <1>1, <1>3, <1>4, <1>5 DEF QuietInv

\* The invariant of analysis, with what holds of a run in peace.
PeaceInv == AnalysisInv /\ CorpusInv /\ JobInv /\ QuietInv

LEMMA PeaceStep == PeaceInv /\ [Next]_vars => PeaceInv'
<1> SUFFICES ASSUME PeaceInv, [Next]_vars PROVE PeaceInv'
  OBVIOUS
<1>1. QuietInv'
  BY SourcesKept, SymbolsKept, ReferencesKept, RelationsKept, ResolvingKept, TallyKept DEF PeaceInv, QuietInv
<1> QED
  BY <1>1, AnalysisStep, CorpusKept, JobInvKept DEF PeaceInv

LEMMA PeaceInduction == Spec => []PeaceInv
<1>1. Init => PeaceInv
  BY InitHolds, QuietInit DEF PeaceInv
<1> QED
  BY <1>1, PeaceStep, PTL DEF Spec

\* At the end of a run that was left in peace, every current reference is settled.
LEMMA AllSettled ==
    ASSUME PeaceInv, Completed
    PROVE  /\ Closed /\ SourcesInv /\ SymbolsInv /\ ReferencesInv /\ RelationsInv /\ Tally
           /\ \A x \in Pending : /\ Settled(x)
                                /\ Decided(x) = Decision(x[2], references[x].source, Active)
<1>1. Closed /\ QuietInv /\ ~dirty
  BY DEF PeaceInv, Completed, Closed
<1>2. /\ todo = {} /\ known = Active
      /\ \A x \in Reference : references[x].source = seen[x].source
      /\ \A x \in Pending : Settled(x)
  BY <1>1 DEF QuietInv, ResolvingInv, At
<1> QED
  BY <1>1, <1>2 DEF QuietInv, Decided, Pending

\* ResolutionIsGlobal: a run of any scope that completes in peace resolves the references
\* of every current file again, each against the symbols that are active at the end.
THEOREM ResolvedGlobally == Spec => []ResolutionIsGlobal
<1>1. PeaceInv => ResolutionIsGlobal
  <2> SUFFICES ASSUME PeaceInv, Completed, NEW x \in Reference, Current(x)
               PROVE  LET now == Decision(x[2], references[x].source, Active)
                          own == {y \in Relation : y[1] = x /\ relations[y].run = job.id}
                      IN /\ references[x].status = now.status
                         /\ own = IF now.status = "unresolved" THEN {} ELSE {<<x, now.target>>}
                         /\ \A y \in own : /\ relations[y].status = "active"
                                           /\ relations[y].target = now.target
                                           /\ candidates[y] = now.among
    BY DEF ResolutionIsGlobal
  <2> DEFINE own == {y \in Relation : y[1] = x /\ relations[y].run = job.id}
  <2>1. Settled(x) /\ Decided(x) = Decision(x[2], references[x].source, Active)
    BY AllSettled DEF Pending
  <2>2. RelationOf(x) \in Relation /\ RelationOf(x)[1] = x
    BY RelationData
  <2>3. CASE Decided(x).status = "unresolved"
    <3>1. own = {}
      BY <2>1, <2>3 DEF Settled, Unrelated
    <3> QED
      BY <2>1, <2>3, <3>1 DEF Settled
  <2>4. CASE Decided(x).status # "unresolved"
    <3>1. Related(x) /\ Chosen(x) /\ references[x].status = Decided(x).status
      BY <2>1, <2>4 DEF Settled
    <3>2. relations[RelationOf(x)].run = job.id /\ relations[RelationOf(x)].status = "active"
          /\ relations[RelationOf(x)].target = Decided(x).target
      BY <3>1 DEF Related
    <3>3. own = {RelationOf(x)}
      BY <2>2, <3>1, <3>2 DEF Related
    <3> QED
      BY <2>1, <2>4, <3>1, <3>2, <3>3 DEF RelationOf, Chosen
  <2> QED
    BY <2>3, <2>4
<1> QED
  BY <1>1, PeaceInduction, PTL

\* What a run over all files leaves, part by part.
LEMMA WholeRun ==
    ASSUME PeaceInv, Completed, job.whole
    PROVE  /\ FilesFound = Written /\ \A f \in Written : job.found[f] = text[f] /\ f \in Files
           /\ \A f \in Written : \E g \in Files :
                /\ Definer(g) /\ Defines[text[g]] = Defines[text[f]] /\ g \in Written
                /\ Defines[text[f]] \in Symbols
                /\ symbols[Defines[text[f]]] =
                        [run |-> job.id, file |-> g, chunk |-> text[g], status |-> "active"]
           /\ {s \in Active : symbols[s].file \in Vigente} = Extracted
           /\ job.id # 0
<1>1. TypeOK /\ PublishedIsInText /\ CorpusInv /\ JobInv
  BY DEF PeaceInv, AnalysisInv
<1>2. Closed /\ SourcesInv /\ SymbolsInv /\ job.id # 0
  BY <1>1, AllSettled DEF JobInv, At, Closed
<1>3. FilesFound = Written /\ \A f \in Written : job.found[f] = text[f] /\ f \in Files
  BY <1>2 DEF SourcesInv, At, Written, Vigente
<1>4. \A f \in Written : Defines[text[f]] \in Symbols
  BY <1>1, <1>2, <1>3, QuietFound DEF At
<1>5. ASSUME NEW f \in Written
      PROVE  \E g \in Files :
                /\ Definer(g) /\ Defines[text[g]] = Defines[text[f]] /\ g \in Written
                /\ Defines[text[f]] \in Symbols
                /\ symbols[Defines[text[f]]] =
                        [run |-> job.id, file |-> g, chunk |-> text[g], status |-> "active"]
  <2>1. Defines[job.found[f]] \in Extracted
    BY <1>3 DEF Extracted
  <2>2. PICK g \in Files : Definer(g) /\ Defines[job.found[g]] = Defines[job.found[f]]
    BY <1>1, <2>1, DefinerData
  <2>3. Given(g) /\ g \in Written
    BY <1>2, <1>3, <2>2 DEF SymbolsInv, At, Definer
  <2> QED
    BY <1>3, <1>4, <2>2, <2>3 DEF Given
<1>6. ASSUME NEW s \in Active, symbols[s].file \in Vigente PROVE s \in Extracted
  <2>1. text[symbols[s].file] = symbols[s].chunk /\ Defines[symbols[s].chunk] = s /\ s \in Symbols
    BY <1>1 DEF PublishedIsInText, Active
  <2>2. symbols[s].file \in Written
    BY <1>6, <2>1, AnalysisData DEF Written
  <2> QED
    BY <1>3, <2>1, <2>2 DEF Extracted
<1>7. ASSUME NEW s \in Extracted PROVE s \in Active /\ symbols[s].file \in Vigente
  <2>1. PICK f \in Written : s = Defines[text[f]]
    BY <1>3 DEF Extracted
  <2>2. PICK g \in Written : /\ s \in Symbols
                            /\ symbols[s] = [run |-> job.id, file |-> g, chunk |-> text[g], status |-> "active"]
    BY <1>5, <2>1
  <2> QED
    BY <1>2, <2>2 DEF Active, Lives, Written
<1> QED
  BY <1>2, <1>3, <1>5, <1>6, <1>7

\* CompletedRunMirrorsTexts: a run without --path that completes in peace leaves the symbols,
\* the references and the relations that the texts call for, and counts them.
THEOREM MirrorsTexts == Spec => []CompletedRunMirrorsTexts
<1>1. PeaceInv => CompletedRunMirrorsTexts
  <2> SUFFICES ASSUME PeaceInv, Completed, job.whole
               PROVE  /\ \A f \in Written : Lives(Defines[text[f]])
                            /\ symbols[Defines[text[f]]].status = "active"
                      /\ \A s \in Active : symbols[s].file \in Vigente => \A f \in Written :
                            Defines[text[f]] = s => symbols[s].file <= f
                      /\ \A x \in Reference : x[1] \in Written =>
                            (references[x].run # 0 <=> x[2] \in Refers[text[x[1]]])
                      /\ \A y \in Relation : (y[1][1] \in Written /\ relations[y].status = "active")
                            => relations[y].run = job.id
                      /\ CountersMatchTables
    BY DEF CompletedRunMirrorsTexts
  <2>1. /\ FilesFound = Written /\ \A f \in Written : job.found[f] = text[f] /\ f \in Files
        /\ job.id # 0 /\ {s \in Active : symbols[s].file \in Vigente} = Extracted
    BY WholeRun
  <2>2. /\ Closed /\ ReferencesInv /\ RelationsInv /\ Tally
        /\ \A x \in Pending : Settled(x)
    BY AllSettled
  <2>3. ASSUME NEW f \in Written
        PROVE  Lives(Defines[text[f]]) /\ symbols[Defines[text[f]]].status = "active"
    <3>1. PICK g \in Files : symbols[Defines[text[f]]] =
                                [run |-> job.id, file |-> g, chunk |-> text[g], status |-> "active"]
      BY WholeRun
    <3> QED
      BY <2>1, <3>1 DEF Lives
  <2>4. ASSUME NEW f \in Written PROVE symbols[Defines[text[f]]].file <= f
    <3>1. PICK g \in Files : /\ Definer(g) /\ Defines[text[g]] = Defines[text[f]] /\ g \in Written
                            /\ symbols[Defines[text[f]]] =
                                  [run |-> job.id, file |-> g, chunk |-> text[g], status |-> "active"]
      BY WholeRun
    <3>2. g <= f
      BY <2>1, <3>1 DEF Definer
    <3> QED
      BY <3>1, <3>2
  <2>5. ASSUME NEW x \in Reference, x[1] \in Written
        PROVE  references[x].run # 0 <=> x[2] \in Refers[text[x[1]]]
    BY <2>1, <2>2, <2>5 DEF ReferencesInv, ReferencesFound, At
  <2>6. ASSUME NEW y \in Relation, y[1][1] \in Written, relations[y].status = "active"
        PROVE  relations[y].run = job.id
    BY <2>1, <2>2, <2>6 DEF RelationsInv, At
  <2>7. CountersMatchTables
    <3>1. m.symbols = Cardinality(Extracted) /\ m.references = Cardinality(Pending)
      BY <2>2 DEF Tally, At
    <3>2. ASSUME NEW which \in {"resolved", "ambiguous"}
          PROVE  m[which] = Cardinality({x \in Pending : references[x].status = which})
      <4>1. {x \in Pending : references[x].status = which} = {x \in Pending : Decided(x).status = which}
        BY <2>2 DEF Settled
      <4> QED
        BY <2>2, <4>1 DEF Tally, At
    <3> QED
      BY <2>1, <3>1, <3>2 DEF CountersMatchTables
  <2> QED
    BY <2>3, <2>4, <2>5, <2>6, <2>7
<1> QED
  BY <1>1, PeaceInduction, PTL
==============================================================================
