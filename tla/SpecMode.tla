------------------------------ MODULE SpecMode ------------------------------
(***************************************************************************)
(* `barbarion spec create` and `spec validate`: a requirement becomes a     *)
(* draft of rules, components and questions that cite evidence, the draft   *)
(* four Markdown files of one folder, written one by one                    *)
(* (application/spec_mode.py, infrastructure/markdown.py, cli.py).          *)
(* Several creators may choose the same folder, and a user edits it.        *)
(***************************************************************************)
EXTENDS Naturals, Sequences, FiniteSets, SequencesExt

CONSTANTS
    Creators,       \* processes of `spec create` that meet in one folder
    Requirements,   \* [actions, entities, terms, marked, cites, title] of a request:
                    \* its words, and the title that --name gives, [marked, cites]
    Depths,         \* values of --depth tried
    Corpora,        \* Seq of [id, words, marked, cites]: what the search returns
    Catalogs,       \* [symbols, named, relations]: what analyze published
    MarkedNames,    \* names of symbols and targets with the word detectado
    Technical,      \* entities that look like names of code
    MaxQueries,     \* entities asked for (8)
    NodeLimit,      \* symbols that a walk reaches (500)
    MaxStarts,      \* bound: commands
    MaxChanges,     \* bound: commits of ingest or analyze
    MaxEdits        \* bound: files that a user edits

ASSUME SpecModeAssumption ==
    /\ {MaxQueries, NodeLimit, MaxStarts, MaxChanges, MaxEdits} \subseteq Nat /\ Depths \subseteq Nat
    /\ \A r \in Requirements :
            /\ r.marked \in BOOLEAN /\ r.title.marked \in BOOLEAN
            /\ r.entities \in Seq(Range(r.entities)) /\ r.terms \in Seq(Range(r.terms))
    /\ \A c \in Catalogs :
            /\ c.relations \in Seq(Range(c.relations))
            /\ \A i \in DOMAIN c.relations :
                    c.relations[i].status \in {"resolved", "ambiguous", "unresolved", "dynamic", "external"}
            /\ "none" \notin c.symbols
            /\ \A found \in Range(c.named) : IsFiniteSet(found) /\ found \subseteq c.symbols
            /\ \A r \in Requirements : Range(r.entities) \cup Range(r.terms) \subseteq DOMAIN c.named

VARIABLES
    corpus, catalog,
    job,            \* [Creators -> what the command has done so far]
    exists,         \* the folder exists
    files,          \* [Names -> document, Empty or Absent]
    starts, changes, edits

database == <<corpus, catalog, changes>>
folder == <<exists, files, edits>>
specVars == <<database, job, folder, starts>>

Names == <<"requirements.md", "design.md", "tasks.md", "test-plan.md">>
Absent == [kind |-> "absent"]
Empty == [kind |-> "empty"]
NoFiles == [n \in Range(Names) |-> Absent]
Idle == [step |-> "idle"]
Ended == {"idle", "written", "rejected", "refused"}

SpecInit ==
    /\ corpus \in Corpora /\ catalog \in Catalogs
    /\ job = [c \in Creators |-> Idle]
    /\ exists = FALSE /\ files = NoFiles
    /\ starts = 0 /\ changes = 0 /\ edits = 0

---------------------------------------------------------------------------
\* The members of a finite set, in the order that a set of pairs gives them.
Ordered(S, order) ==
    [k \in 1..Cardinality(S) |->
        CHOOSE e \in S : Cardinality({x \in S : <<x, e>> \in order}) = k - 1]

---------------------------------------------------------------------------
(* Evidence.                                                                *)

\* _evidence_from_context_source: the place in the context is part of the identity.
OfChunk(chunk, place) == <<"chunk", chunk.id, place>>
OfSymbol(s) == <<"symbol", s>>
OfRelation(i) == <<"relation", i>>

\* _evidence_supports_intent: an action and an entity, when there are both.
Supports(chunk, r) ==
    LET acts == chunk.words \cap r.actions # {}
        names == chunk.words \cap Range(r.entities) # {}
    IN IF r.actions # {} /\ r.entities # <<>> THEN acts /\ names
       ELSE acts \/ names \/ chunk.words \cap Range(r.terms) # {}

\* _existing_rules_from_document_evidence: a rule quotes its chunk.
Rules(chunks, r) ==
    {[evidence |-> OfChunk(chunks[k], k), cites |-> chunks[k].cites, marked |-> chunks[k].marked] :
        k \in {k \in DOMAIN chunks : Supports(chunks[k], r)}}

\* _impact_queries: what to ask the catalogue, names of code first.
Queries(r) ==
    LET source == IF r.entities # <<>> THEN r.entities ELSE r.terms
        technical == {k \in DOMAIN source : source[k] \in Technical}
        asked == IF technical # {} THEN technical ELSE DOMAIN source
        places == Ordered(asked, {p \in asked \X asked : p[1] < p[2]})
    IN IF r.actions = {} THEN <<>>
       ELSE [k \in {k \in 1..Cardinality(asked) : k <= MaxQueries} |-> source[places[k]]]

---------------------------------------------------------------------------
(* DependencyWalkService.walk, as an impact query uses it: in both           *)
(* directions, without filters.  Each read is a transaction of its own.      *)

Adjacent(cat, s) ==
    {i \in DOMAIN cat.relations : s \in {cat.relations[i].source, cat.relations[i].target}}

\* _relation_symbol: an end of a relation, if it is an active symbol.
Lookup(cat, s) == IF s \in cat.symbols THEN s ELSE "none"

\* DependencyEdge, of row number i read from a symbol at some depth.
Edge(cat, i, row, from) ==
    [id |-> i, status |-> row.status, key |-> row.key, depth |-> from.depth + 1,
     source |-> Lookup(cat, row.source), target |-> Lookup(cat, row.target),
     incoming |-> row.target = from.symbol /\ row.source # from.symbol]

RowOf(e) == [id |-> e.id, status |-> e.status, key |-> e.key]

\* _next_symbol
NextSymbol(e) == IF e.incoming THEN e.source ELSE e.target

NoWalk == [seed |-> "none", current |-> [symbol |-> "none", depth |-> 0], queue |-> <<>>,
           reached |-> {}, adjacent |-> <<>>, edges |-> <<>>]

\* One turn of the loops: the row that comes first among those read from the current
\* symbol gives an edge, and a symbol to walk on from, if it is new, there is room for
\* it and it lies nearer than the depth.
Walked(w, cat, depth) ==
    LET i == CHOOSE k \in DOMAIN w.adjacent : \A l \in DOMAIN w.adjacent : k <= l
        e == Edge(cat, i, w.adjacent[i], w.current)
        next == NextSymbol(e)
        enters == next # "none" /\ next \notin w.reached /\ Cardinality(w.reached) < NodeLimit
    IN [seed |-> w.seed, current |-> w.current,
        queue |-> IF enters /\ e.depth < depth
                  THEN Append(w.queue, [symbol |-> next, depth |-> e.depth]) ELSE w.queue,
        reached |-> IF enters THEN w.reached \cup {next} ELSE w.reached,
        adjacent |-> [k \in DOMAIN w.adjacent \ {i} |-> w.adjacent[k]],
        edges |-> Append(w.edges, e)]

---------------------------------------------------------------------------
(* Affected components.                                                     *)

Component(id, name, role, class, evidence) ==
    [id |-> id, name |-> name, role |-> role, class |-> class, evidence |-> evidence]

\* _classification_from_relation: analyze calls detected what it resolved.
Classified(e) == IF e.status = "resolved" THEN "detected" ELSE "to_confirm"

\* _to_confirm_from_edges
Open(e) == e.status # "resolved"

\* _neighbor_symbol: of a relation without its target, its source.
Neighbour(e, role) ==
    IF role = "consumer" THEN e.source ELSE IF e.target # "none" THEN e.target ELSE e.source

\* _append_edge_component_and_evidence
OfEdge(e, role) ==
    LET s == Neighbour(e, role) IN
    IF s # "none" THEN Component(<<"symbol", s>>, s, role, Classified(e), {OfRelation(e.id)})
    ELSE Component(<<e.status, e.key>>, e.key, "unknown", "to_confirm", {OfRelation(e.id)})
Direct(s) == Component(<<"symbol", s>>, s, "direct", "detected", {OfSymbol(s)})
LeftOpen(e) == Component(<<"unresolved", e.key>>, e.key, "unknown", "to_confirm", {})
Candidate(s) == Component(<<"symbol", s>>, s, "unknown", "to_confirm", {})

\* TechnicalImpactCollector.collect, one query: the symbol, its dependencies, its
\* consumers, the distant ones, and what the relations leave to confirm, in this order.
Offer(place, component) == [place |-> place, component |-> component]
Offered(seed, edges) ==
    LET n == Len(edges)
        Which(Test(_)) == {k \in DOMAIN edges : Test(edges[k])}
    IN {Offer(0, Direct(seed))}
       \cup {Offer(k, OfEdge(edges[k], "dependency")) : k \in Which(LAMBDA e : ~e.incoming)}
       \cup {Offer(n + k, OfEdge(edges[k], "consumer")) : k \in Which(LAMBDA e : e.incoming)}
       \cup {Offer(2 * n + k, OfEdge(edges[k], "indirect")) : k \in Which(LAMBDA e : e.depth > 1)}
       \cup {Offer(3 * n + k, LeftOpen(edges[k])) : k \in Which(Open)}

\* _append_component: the first one with this id and role is kept.
Same(c, d) == c.id = d.id /\ c.role = d.role
Appended(components, offers) ==
    components \cup
    {o.component : o \in {o \in offers :
        /\ \A c \in components : ~Same(c, o.component)
        /\ \A p \in offers : p.place < o.place => ~Same(p.component, o.component)}}

---------------------------------------------------------------------------
(* The draft and its review.                                                *)

\* _synthesis_open_questions, _synthesis_risks, _synthesis_warnings
Gaps(j, rules) ==
    (IF rules = {} THEN {"rule"} ELSE {})
    \cup (IF j.chunks = <<>> THEN {"documents"} ELSE {})
    \cup (IF \E x \in j.components : x.class = "to_confirm"
          THEN {"components"} ELSE {})
    \cup (IF j.warned /\ j.evidence = {} THEN {"catalog"} ELSE {})

\* SpecSynthesizer.synthesize
Draft(j) ==
    LET rules == Rules(j.chunks, j.requirement) IN
    [requirement |-> j.requirement, rules |-> rules, components |-> j.components,
     evidence |-> {OfChunk(j.chunks[k], k) : k \in DOMAIN j.chunks} \cup j.evidence,
     gaps |-> Gaps(j, rules), met |-> j.met]

\* SpecReviewer.review: evidence exists, and so does what the rules' texts cite.
ReviewPasses(d) ==
    /\ \A rule \in d.rules : {rule.evidence} \cup rule.cites \subseteq d.evidence
    /\ \A x \in d.components : x.class = "detected" => x.evidence \subseteq d.evidence

---------------------------------------------------------------------------
(* The documents: lines outside the evidence sections, evidence sections,   *)
(* and the identifiers that they define and link.                           *)

Line(cites, marked) == [cites |-> cites, marked |-> marked]
Document(lines, evidence, defines, links, accepts) ==
    [kind |-> "document", lines |-> lines, evidence |-> evidence, defines |-> defines,
     links |-> links, accepts |-> accepts, edited |-> FALSE]
Linked(ids) == [id \in ids |-> "REQ-001"]

Words(r) == Line(r.cites, r.marked)
Title(d) == Line(d.requirement.title.cites, d.requirement.title.marked)
RuleEvidence(d) == {rule.evidence : rule \in d.rules}
ComponentLines(d) ==
    {Line(x.evidence, x.class = "detected" \/ x.name \in MarkedNames) : x \in d.components}

\* _component_list: the risk and the question that name what is to be confirmed.
Uncertain(d) == {x \in d.components : x.class = "to_confirm"}
UncertainLines(d) ==
    {Line({}, \E x \in Uncertain(d) : x.name \in MarkedNames) : u \in {Uncertain(d)} \ {{}}}

\* (mutant: the evidence is listed in design.md alone)
RequirementsMdBare(d) ==
    Document({Title(d), Words(d.requirement),
              Line(d.requirement.cites \cup RuleEvidence(d), d.requirement.marked)} \cup UncertainLines(d),
             {}, <<"REQ-001">>, Linked({}), {})

\* _render_spec_requirements, _render_spec_design, _render_spec_tasks, _render_spec_test_plan
RequirementsMd(d) ==
    Document({Title(d), Words(d.requirement),
              Line(d.requirement.cites \cup RuleEvidence(d), d.requirement.marked)} \cup UncertainLines(d),
             d.evidence, <<"REQ-001">>, Linked({}), {})
DesignMd(d) ==
    Document({Title(d), Words(d.requirement)} \cup ComponentLines(d) \cup UncertainLines(d)
                \cup {Line({rule.evidence} \cup rule.cites, rule.marked) : rule \in d.rules},
             d.evidence, <<>>, Linked({}), {})
TasksMd(d) ==
    Document({Title(d)}, {}, <<"TASK-001", "TASK-002", "TASK-003">>,
             Linked({"TASK-001", "TASK-002", "TASK-003"}), {"TASK-003"})
TestPlanMd(d) ==
    Document({Title(d)}, d.evidence, <<"TEST-001", "TEST-002", "TEST-003">>,
             Linked({"TEST-001", "TEST-002", "TEST-003"}), {})
Rendered(d) ==
    [n \in Range(Names) |->
        CASE n = "requirements.md" -> RequirementsMd(d)
          [] n = "design.md" -> DesignMd(d)
          [] n = "tasks.md" -> TasksMd(d)
          [] OTHER -> TestPlanMd(d)]

---------------------------------------------------------------------------
(* SpecValidator.                                                           *)

Cited(docs) == UNION {UNION {l.cites : l \in docs[n].lines} : n \in DOMAIN docs}
Listed(docs) == UNION {docs[n].evidence : n \in DOMAIN docs}
Defined(doc) == Range(doc.defines)

\* _validate_ids
IdsAreUnique(docs) == \A n \in DOMAIN docs : IsInjective(docs[n].defines)

\* _validate_traceability
TraceabilityHolds(docs) ==
    LET reqs == Defined(docs["requirements.md"]) IN
    /\ reqs # {}
    /\ \A n \in {"tasks.md", "test-plan.md"} :
        /\ Defined(docs[n]) \subseteq DOMAIN docs[n].links
        /\ Range(docs[n].links) \subseteq reqs

\* _validate_single_acceptance_task
AcceptanceIsLast(tasks) ==
    /\ Cardinality(tasks.accepts) = 1
    /\ tasks.defines # <<>> /\ Last(tasks.defines) \in tasks.accepts

\* _validate_detected_lines_have_evidence
DetectedIsCited(docs) ==
    \A n \in DOMAIN docs : \A l \in docs[n].lines : l.marked => l.cites # {}

\* _validate_required_documents, _validate_document_text, _validate_required_sections
Whole(docs) == \A n \in DOMAIN docs : docs[n].kind = "document"

ValidDocuments(docs) ==
    /\ Whole(docs)
    /\ IdsAreUnique(docs)
    /\ Cited(docs) \subseteq Listed(docs)
    /\ TraceabilityHolds(docs)
    /\ AcceptanceIsLast(docs["tasks.md"])
    /\ DetectedIsCited(docs)

---------------------------------------------------------------------------
(* spec create                                                              *)

\* RequirementAnalyzer.analyze; the search itself is the business of another module.
Start(c) ==
    /\ job[c].step \in Ended /\ starts < MaxStarts
    /\ starts' = starts + 1
    /\ \E r \in Requirements, d \in Depths, o \in BOOLEAN :
        job' = [job EXCEPT ![c] =
            [step |-> "documents", requirement |-> r, depth |-> d, overwrite |-> o,
             found |-> FALSE, chunks |-> <<>>, queries |-> Queries(r), walk |-> NoWalk,
             components |-> {}, evidence |-> {}, warned |-> Queries(r) = <<>>, met |-> {}]]
    /\ UNCHANGED <<database, folder>>

\* DocumentEvidenceCollector.collect; its search is that of Answering, one read here.
CollectDocuments(c) ==
    /\ job[c].step = "documents"
    /\ job' = [job EXCEPT ![c].chunks = corpus, ![c].step = "impact"]
    /\ UNCHANGED <<database, folder, starts>>

\* _resolve_object, for the next query: a name that is not that of one symbol leaves a
\* warning and its candidates.
Resolve(c) ==
    /\ job[c].step = "impact" /\ job[c].queries # <<>>
    /\ LET found == catalog.named[Head(job[c].queries)]
           one == Cardinality(found) = 1
       IN job' = [job EXCEPT
            ![c].step = IF one THEN "resolved" ELSE "impact",
            ![c].walk = IF one THEN [NoWalk EXCEPT !.seed = CHOOSE s \in found : TRUE] ELSE @,
            ![c].queries = Tail(@),
            ![c].warned = @ \/ ~one,
            ![c].components = IF one THEN @ ELSE Appended(@, {Offer(0, Candidate(s)) : s \in found})]
    /\ UNCHANGED <<database, folder, starts>>

\* walk looks at its symbol once more: one that was retired meanwhile ends the command.
BeginWalk(c) ==
    /\ job[c].step = "resolved"
    /\ LET seed == job[c].walk.seed from == [symbol |-> seed, depth |-> 0]
       IN job' =
            IF seed \notin catalog.symbols THEN [job EXCEPT ![c] = Idle]
            ELSE [job EXCEPT ![c].step = "walking",
                             ![c].walk = [NoWalk EXCEPT !.seed = seed, !.reached = {seed},
                                            !.queue = IF job[c].depth > 0 THEN <<from>> ELSE <<>>]]
    /\ UNCHANGED <<database, folder, starts>>

\* active_relations_for_symbol, of the next symbol of the walk.
ReadAdjacent(c) ==
    /\ job[c].step = "walking" /\ DOMAIN job[c].walk.adjacent = {} /\ job[c].walk.queue # <<>>
    /\ LET w == job[c].walk from == Head(w.queue)
       IN job' = [job EXCEPT ![c].walk =
            [seed |-> w.seed, current |-> from, queue |-> Tail(w.queue), reached |-> w.reached,
             adjacent |-> [i \in Adjacent(catalog, from.symbol) |-> catalog.relations[i]],
             edges |-> w.edges]]
    /\ UNCHANGED <<database, folder, starts>>

\* The ends of the next row are looked up: they may have been retired since it was read.
HandleRelation(c) ==
    /\ job[c].step = "walking" /\ DOMAIN job[c].walk.adjacent # {}
    /\ job' = [job EXCEPT ![c].walk = Walked(@, catalog, job[c].depth)]
    /\ UNCHANGED <<database, folder, starts>>

\* (mutant: the relations that components cite are not listed)
ReportForgetting(c) ==
    /\ job[c].step = "walking"
    /\ DOMAIN job[c].walk.adjacent = {} /\ job[c].walk.queue = <<>>
    /\ LET w == job[c].walk
       IN job' = [job EXCEPT
            ![c].step = "impact",
            ![c].walk = NoWalk,
            ![c].evidence = @ \cup {OfSymbol(w.seed)},
            ![c].components = Appended(@, Offered(w.seed, w.edges)),
            ![c].met = @ \cup {RowOf(e) : e \in Range(w.edges)}]
    /\ UNCHANGED <<database, folder, starts>>

\* The walk is over: collect takes its components and its evidence.  met is history:
\* the rows that the walks of the command read.
Report(c) ==
    /\ job[c].step = "walking"
    /\ DOMAIN job[c].walk.adjacent = {} /\ job[c].walk.queue = <<>>
    /\ LET w == job[c].walk
       IN job' = [job EXCEPT
            ![c].step = "impact",
            ![c].walk = NoWalk,
            ![c].evidence = @ \cup {OfSymbol(w.seed)} \cup {OfRelation(e.id) : e \in Range(w.edges)},
            ![c].components = Appended(@, Offered(w.seed, w.edges)),
            ![c].met = @ \cup {RowOf(e) : e \in Range(w.edges)}]
    /\ UNCHANGED <<database, folder, starts>>

\* SpecCreateService.create: synthesis, review, rendering and validation.
Judge(c) ==
    /\ job[c].step = "impact" /\ job[c].queries = <<>>
    /\ \E d \in {Draft(job[c])} : \E docs \in {Rendered(d)} :
        job' = [job EXCEPT ![c] =
            [step |-> IF ReviewPasses(d) /\ ValidDocuments(docs) THEN "check" ELSE "rejected",
             overwrite |-> @.overwrite, found |-> FALSE, draft |-> d]]
    /\ UNCHANGED <<database, folder, starts>>

\* (mutant: only a folder with its four files is an existing specification)
CheckFiles(c) ==
    /\ job[c].step = "check"
    /\ job' = [job EXCEPT ![c].found = exists,
                          ![c].step = IF Whole(files) /\ ~job[c].overwrite THEN "refused" ELSE "mkdir"]
    /\ UNCHANGED <<database, folder, starts>>

\* SafeSpecWriter.write: an existing folder is refused unless the user said otherwise.
CheckFolder(c) ==
    /\ job[c].step = "check"
    /\ job' = [job EXCEPT ![c].found = exists,
                          ![c].step = IF exists /\ ~job[c].overwrite THEN "refused" ELSE "mkdir"]
    /\ UNCHANGED <<database, folder, starts>>

MakeFolder(c) ==
    /\ job[c].step = "mkdir"
    /\ exists' = TRUE
    /\ job' = [job EXCEPT ![c] = [step |-> "open", left |-> Names, overwrite |-> @.overwrite,
                                  found |-> @.found, draft |-> @.draft]]
    /\ UNCHANGED <<database, files, edits, starts>>

\* write_text: the file is truncated, then it is filled.
OpenFile(c) ==
    /\ job[c].step = "open"
    /\ files' = [files EXCEPT ![Head(job[c].left)] = Empty]
    /\ job' = [job EXCEPT ![c].step = "fill"]
    /\ UNCHANGED <<database, exists, edits, starts>>

FillFile(c) ==
    /\ job[c].step = "fill"
    /\ files' = [files EXCEPT ![Head(job[c].left)] = Rendered(job[c].draft)[Head(job[c].left)]]
    /\ job' = [job EXCEPT ![c] =
            IF Len(@.left) = 1 THEN [step |-> "written"]
            ELSE [@ EXCEPT !.left = Tail(job[c].left), !.step = "open"]]
    /\ UNCHANGED <<database, exists, edits, starts>>

\* A kill, Ctrl+C, a full disk or a database that fails.
Interrupt(c) ==
    /\ job[c].step \notin Ended
    /\ job' = [job EXCEPT ![c] = Idle]
    /\ UNCHANGED <<database, folder, starts>>

---------------------------------------------------------------------------
(* Others.                                                                  *)

ChangeDatabase ==
    /\ changes < MaxChanges /\ changes' = changes + 1
    /\ corpus' \in Corpora /\ catalog' \in Catalogs
    /\ UNCHANGED <<job, folder, starts>>

\* A document of the folder is there to be edited: a requirement renamed, a task added
\* after the last, evidence removed.
Edited(doc) ==
    {[doc EXCEPT !.edited = TRUE, !.defines = <<"REQ-002">> \o Tail(@)] : x \in {x \in {1} : doc.defines # <<>>}}
    \cup {[doc EXCEPT !.edited = TRUE, !.defines = Append(@, "TASK-002")]}
    \cup {[doc EXCEPT !.edited = TRUE, !.evidence = {}]}
EditFile ==
    /\ edits < MaxEdits /\ edits' = edits + 1
    /\ \E n \in {n \in Range(Names) : files[n].kind = "document"} : \E doc \in Edited(files[n]) :
            files' = [files EXCEPT ![n] = doc]
    /\ UNCHANGED <<database, job, exists, starts>>

SpecModeNext ==
    \/ \E c \in Creators :
        \/ Start(c) \/ CollectDocuments(c) \/ Resolve(c) \/ BeginWalk(c) \/ ReadAdjacent(c)
        \/ HandleRelation(c) \/ Report(c) \/ Judge(c) \/ CheckFolder(c) \/ MakeFolder(c)
        \/ OpenFile(c) \/ FillFile(c) \/ Interrupt(c)
    \/ ChangeDatabase \/ EditFile

SpecModeSpec == SpecInit /\ [][SpecModeNext]_specVars

---------------------------------------------------------------------------
Steps == Ended \cup {"documents", "impact", "resolved", "walking", "check", "mkdir", "open", "fill"}
SpecModeTypeOK ==
    /\ starts \in 0..MaxStarts /\ changes \in 0..MaxChanges /\ edits \in 0..MaxEdits
    /\ \A c \in Creators : job[c].step \in Steps
    /\ DOMAIN files = Range(Names)
    /\ ~exists => files = NoFiles

\* Whatever mixture of commands wrote the folder, each generated document stands
\* alone: what its lines cite is listed in it, and what they call detected is cited.
\* The validator only asks that some document lists it.  tasks.md lists nothing: its
\* title may cite what the other three list.
DocumentsStandAlone ==
    \A n \in Range(Names) : files[n].kind = "document" /\ ~files[n].edited =>
        \A l \in files[n].lines :
            (n # "tasks.md" => l.cites \subseteq files[n].evidence) /\ (l.marked => l.cites # {})

\* A command is rejected only for words that are not its own: those of the requirement,
\* of --name, of a document that cites evidence of another time, or the name of a
\* component that is still to be confirmed.  Whatever analyze publishes during the
\* collection, what the renderer itself writes the reviewer and the validator accept.
OnlyForeignWordsReject ==
    \A c \in Creators : job[c].step = "rejected" =>
        LET d == job[c].draft title == d.requirement.title IN
        \/ d.requirement.marked \/ ~(d.requirement.cites \subseteq d.evidence)
        \/ (title.marked /\ title.cites = {}) \/ ~(title.cites \subseteq d.evidence)
        \/ \E rule \in d.rules : ~(rule.cites \subseteq d.evidence)
        \/ \E x \in Uncertain(d) : x.name \in MarkedNames

\* specs/H5-SpecMode/requirements.md, H5-RF-004, whatever analyze published between two
\* reads: every row that the search read without a certain end is listed as to be
\* confirmed, and what is called detected is the symbol asked for or rests on a row that
\* was read resolved.
OpenEndsAreToConfirm ==
    \A c \in Creators : "draft" \in DOMAIN job[c] =>
        LET d == job[c].draft
            certain == {OfRelation(m.id) : m \in {m \in d.met : m.status = "resolved"}}
        IN
        /\ \A m \in d.met : m.status # "resolved" =>
                \E x \in d.components : x.id = <<"unresolved", m.key>> /\ x.class = "to_confirm"
        /\ \A x \in d.components : x.class = "detected" =>
                x.evidence \subseteq {OfSymbol(x.name)} \cup certain

\* What a document calls detected is cited and listed in it, and nothing else is.
DocumentsAreTrue == SpecModeTypeOK /\ DocumentsStandAlone /\ OpenEndsAreToConfirm

\* A document on disk changes under the user's hand, by --overwrite, or by a
\* command that looked before the folder existed.
ReplacedOnRequest ==
    [][\A n \in Range(Names) :
        files[n].kind = "document" /\ files'[n] # files[n] =>
            \/ edits' # edits
            \/ \E c \in Creators : job[c] # job'[c] /\ (job[c].overwrite \/ ~job[c].found)]_specVars
=============================================================================
