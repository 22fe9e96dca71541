----------------------------- MODULE Answering -----------------------------
(***************************************************************************)
(* The ask command: search, evidence of the catalogue and of the graph,      *)
(* context, privacy preflight, generation, citation validation and at most   *)
(* one repair (AskService, SearchService and CitationValidator,              *)
(* application/rag.py; _run_ask, cli.py), while ingest and index change the  *)
(* database between its reads.                                              *)
(***************************************************************************)
EXTENDS ContextSelection

CONSTANTS
    Scenarios,      \* settings and flags of a run, see Settings
    Databases,      \* [vectors, current, stored, indexed] a process may find
    VectorScore, KeywordScore,      \* [Items -> Nat], 0: not found
    StructuredOf,   \* Seq of [block, related]: the symbols that match, best first
    GraphOf,        \* Seq of the chunks that the expansion shows
    CandidateK,
    IncludeSnippets,
    Answers,        \* what the model may write
    Question,       \* the terms of the question
    HeaderTerms,    \* [Items -> terms of the header of a source: path, kind]
    Long,           \* terms that are support by themselves
    MaxEdits,       \* bound: commits of other processes during a run
    Touched         \* bound: the chunks they are about

ASSUME Settings ==
    \A s \in Scenarios :
        /\ s.mode \in {"semantic", "keyword", "hybrid"}
        /\ s.policy \in {"baseline_v1", "optimized_v1"}
        /\ s.budget \in Nat         \* rag.input_token_budget_est; 0 is None
        /\ s.policy = "optimized_v1" => s.budget # 0
        /\ s.topK \in Nat \ {0}
        /\ {s.noLlm, s.remote, s.graph} \subseteq BOOLEAN

ASSUME Corpus ==
    /\ Databases \subseteq [vectors : SUBSET Items, current : SUBSET Items, stored : SUBSET Items,
                           indexed : BOOLEAN]
    /\ {VectorScore, KeywordScore} \subseteq [Items -> Nat]
    /\ StructuredOf \in Seq([block : Items, related : Seq(Items), score : Nat])
    /\ GraphOf \in Seq(Items)
    /\ CandidateK \in Nat \ {0} /\ IncludeSnippets \in BOOLEAN
    /\ DOMAIN HeaderTerms = Items

\* Each is a set of paragraphs, sets of sentences.
ASSUME AnswersAreFinite == \A a \in Answers : \A block \in a : \A s \in block : IsFiniteSet(s.terms)

VARIABLES
    db,             \* vectors, current (of processed files), stored (chunk rows), indexed
    edits,
    scenario,
    step,           \* where ask is
    operation,      \* 1, and 2 after the user accepts a privacy warning
    accepted,       \* privacy_risk_accepted
    found, matched, structured, ranked, graph,      \* sequences of candidates
    selected,       \* candidates given to the context builder
    unswapped,      \* context before the graph fallback
    generated,      \* context of the generation prompt
    context,
    preflight,      \* outcome of the privacy preflight of this operation
    calls,          \* Seq of prompts sent
    answer,         \* the text that will be shown
    validation,     \* none, valid, invalid
    rows,           \* rag_queries: Seq of [status, told], told once the metrics are written
    outcome         \* what the command returns: <<>> until it ends

queryVars == <<db, edits>>
searchVars == <<found, matched, structured, ranked, graph>>
contextVars == <<selected, unswapped, generated, context>>
modelVars == <<preflight, calls, answer, validation>>
askVars == <<db, edits, scenario, step, operation, accepted, searchVars, contextVars,
             modelVars, rows, outcome>>

NoAnswer == {}
Fresh ==
    /\ found = <<>> /\ matched = <<>> /\ structured = <<>> /\ ranked = <<>> /\ graph = <<>>
    /\ selected = <<>> /\ unswapped = Empty /\ generated = Empty /\ context = Empty
    /\ preflight = "none" /\ calls = <<>> /\ answer = NoAnswer /\ validation = "none"

AskInit ==
    /\ db \in Databases /\ edits = 0
    /\ scenario \in Scenarios
    /\ step = "manifest" /\ operation = 1 /\ accepted = FALSE
    /\ Fresh
    /\ rows = <<>> /\ outcome = <<>>

Prefix(seq, n) == SubSeq(seq, 1, IF Len(seq) < n THEN Len(seq) ELSE n)

---------------------------------------------------------------------------
(* SearchService.search: each read sees the database of its own moment.     *)

ReadManifest ==
    /\ step = "manifest"
    /\ step' = IF scenario.mode # "keyword" /\ db.indexed THEN "semantic"
               ELSE IF scenario.mode # "semantic" THEN "keyword" ELSE "rank"
    /\ UNCHANGED <<queryVars, scenario, operation, accepted, searchVars, contextVars,
                   modelVars, rows, outcome>>

\* Best score first, then the id; and those that reach the threshold.
ByScore(S) == SortedBy([c \in S |-> <<-c.score, c.item>>])
Best(S) == Prefix(ByScore(S), CandidateK)
Reaching(seq) == Filtered(seq, {c \in Range(seq) : Reaches(c)})

\* The vectors of the manifest, whatever became of their chunks.
SemanticSearch ==
    /\ step = "semantic"
    /\ found' = Reaching(Best({Candidate(i, "h3_chunk", VectorScore[i], FALSE) :
                               i \in {i \in db.vectors : VectorScore[i] > 0}}))
    /\ step' = IF scenario.mode = "hybrid" THEN "keyword" ELSE "rank"
    /\ UNCHANGED <<queryVars, scenario, operation, accepted, matched, structured, ranked, graph,
                   contextVars, modelVars, rows, outcome>>

\* _filtered_chunk_rows: chunks of processed files whose text is the file's.
Searchable == db.stored \cap db.current

KeywordSearch ==
    /\ step = "keyword"
    /\ matched' = Best({Candidate(i, "h3_chunk", KeywordScore[i], FALSE) :
                        i \in {i \in Searchable : KeywordScore[i] > 0}})
    /\ step' = "rank"
    /\ UNCHANGED <<queryVars, scenario, operation, accepted, found, structured, ranked, graph,
                   contextVars, modelVars, rows, outcome>>

\* combine_hybrid_candidates: one candidate for a chunk, its scores combined (both
\* families with the same weight; the normalisation over a search is left out).
Hybrid ==
    LET items == {c.item : c \in Range(found) \cup Range(matched)}
        ScoreIn(seq, i) == IF \E c \in Range(seq) : c.item = i
                           THEN (CHOOSE c \in Range(seq) : c.item = i).score ELSE 0
    IN {Candidate(i, "h3_chunk", ScoreIn(found, i) + ScoreIn(matched, i), FALSE) : i \in items}

ResultLimit == IF scenario.policy = "optimized_v1" THEN CandidateK ELSE scenario.topK

\* enrich_candidates: a candidate whose row is gone stays, without its text.
Enriched(seq, always) ==
    [k \in DOMAIN seq |->
        [seq[k] EXCEPT !.content = @ \/ (always /\ seq[k].item \in db.stored)]]

\* The row as record_rag_query leaves it, without the metrics of an answer.
Searched(status) == [status |-> status, told |-> FALSE]

\* _rank, and the row of rag_queries.
Rank ==
    /\ step = "rank"
    /\ \E all \in {CASE scenario.mode = "semantic" -> found
                       [] scenario.mode = "keyword" -> Reaching(matched)
                       [] OTHER -> Reaching(ByScore(Hybrid))} :
        ranked' = Enriched(Prefix(all, ResultLimit), IncludeSnippets)
    /\ rows' = Append(rows, Searched(IF ranked' = <<>> THEN "insufficient_evidence" ELSE "completed"))
    /\ step' = "structured"
    /\ UNCHANGED <<queryVars, scenario, operation, accepted, found, matched, structured, graph,
                   contextVars, modelVars, outcome>>

Searching == {"semantic", "keyword", "rank"}

\* The embedding provider or SQLite fails: the error goes up, and a row says so unless
\* that write fails too.
SearchFails ==
    /\ step \in Searching
    /\ rows' \in {rows, Append(rows, Searched("error"))}
    /\ step' = "ended"
    /\ outcome' = [status |-> "raised", exit |-> 1]
    /\ UNCHANGED <<queryVars, scenario, operation, accepted, searchVars, contextVars, modelVars>>

---------------------------------------------------------------------------
(* The other families of evidence.                                          *)

\* DataDrivenEvidenceRetriever.retrieve: the block of each record and the chunks of
\* its code, which only need a row.
BlockAndCode(s) ==
    LET block == Candidate(s.block, "structured_symbol", s.score, TRUE)
        code == Filtered(s.related, db.stored)
    IN <<block>> \o [k \in DOMAIN code |-> Candidate(code[k], "related_code", s.score - 1, TRUE)]

\* seen_chunks: a chunk is listed once, for the first symbol that brings it.
Listed(seq, c) ==
    IF \E k \in DOMAIN seq : seq[k].item = c.item THEN seq ELSE Append(seq, c)
ListedAll(seq, s) == Folded(Listed, seq, BlockAndCode(s))

RetrieveStructured ==
    /\ step = "structured"
    /\ structured' = Prefix(Folded(ListedAll, <<>>, StructuredOf), CandidateK)
    /\ step' = "enrich"
    /\ UNCHANGED <<queryVars, scenario, operation, accepted, found, matched, ranked, graph,
                   contextVars, modelVars, rows, outcome>>

EnrichAgain ==
    /\ step = "enrich"
    /\ ranked' = Enriched(ranked, TRUE)
    /\ step' = IF scenario.graph THEN "graph" ELSE "select"
    /\ UNCHANGED <<queryVars, scenario, operation, accepted, found, matched, structured, graph,
                   contextVars, modelVars, rows, outcome>>

\* GraphAwareEvidenceRetriever (module GraphExpansion): chunks it found citable.
RetrieveGraph ==
    /\ step = "graph"
    /\ LET chunks == Filtered(GraphOf, Searchable)
       IN graph' = [k \in DOMAIN chunks |->
                        Candidate(chunks[k], "graph_expansion", VectorScore[chunks[k]] + 1, TRUE)]
    /\ step' = "select"
    /\ UNCHANGED <<queryVars, scenario, operation, accepted, found, matched, structured, ranked,
                   contextVars, modelVars, rows, outcome>>

Budgeted == scenario.budget # 0 /\ ~scenario.noLlm

SelectContext ==
    /\ step = "select"
    /\ \E families \in {Families(structured, graph, ranked)} :
        selected' = IF scenario.policy = "optimized_v1"
                    THEN SelectRelevant(families, scenario.topK)
                    ELSE MergeLegacy(families, scenario.topK)
    /\ unswapped' = IF Budgeted THEN BuildForInput(selected', scenario.budget, scenario.policy)
                    ELSE Build(selected', ContextBudget, scenario.policy)
    /\ context' = IF Budgeted /\ scenario.graph
                  THEN Fallback(selected', unswapped', scenario.budget, scenario.policy)
                  ELSE unswapped'
    /\ generated' = context'
    /\ step' = "decide"
    /\ UNCHANGED <<queryVars, scenario, operation, accepted, searchVars, modelVars, rows, outcome>>

\* A read before or after the search fails: the error goes up, no row tells of it.
EvidenceFails ==
    /\ step \in {"manifest", "structured", "enrich", "graph"}
    /\ step' = "ended"
    /\ outcome' = [status |-> "raised", exit |-> 1]
    /\ UNCHANGED <<queryVars, scenario, operation, accepted, searchVars, contextVars,
                   modelVars, rows>>

---------------------------------------------------------------------------
(* Terms.  A line of a stream of text is a term of its own; a source also     *)
(* shows those of its header.                                               *)

TermsOf(s) == {<<Text[s.c.item].stream, l>> : l \in s.first..s.last}
ContentTerms(ctx) == UNION {TermsOf(s) : s \in Range(ctx.sources)}
ContextTerms(ctx) == ContentTerms(ctx) \cup UNION {HeaderTerms[s.c.item] : s \in Range(ctx.sources)}

\* _context_answers_question
AnswersQuestion(ctx) ==
    Question = {} \/
    Cardinality(Question \cap ContextTerms(ctx)) >= (IF Cardinality(Question) <= 2 THEN 1 ELSE 2)

End(status, valid) ==
    /\ step' = "ended"
    /\ outcome' = [status |-> status, exit |-> IF valid THEN 0 ELSE 1]

\* No source, or a budget that left no source of use.
Insufficient ==
    \/ context.sources = <<>>
    \/ (Budgeted /\ ~AnswersQuestion(context))

\* (mutant: the metrics of a failed call leave the status of the search)
SetLastKeeping(status) == [rows EXCEPT ![Len(rows)].told = TRUE]
\* update_rag_query_metrics: what the answer took, and a status.
SetLast(status) == [rows EXCEPT ![Len(rows)] = [status |-> status, told |-> TRUE]]

\* The run ends with its metrics in the row, which keeps the status of the search; if
\* they cannot be written the row stays as it was and the error goes up.
EndTold(status, valid) ==
    \/ rows' = SetLast(rows[Len(rows)].status) /\ End(status, valid)
    \/ UNCHANGED rows /\ End("raised", FALSE)

AnswerWithoutModel ==
    /\ step = "decide" /\ (Insufficient \/ scenario.noLlm)
    /\ EndTold(IF Insufficient THEN "insufficient_evidence" ELSE "completed", TRUE)
    /\ UNCHANGED <<queryVars, scenario, operation, accepted, searchVars, contextVars, modelVars>>

---------------------------------------------------------------------------
(* Privacy (module PrivacyPreflight), the prompt and the model.             *)

\* (mutant: a warning does not wait for the user)
AfterPreflightLenient(result) == IF result = "block" THEN "blocked" ELSE "generate"

AfterPreflight(result) ==
    CASE result = "pass" -> "generate"
      [] result = "warning" -> IF accepted THEN "generate" ELSE "confirm"
      [] OTHER -> "blocked"

Preflight ==
    /\ step = "decide" /\ ~Insufficient /\ ~scenario.noLlm
    /\ preflight' \in IF scenario.remote THEN {"pass", "warning", "block"} ELSE {"pass"}
    /\ step' = AfterPreflight(preflight')
    /\ UNCHANGED <<queryVars, scenario, operation, accepted, searchVars, contextVars,
                   calls, answer, validation, rows, outcome>>

\* PrivacyPreflightBlockedError, or a user who does not accept the warning.
Stop ==
    /\ step \in {"blocked", "confirm"}
    /\ End("raised", FALSE)
    /\ UNCHANGED <<queryVars, scenario, operation, accepted, searchVars, contextVars,
                   modelVars, rows>>

\* Back to the beginning: what the first operation found is not used again.
AskAgain ==
    /\ step = "confirm"
    /\ operation' = 2
    /\ step' = "manifest"
    /\ found' = <<>> /\ matched' = <<>> /\ structured' = <<>> /\ ranked' = <<>> /\ graph' = <<>>
    /\ selected' = <<>> /\ unswapped' = Empty /\ generated' = Empty /\ context' = Empty
    /\ preflight' = "none"
    /\ UNCHANGED <<queryVars, scenario, calls, answer, validation, rows, outcome>>

\* _run_ask: the user accepts and the whole question is asked again.
AcceptRisk == AskAgain /\ accepted' = TRUE

Call(stage, tokens) ==
    [stage |-> stage, tokens |-> tokens, operation |-> operation, preflight |-> preflight,
     accepted |-> accepted]

\* Sources that an answer cites.
Cites(a) == UNION {s.cites : s \in UNION a}
Allowed(ctx) == DOMAIN ctx.sources
TextOf(ctx, ids) == UNION {TermsOf(ctx.sources[n]) : n \in ids \cap Allowed(ctx)}

\* _claim_supported: an absence that the cited text does not contradict, or a long
\* term in common, or two terms.
Supported(s, ctx) ==
    LET text == TextOf(ctx, s.cites) IN
    /\ text # {}
    /\ \/ s.absent # {} /\ s.absent \cap text = {}
       \/ s.terms \cap Long \cap text # {}
       \/ /\ s.terms \cap Long = {}
          /\ Cardinality(s.terms \cap text) >= (IF Cardinality(s.terms) < 2
                                                THEN Cardinality(s.terms) ELSE 2)

\* _uncited_factual_blocks: a paragraph with terms and no citation.
Uncited(block) ==
    /\ UNION {s.terms : s \in block} # {}
    /\ UNION {s.cites : s \in block} = {}

Unsupported(a, ctx) ==
    \/ \E block \in a : Uncited(block)
    \/ \E s \in UNION a : s.cites # {} /\ ~s.insufficient /\ s.terms # {} /\ ~Supported(s, ctx)

Contradicts(a, ctx) == \E s \in UNION a : s.cites # {} /\ s.denies \cap ContentTerms(ctx) # {}

\* CitationValidator.validate
Valid(a, ctx) ==
    /\ Cites(a) # {} /\ Cites(a) \subseteq Allowed(ctx)
    /\ IF AnswersQuestion(ctx)
       THEN ~Unsupported(a, ctx) /\ ~Contradicts(a, ctx)
       ELSE \E s \in UNION a : s.insufficient

\* _generate_with_observability and the validation of what came back.
Generate ==
    /\ step = "generate"
    /\ calls' = Append(calls, Call("generation", Prompt(context)))
    /\ \E a \in Answers :
        /\ answer' = a
        /\ validation' = IF Valid(a, context) THEN "valid" ELSE "invalid"
    /\ step' = IF validation' = "valid" THEN "deliver" ELSE "repair"
    /\ UNCHANGED <<queryVars, scenario, operation, accepted, searchVars, contextVars, preflight,
                   rows, outcome>>

\* (mutant: the repair repeats the sources as they were)
RepairSourcesWhole == context.sources
RepairSources ==
    IF scenario.budget = 0 THEN context.sources ELSE FitRepair(context.sources, scenario.budget)
Reduced(sources) == [context EXCEPT !.sources = sources]
Repairable(sources) ==
    /\ sources # <<>>
    /\ scenario.budget # 0 => AnswersQuestion(Reduced(sources))

\* The prompt that repairs the answer does not fit: the answer is rejected.
SkipRepair ==
    /\ step = "repair"
    /\ \E sources \in {RepairSources} : ~Repairable(sources)
    /\ answer' = NoAnswer
    /\ step' = "deliver"
    /\ UNCHANGED <<queryVars, scenario, operation, accepted, searchVars, contextVars, preflight,
                   calls, validation, rows, outcome>>

\* (mutant: the repaired answer is judged by the text of the first prompt)
JudgedByFirst(a, ctx) == Valid(a, generated)
Judged(a, ctx) == Valid(a, ctx)

Repair ==
    /\ step = "repair"
    /\ \E sources \in {RepairSources} :
        /\ Repairable(sources)
        /\ context' = Reduced(sources)
        /\ calls' = Append(calls, Call("repair", RepairPrompt(sources)))
        /\ \E a \in Answers :
            /\ validation' = IF Judged(a, context') THEN "valid" ELSE "invalid"
            /\ answer' = IF validation' = "valid" THEN a ELSE NoAnswer
    /\ step' = "deliver"
    /\ UNCHANGED <<queryVars, scenario, operation, accepted, searchVars, selected, unswapped,
                   generated, preflight, rows, outcome>>

\* The provider fails, times out or is interrupted: _record_failed_llm_query makes the row
\* an error, if it can be written.
CallFails ==
    /\ \/ /\ step = "generate"
          /\ calls' = Append(calls, Call("generation", Prompt(context)))
          /\ UNCHANGED context
       \/ /\ step = "repair"
          /\ \E sources \in {RepairSources} :
                /\ Repairable(sources)
                /\ calls' = Append(calls, Call("repair", RepairPrompt(sources)))
                /\ context' = Reduced(sources)
    /\ rows' \in {rows, SetLast("error")}
    /\ End("raised", FALSE)
    /\ UNCHANGED <<queryVars, scenario, operation, accepted, searchVars, selected, unswapped,
                   generated, preflight, answer, validation>>

\* A rejected answer is an error for the user and not in the row.
Deliver ==
    /\ step = "deliver"
    /\ EndTold(IF validation = "valid" THEN "completed" ELSE "error", validation = "valid")
    /\ UNCHANGED <<queryVars, scenario, operation, accepted, searchVars, contextVars, modelVars>>

Reading == {"manifest", "semantic", "keyword", "rank", "structured", "enrich", "graph"}

\* Ingest or index commits: a chunk is withdrawn or replaced, or a vector pruned.  (After
\* its last read ask does not look at the tables again.)
Change ==
    /\ step \in Reading /\ edits < MaxEdits
    /\ edits' = edits + 1
    /\ \/ \E i \in db.current \cap Touched :
            db' \in {[db EXCEPT !.current = @ \ {i}],
                    [db EXCEPT !.current = @ \ {i}, !.stored = @ \ {i}]}
       \/ \E i \in db.vectors \cap Touched : db' = [db EXCEPT !.vectors = @ \ {i}]
    /\ UNCHANGED <<scenario, step, operation, accepted, searchVars, contextVars, modelVars,
                   rows, outcome>>

Act ==
    \/ ReadManifest \/ SemanticSearch \/ KeywordSearch \/ Rank \/ SearchFails
    \/ RetrieveStructured \/ EnrichAgain \/ RetrieveGraph \/ EvidenceFails
    \/ AnswerWithoutModel \/ Preflight \/ Stop \/ AcceptRisk
    \/ Generate \/ SkipRepair \/ Repair \/ CallFails \/ Deliver

AskNext == Act \/ SelectContext \/ Change
AskSpec == AskInit /\ [][AskNext]_askVars

---------------------------------------------------------------------------
AskTypeOK ==
    /\ step \in {"manifest", "semantic", "keyword", "rank", "structured", "enrich", "graph",
                 "select", "decide", "blocked", "confirm", "generate", "repair", "deliver", "ended"}
    /\ operation \in 1..2 /\ accepted = (operation = 2)
    /\ \A c \in Range(selected) : c.item \in Items /\ c.rank \in -1..Cardinality(Items)
    /\ {s.c.item : s \in Range(context.sources)} \subseteq Items
    /\ Len(rows) <= operation
    /\ Range(rows) \subseteq [status : {"completed", "insufficient_evidence", "error"}, told : BOOLEAN]
    /\ (outcome # <<>>) = (step = "ended")

\* With an input budget no prompt is sent that does not fit it, the first or the
\* repair, whatever was trimmed, swapped or shrunk to get there.
PromptsFit ==
    scenario.budget # 0 => \A k \in DOMAIN calls : calls[k].tokens <= scenario.budget

\* A run sends at most a generation and a repair, both in the operation that the
\* preflight let through, and a warning only counts once the user accepted it.
CallsAreAuthorized ==
    /\ Len(calls) <= 2
    /\ \A k \in DOMAIN calls :
        /\ calls[k].stage = IF k = 1 THEN "generation" ELSE "repair"
        /\ calls[k].operation = operation /\ calls[k].preflight # "block"
        /\ calls[k].preflight = "warning" => calls[k].accepted
    /\ scenario.noLlm => calls = <<>>

\* An answer delivered as good cites only sources shown with it, no paragraph of it
\* goes without, and each citation points at text that was in the last prompt.
AnswersAreGrounded ==
    step = "ended" /\ calls # <<>> /\ outcome.status = "completed" =>
        /\ answer # NoAnswer
        /\ Cites(answer) \subseteq DOMAIN context.sources
        /\ AnswersQuestion(context) =>
            \A block \in answer :
                /\ UNION {s.terms : s \in block} # {} => UNION {s.cites : s \in block} # {}
                /\ \A s \in block :
                    s.cites # {} /\ s.terms # {} /\ ~s.insufficient =>
                        \/ s.terms \cap TextOf(context, s.cites) # {}
                        \/ s.absent # {} /\ s.absent \cap TextOf(context, s.cites) = {}

\* A repair shows the sources of the generation, in their order and under their
\* numbers, each with a beginning of the same text.
RepairKeepsSources ==
    /\ Len(context.sources) = Len(generated.sources)
    /\ \A k \in DOMAIN context.sources :
        LET s == context.sources[k] g == generated.sources[k] IN
        s.c = g.c /\ s.first = g.first /\ s.last <= g.last

\* optimized_v1 gives its places only to evidence with text and without repeats,
\* and leaves one empty only when no such candidate is left.
SlotsHoldEvidence ==
    scenario.policy = "optimized_v1" /\ step = "decide" =>
        LET families == Families(structured, graph, ranked)
            pool == Range(families[1]) \cup Range(families[2])
            items == {c.item : c \in Range(selected)}
        IN /\ \A c \in Range(selected) : c.content
           /\ \A j, k \in DOMAIN selected :
                j # k => Text[selected[j].item].digest # Text[selected[k].item].digest
           /\ Len(selected) < scenario.topK =>
                \A c \in pool : c.content /\ ~Shadowed(families[1], c) =>
                    \E i \in items : i = c.item \/ Text[i].digest = Text[c.item].digest

\* The scores of the two families are not compared: with two places, the best chunk
\* and the best structural candidate are both in, if neither has an equal.
BothFamiliesSpeak ==
    scenario.policy = "optimized_v1" /\ step = "decide" /\ scenario.topK >= 2 =>
        LET families == Families(structured, graph, ranked)
            Heads(seq, family) ==
                LET S == Eligible(families[1], seq) IN {c \in S : DenseRank(c, S, family) = 0}
            heads == Heads(families[1], "structured") \cup Heads(families[2], "chunks")
        IN /\ Cardinality(Heads(families[1], "structured")) = 1
           /\ Cardinality(Heads(families[2], "chunks")) = 1
           /\ \A c, d \in heads : c # d => Text[c.item].digest # Text[d.item].digest
           => {c.item : c \in heads} \subseteq {c.item : c \in Range(selected)}

\* What is cut from a source because another one shows it is shown by another one.
NoTextIsLost ==
    \A s \in Range(generated.sources) : \A l \in Text[s.c.item].first..(s.first - 1) :
        \E t \in Range(generated.sources) : <<Text[s.c.item].stream, l>> \in TermsOf(t)

\* Each candidate is a source or has one reason not to be, also after the fallback.
CandidatesAreAccounted ==
    step = "decide" /\ context.sources # <<>> =>
        \A c \in Range(selected) :
            LET reasons == {o \in context.omitted : o[1] = c.item} IN
            Cardinality(reasons) = IF c.item \in ItemsOf(context) THEN 0 ELSE 1

\* The graph fallback never costs a source and never loses graph evidence.
FallbackNeverCosts ==
    step = "decide" =>
        /\ Len(context.sources) >= Len(unswapped.sources)
        /\ (\E s \in Range(unswapped.sources) : OfGraph(s.c)) =>
                \E s \in Range(context.sources) : OfGraph(s.c)
        /\ context # unswapped =>
                /\ \E s \in Range(context.sources) : OfGraph(s.c)
                /\ Prompt(context) <= scenario.budget

\* Only a vector or the code of a structured symbol can bring a chunk that is not
\* current into an answer.
OnlyVectorsAreStale ==
    step = "decide" /\ edits = 0 =>
        \A s \in Range(context.sources) :
            \/ s.c.item \in db.current
            \/ s.c.item \in {c.item : c \in Range(found)}
            \/ s.c.kind \in {"structured_symbol", "related_code"}

\* Selection, whatever was withdrawn between two reads: places go to evidence of both
\* families, candidates left out have a reason, and only vectors bring what is not current.
SelectionIsAccounted ==
    AskTypeOK /\ SlotsHoldEvidence /\ BothFamiliesSpeak /\ CandidatesAreAccounted /\ OnlyVectorsAreStale

\* No step that shortens the context, the fallback, the repair or the removal of
\* overlaps, loses a text or a source on its way.
TextSurvives == NoTextIsLost /\ RepairKeepsSources

\* The budget holds for what is sent and is never paid with a source.
BudgetIsKept == PromptsFit /\ FallbackNeverCosts

\* A row with metrics is that of a run that ended, of its last operation, and it is an
\* error exactly if the run raised.  A run that answers has such a row; one that raises
\* may have none (its manifest could not be read, or the row not written) or the row that
\* its search left, but then without metrics.  No operation follows a failed search.
RowsTellFailures ==
    /\ \A k \in DOMAIN rows :
        /\ rows[k].told =>
            /\ step = "ended" /\ k = operation
            /\ rows[k].status = "error" <=> outcome.status = "raised"
        /\ rows[k].status = "error" => k = operation /\ step = "ended" /\ outcome.status = "raised"
    /\ step = "ended" /\ outcome.status # "raised" => Len(rows) = operation /\ rows[operation].told
=============================================================================
