------------------------- MODULE ContextSelection -------------------------
(***************************************************************************)
(* From candidates to the numbered context of a prompt: the families of     *)
(* candidates are joined, the best are selected, the builder fills a token  *)
(* budget with their text, repeated text is cut, one source may be replaced *)
(* by graph evidence and a repair may shrink every source                   *)
(* (application/rag.py).  Pure functions: text is counted in tokens, each    *)
(* token a line of its document, and estimate_tokens is additive.           *)
(***************************************************************************)
EXTENDS Integers, Sequences, FiniteSets, Functions

CONSTANTS
    Items,              \* chunk ids and the ids of structured blocks: a set of naturals
    Text,               \* [Items -> record of the text that the item shows, see TextData]
    Exact,              \* items whose symbol is named literally by the question
    IdTokens,           \* what listing one more source id costs the instructions
    PromptTokens,       \* the rest of the generation prompt
    RepairTokens,       \* the rest of the repair prompt, the rejected answer included
    MaxChunkTokens,     \* rag.max_chunk_tokens
    ContextBudget,      \* rag.context_token_budget
    Threshold           \* retrieval.similarity_threshold

ASSUME TextData ==
    /\ Items \subseteq Nat /\ IsFiniteSet(Items)
    /\ \A i \in Items :
        /\ {Text[i].doc, Text[i].first, Text[i].last} \subseteq Nat
        /\ Text[i].first <= Text[i].last
        /\ {Text[i].lines, Text[i].configuration} \subseteq BOOLEAN
        /\ Text[i].stream \in Nat       \* whose text it is: a document's or its own
        /\ Text[i].digest \in Nat       \* the prefix that deduplication compares
        /\ Text[i].header \in Nat       \* tokens of its metadata when it is rendered
    /\ Exact \subseteq Items
    /\ MaxChunkTokens \in Nat \ {0}
    /\ {IdTokens, PromptTokens, RepairTokens, ContextBudget, Threshold} \subseteq Nat

Smaller(a, b) == IF a < b THEN a ELSE b
Larger(a, b) == IF a > b THEN a ELSE b

\* A finite set in the order of a strict total order on it.
Sorted(set, before) ==
    [k \in 1..Cardinality(set) |->
        CHOOSE x \in set : Cardinality({y \in set : <<y, x>> \in before}) = k - 1]

\* The lexicographic order, and sorted(key=...): a set in the order of the keys of its members.
Lower(t, u) ==
    \E k \in DOMAIN t : t[k] < u[k] /\ \A j \in 1..(k - 1) : t[j] = u[j]
KeyOrder(key) == {p \in (DOMAIN key) \X (DOMAIN key) : Lower(key[p[1]], key[p[2]])}
SortedBy(key) == Sorted(DOMAIN key, KeyOrder(key))

\* A loop over a sequence that builds its result one element at a time.
Folded(Op(_, _), base, seq) ==
    LET acc[k \in 0..Len(seq)] == IF k = 0 THEN base ELSE Op(acc[k - 1], seq[k])
    IN acc[Len(seq)]

\* The elements of a sequence that are in a set.
Filtered(seq, set) ==
    LET Keep(kept, x) == IF x \in set THEN Append(kept, x) ELSE kept IN Folded(Keep, <<>>, seq)

Sum(seq) == LET Plus(a, b) == a + b IN Folded(Plus, 0, seq)

---------------------------------------------------------------------------
(* Candidates.  kind is evidence_kind, "h3_chunk" where the code has none.  *)

Unranked == -1
Candidate(item, kind, score, content) ==
    [item |-> item, kind |-> kind, origins |-> {kind}, score |-> score,
     content |-> content, rank |-> Unranked]

MergeSame(primary, additional) ==
    [primary EXCEPT !.origins = @ \cup additional.origins,
                    !.score = Larger(@, additional.score),
                    !.content = @ \/ additional.content]

\* A structural candidate joins the one of the same chunk, or the end of the list.
JoinOne(structural, c) ==
    IF \E k \in DOMAIN structural : structural[k].item = c.item
    THEN [k \in DOMAIN structural |->
            IF structural[k].item = c.item THEN MergeSame(structural[k], c) ELSE structural[k]]
    ELSE Append(structural, c)

\* _prepare_graph_aware_families: <<structural, remaining chunks>>
Families(structured, graph, chunks) ==
    LET own == structured \o graph
        known == {c.item : c \in Range(own)}
        same == {c \in Range(chunks) : c.item \in known}
    IN <<Folded(JoinOne, <<>>, own \o Filtered(chunks, same)),
         Filtered(chunks, Range(chunks) \ same)>>

\* A configuration chunk is left out when structured symbols speak for it.
Shadowed(structural, c) ==
    /\ \E k \in DOMAIN structural : structural[k].kind = "structured_symbol"
    /\ Text[c.item].configuration /\ c.kind = "h3_chunk"

\* _merge_ask_candidates (baseline_v1)
MergeLegacy(families, limit) ==
    LET shown == {c \in Range(families[2]) : ~Shadowed(families[1], c)}
        all == families[1] \o Filtered(families[2], shown)
    IN SubSeq(all, 1, Smaller(limit, Len(all)))

\* The scores of a family, each with its dense rank; a named identifier goes first.
Relevance(c, family) ==
    IF family = "structured" /\ c.item \in Exact THEN 1000 + c.score ELSE c.score
Eligible(structural, seq) ==
    {c \in Range(seq) : ~Shadowed(structural, c) /\ c.content}
Levels(S, family) == {Relevance(c, family) : c \in S}
DenseRank(c, S, family) == Cardinality({l \in Levels(S, family) : l > Relevance(c, family)})
Denominator(S, family) == Larger(1, Cardinality(Levels(S, family)) - 1)

Entries(structural, seq, family) ==
    LET S == Eligible(structural, seq)
    IN {[c |-> c, family |-> family, place |-> DenseRank(c, S, family),
         of |-> Denominator(S, family)] : c \in S}

\* (mutant: the best raw score first, whichever family it comes from)
AheadByScore(x, y) ==
    x.c.score > y.c.score \/ (x.c.score = y.c.score /\ x.c.item < y.c.item)

\* Relative rank first, then the named identifier, chunks before structured, the id.
AheadOf(x, y) ==
    LET rx == x.place * y.of  ry == y.place * x.of
        ex == x.family = "structured" /\ x.c.item \in Exact
        ey == y.family = "structured" /\ y.c.item \in Exact
    IN \/ rx < ry
       \/ rx = ry /\ ex /\ ~ey
       \/ rx = ry /\ ex = ey /\ x.family = "chunks" /\ y.family = "structured"
       \/ rx = ry /\ ex = ey /\ x.family = y.family /\ x.c.item < y.c.item

Ranked(families) ==
    LET entries == Entries(families[1], families[1], "structured")
                   \cup Entries(families[1], families[2], "chunks")
        order == Sorted(entries, {p \in entries \X entries : AheadOf(p[1], p[2])})
    IN [k \in DOMAIN order |-> [order[k].c EXCEPT !.rank = k - 1]]

Repeats(seq, c) ==
    \E k \in DOMAIN seq :
        seq[k].item = c.item \/ Text[seq[k].item].digest = Text[c.item].digest

\* The first candidates that repeat no other, as many as the limit allows.
Unrepeated(cands, limit) ==
    LET Choose(chosen, c) ==
            IF Repeats(chosen, c) \/ Len(chosen) >= limit THEN chosen ELSE Append(chosen, c)
    IN Folded(Choose, <<>>, cands)

\* _select_ask_candidates_relevance_first (optimized_v1)
SelectRelevant(families, limit) == Unrepeated(Ranked(families), limit)

---------------------------------------------------------------------------
(* Sources.  A source shows the lines first..last of its item's text; cut is *)
(* the ellipsis of a truncated text, a token of its own.                     *)

Size(s) == s.last - s.first + 1 + (IF s.cut THEN 1 ELSE 0)
Header(s) == Text[s.c.item].header
Rendered(s) == Header(s) + Size(s)
Tokens(sources) == Sum([k \in DOMAIN sources |-> Rendered(sources[k])])

Whole(c) == [c |-> c, first |-> Text[c.item].first, last |-> Text[c.item].last, cut |-> FALSE]

\* _truncate_to_tokens
Truncate(s, n) ==
    IF Size(s) <= n THEN s ELSE [s EXCEPT !.last = s.first + n - 2, !.cut = TRUE]

None == [none |-> TRUE]

\* _fit_source_to_budget
Fit(s, remaining) ==
    IF Rendered(s) <= remaining THEN s
    ELSE IF remaining <= Header(s) THEN None
    ELSE Truncate(s, remaining - Header(s))

\* _source_for_context_budget
Materialize(c, remaining) == Fit(Truncate(Whole(c), MaxChunkTokens), remaining)

\* ContextBuilder._threshold: the families joined since the search are judged here.
Reaches(c) == c.score >= Threshold

\* ContextBuilder._dedupe
Dedupe(cands) == Unrepeated(cands, Len(cands))

DocumentOrder(c) ==
    <<IF c.kind = "structured_symbol" THEN 0 ELSE 1, Text[c.item].doc,
      IF c.kind = "structured_symbol" THEN -1 ELSE Text[c.item].first, -c.score, c.item>>
RelevanceOrder(c) == <<c.rank, -c.score, c.item>>

\* One pass over candidates: each that fits in what is left of the budget joins.
Fill(sources, cands, budget) ==
    LET Place(filled, c) ==
            LET s == Materialize(c, budget - Tokens(filled.sources)) IN
            IF s = None THEN [filled EXCEPT !.pending = Append(@, c)]
            ELSE [filled EXCEPT !.sources = Append(@, s)]
    IN Folded(Place, [sources |-> sources, pending |-> <<>>], cands)

\* _sources_have_contiguous_ranges: the lines the chunks had when they were made.
Contiguous(l, r) ==
    LET a == Text[l.c.item] b == Text[r.c.item] IN
    /\ a.doc = b.doc /\ a.lines /\ b.lines
    /\ a.first <= b.first /\ b.first <= a.last + 1 /\ a.last <= b.last

\* (mutant: the ellipsis of the left text is ignored)
OverlapOfLines(l, r) ==
    IF /\ Text[l.c.item].stream = Text[r.c.item].stream
       /\ r.first <= Text[l.c.item].last /\ Text[l.c.item].last <= r.last
    THEN Text[l.c.item].last - r.first + 1 ELSE 0

\* How many tokens end the left text and begin the right one.
Overlap(l, r) ==
    IF /\ Text[l.c.item].stream = Text[r.c.item].stream /\ ~l.cut
       /\ l.first <= r.first /\ r.first <= l.last /\ l.last <= r.last
    THEN l.last - r.first + 1 ELSE 0

TrimPair(l, r) ==
    IF Contiguous(l, r) /\ Overlap(l, r) \in 1..(Size(r) - 1)
    THEN [r EXCEPT !.first = @ + Overlap(l, r)]
    ELSE r

\* The m-th source, as the left side of those after it.
Against(seq, m) == [k \in DOMAIN seq |-> IF k > m THEN TrimPair(seq[m], seq[k]) ELSE seq[k]]

\* _trim_exact_contiguous_overlaps: pairs in document order, left text kept.
RangeOrder(s) == <<Text[s.c.item].doc, Text[s.c.item].first, s.c.item>>
TrimOverlaps(sources) ==
    LET n == Len(sources)
        order == SortedBy([k \in 1..n |-> RangeOrder(sources[k])])
        trimmed == Folded(Against, [k \in 1..n |-> sources[order[k]]], [m \in 1..n |-> m])
    IN [j \in 1..n |-> trimmed[CHOOSE k \in 1..n : order[k] = j]]

\* Trim, then try what did not fit again, until nothing more fits.
Tried(before, after) == [filled |-> after, full |-> after.pending = before.pending]
TrimAndRefill(filled, budget) ==
    LET Again(f) == Fill(TrimOverlaps(f.sources), f.pending, budget)
        Round(r, k) == IF r.full THEN r ELSE Tried(r.filled, Again(r.filled))
    IN Folded(Round, [filled |-> filled, full |-> FALSE],
              [k \in 1..Len(filled.pending) + 1 |-> k]).filled

\* ContextBuilder.build: numbered sources, and why each candidate is not one.
Empty == [sources |-> <<>>, omitted |-> {}]
InOrder(deduped, relevant) ==
    SortedBy([c \in Range(deduped) |-> IF relevant THEN RelevanceOrder(c) ELSE DocumentOrder(c)])
FilledFrom(order, budget, relevant) ==
    LET first == Fill(<<>>, Filtered(order, {c \in Range(order) : c.content}), budget)
    IN IF relevant THEN TrimAndRefill(first, budget) ELSE first
Result(cands, reaching, deduped, filled, relevant) ==
    [sources |-> IF relevant
                 THEN SortedBy([s \in Range(filled.sources) |-> DocumentOrder(s.c)])
                 ELSE filled.sources,
     omitted |->
        {<<c.item, "threshold">> : c \in Range(cands) \ reaching}
        \cup {<<c.item, "duplicate">> : c \in reaching \ Range(deduped)}
        \cup {<<c.item, "missing_content">> : c \in {c \in Range(deduped) : ~c.content}}
        \cup {<<c.item, "budget">> : c \in Range(filled.pending)}]
Build(cands, budget, policy) ==
    LET reaching == {c \in Range(cands) : Reaches(c)}
        deduped == Dedupe(Filtered(cands, reaching))
        relevant == policy = "optimized_v1"
    IN Result(cands, reaching, deduped,
              FilledFrom(InOrder(deduped, relevant), budget, relevant), relevant)

---------------------------------------------------------------------------
(* The input budget, the graph fallback and the repair.                     *)

Prompt(context) == PromptTokens + IdTokens * Len(context.sources) + Tokens(context.sources)
RepairPrompt(sources) == RepairTokens + IdTokens * Len(sources) + Tokens(sources)

\* A context that fits its prompt, or what smaller evidence budgets give.
FitOr(context, b, budget, try) ==
    IF Prompt(context) <= budget THEN context
    ELSE IF context.sources = <<>> THEN Empty
    ELSE try[Larger(0, b - (Prompt(context) - budget))]

\* _build_context_for_input_budget: shrink the context until the prompt fits.
BuildForInput(cands, budget, policy) ==
    LET evidence == Larger(0, budget - PromptTokens)
        try[b \in 0..evidence] ==
            IF b = 0 THEN Empty
            ELSE FitOr(Build(cands, b, policy), b, budget, try)
    IN try[evidence]

ItemsOf(context) == {s.c.item : s \in Range(context.sources)}
OfGraph(c) == "graph_expansion" \in c.origins

\* Graph evidence that lost its place to the budget, when none has one.
Waiting(cands, context) ==
    LET graph == {c \in Range(cands) : OfGraph(c)} IN
    IF \E c \in graph : c.item \in ItemsOf(context) THEN {}
    ELSE {c \in graph : <<c.item, "budget">> \in context.omitted /\ c.rank # Unranked}
Replaceable(context) == {s \in Range(context.sources) : s.c.rank # Unranked}

\* The worst source, which gives its place, and the best graph candidate that waits.
BestOf(waiting) ==
    CHOOSE c \in waiting : \A d \in waiting : ~Lower(<<d.rank, d.item>>, <<c.rank, c.item>>)
WorstOf(replaceable) ==
    CHOOSE s \in replaceable :
        \A t \in replaceable : ~Lower(<<s.c.rank, s.c.item>>, <<t.c.rank, t.c.item>>)

\* (What the code checks besides holds of every context that is built for a budget:
\* no repeated text, no source without text, a prompt that fits.)
Covers(alternative, context, best) ==
    /\ best \in ItemsOf(alternative)
    /\ Len(alternative.sources) >= Len(context.sources)

\* _remaining_graph_fallback_omissions: why each candidate is not a source after the swap.
Left(cands, context, alternative, worst) ==
    LET Reason(c) ==
            IF c.item = worst.c.item THEN "budget_fallback"
            ELSE IF \E o \in context.omitted : o[1] = c.item
                 THEN (CHOOSE o \in context.omitted : o[1] = c.item)[2]
                 ELSE "budget"
    IN {<<c.item, Reason(c)>> : c \in {c \in Range(cands) : c.item \notin ItemsOf(alternative)}}

\* The swap, kept when the rebuilt context shows the graph source and costs no other.
Better(cands, context, alternative, best, worst) ==
    IF Covers(alternative, context, best.item)
    THEN [alternative EXCEPT !.omitted = Left(cands, context, alternative, worst)]
    ELSE context
Exchanged(cands, context, best, worst, budget, policy) ==
    LET swapped == [k \in DOMAIN context.sources |->
                        IF context.sources[k] = worst THEN best ELSE context.sources[k].c]
    IN Better(cands, context, BuildForInput(swapped, budget, policy), best, worst)

\* _apply_graph_budget_fallback
Fallback(cands, context, budget, policy) ==
    IF Waiting(cands, context) = {} \/ Replaceable(context) = {} THEN context
    ELSE Exchanged(cands, context, BestOf(Waiting(cands, context)),
                   WorstOf(Replaceable(context)), budget, policy)

\* _fit_same_sources_to_content_budget: one token each, then in proportion.
SharesOf(capacity, total, remaining) ==
    LET n == Len(capacity)
        Extra(k) == IF total = 0 THEN 0
                    ELSE Smaller(capacity[k], (remaining * capacity[k]) \div total)
        left == remaining - Sum([k \in 1..n |-> Extra(k)])
        Before(j, k) == Lower(<<-((remaining * capacity[j]) % total), j>>,
                              <<-((remaining * capacity[k]) % total), k>>)
        open == {k \in 1..n : Extra(k) < capacity[k]}
        Topped(k) == k \in open /\ Cardinality({j \in open : Before(j, k)}) < left
    IN [k \in 1..n |-> 1 + Extra(k) + (IF Topped(k) THEN 1 ELSE 0)]
Shares(sources, budget) ==
    LET capacity == [k \in DOMAIN sources |-> Size(sources[k]) - 1]
    IN SharesOf(capacity, Sum(capacity), budget - Len(capacity))

ContentTokens(sources) == Sum([k \in DOMAIN sources |-> Size(sources[k])])

\* _build_repair_context_for_input_budget: the same sources, shorter, or nothing.
Shrunk(sources, t) ==
    LET shares == Shares(sources, t) IN
    IF t = ContentTokens(sources) THEN sources
    ELSE [k \in DOMAIN sources |-> Truncate(sources[k], shares[k])]
FitRepair(sources, budget) ==
    LET all == ContentTokens(sources)
        try[t \in 0..all] ==
            LET shrunk == Shrunk(sources, t)
                over == RepairPrompt(shrunk) - budget
            IN IF t # all /\ t < Len(sources) THEN <<>>
               ELSE IF over <= 0 THEN shrunk ELSE IF over > t THEN <<>> ELSE try[t - over]
    IN try[all]
=============================================================================
