--------------------------- MODULE GraphExpansion ---------------------------
(***************************************************************************)
(* Graph-aware retrieval: the candidates of a search give seeds, seeds are  *)
(* expanded over the resolved relations of the domain, and the symbols      *)
(* reached become evidence when a current chunk shows them                  *)
(* (GraphAwareEvidenceRetriever, GraphExpansionService and                  *)
(* GraphEvidenceResolver, application/rag.py).                              *)
(***************************************************************************)
EXTENDS TechnicalGraph

CONSTANTS
    Chunks,         \* chunk ids
    NoChunk,        \* NULL
    ChunkOf,        \* [Symbols -> Chunks \cup {NoChunk}]
    EvidenceOf,     \* [RelationIds -> Chunks \cup {NoChunk}] evidence_chunk_id
    Mentions,       \* relations whose evidence chunk contains the text of their reference
    Retrieved,      \* searches tried: sequences of the symbols of each candidate, best first
    MaxDepth, MaxSeeds, MaxNeighbors, MaxCandidates     \* GraphExpansionLimits

ASSUME ExpansionData ==
    /\ ChunkOf \in [Symbols -> Chunks \cup {NoChunk}]
    /\ EvidenceOf \in [RelationIds -> Chunks \cup {NoChunk}]
    /\ Mentions \subseteq RelationIds
    /\ Retrieved \subseteq Seq(SUBSET Symbols)
    /\ {MaxDepth, MaxSeeds, MaxNeighbors, MaxCandidates} \subseteq Nat \ {0}

VARIABLES
    current,        \* chunks of processed documents
    stored,         \* chunks with a row
    candidates,     \* the search's candidates that have not given their seeds yet
    phase,          \* seeding, expanding, reading, resolving, done
    seeds,          \* Seq of symbols
    seedNo,         \* the seed being expanded
    paths,          \* queue of paths: [nodes, rels], both Seq
    rows,           \* [RelationIds read for the head path -> row]
    neighborsSeen,
    accepted,       \* symbols accepted from any seed
    full,           \* candidate_limit_reached
    traces,         \* GraphCandidateTraces
    unresolved,     \* symbols of the traces still to resolve to a chunk
    checked,        \* the chunk that active_chunk_exists has just confirmed
    evidence        \* [symbols resolved -> chunk]

search == <<candidates, seeds>>
expansion == <<seedNo, paths, rows, neighborsSeen, accepted, full, traces>>
resolution == <<unresolved, checked, evidence>>
expandVars == <<current, stored, candidates, phase, seeds, seedNo, paths, rows,
                neighborsSeen, accepted, full, traces, unresolved, checked, evidence>>

NoExpansion ==
    /\ seeds = <<>> /\ seedNo = 1
    /\ paths = <<>> /\ rows = [i \in {} |-> Gone]
    /\ neighborsSeen = 0 /\ accepted = {} /\ full = FALSE
    /\ traces = {}
    /\ unresolved = {} /\ checked = <<>>
    /\ evidence = [s \in {} |-> NoChunk]

ExpandInit ==
    /\ current \in SUBSET Chunks
    /\ stored = Chunks
    /\ candidates \in Retrieved
    /\ phase = "seeding"
    /\ NoExpansion

Elements(seq) == {seq[k] : k \in DOMAIN seq}

\* _graph_seeds_from_candidates: the active symbols of one candidate that are not
\* seeds yet; among equals the order is that of a digest.
SeedCandidate ==
    /\ phase = "seeding" /\ candidates # <<>>
    /\ LET new == (Head(candidates) \cap live) \ Elements(seeds)
           orders == {o \in [1..Cardinality(new) -> new] : Elements(o) = new}
       IN \E o \in orders : seeds' = seeds \o o
    /\ candidates' = Tail(candidates)
    /\ UNCHANGED <<graph, current, stored, phase, expansion, resolution>>

SeedsFound ==
    /\ phase = "seeding" /\ candidates = <<>>
    /\ phase' = "seed"
    /\ UNCHANGED <<graph, current, stored, search, expansion, resolution>>

Trace(path, symbol, status) ==
    [seed |-> seeds[seedNo], path |-> path, symbol |-> symbol, status |-> status]

Root(s) == [nodes |-> <<s>>, rels |-> <<>>]
\* (mutant: counts the root)
PathDepthOfNodes(path) == Len(path.nodes)

PathDepth(path) == Len(path.rels)

\* The next seed: beyond the limit, retired since, or the root of a new search.
NextSeed ==
    /\ phase = "seed" /\ seedNo <= Len(seeds)
    /\ LET s == seeds[seedNo] IN
        IF seedNo > MaxSeeds \/ s \notin live
        THEN /\ traces' = traces \cup {Trace(Root(s), s,
                            IF seedNo > MaxSeeds THEN "limit" ELSE "unresolved_source")}
             /\ seedNo' = seedNo + 1
             /\ UNCHANGED <<phase, paths, neighborsSeen>>
        ELSE /\ paths' = <<Root(s)>>
             /\ neighborsSeen' = 0
             /\ phase' = "expanding"
             /\ UNCHANGED <<traces, seedNo>>
    /\ UNCHANGED <<graph, current, stored, search, rows, accepted, full, resolution>>

\* query_graph_relations: resolved relations with both ends in the domain.
InScope(r) ==
    /\ r.resolved
    /\ {r.source, r.target} \ {NoSymbol} \subseteq InDomain

\* The head path is dropped at the depth limit; otherwise its relations are read.
ExpandPath ==
    /\ phase = "expanding" /\ paths # <<>> /\ ~full
    /\ IF PathDepth(Head(paths)) >= MaxDepth
       THEN /\ paths' = Tail(paths)
            /\ UNCHANGED <<rows, phase>>
       ELSE LET path == Head(paths)
                s == path.nodes[Len(path.nodes)]
                near == IF s \in InDomain
                        THEN {i \in Adjacent(s, "outgoing") : InScope(relations[i])}
                        ELSE {}
            IN /\ rows' = [i \in near |-> relations[i]]
               /\ phase' = "reading"
               /\ UNCHANGED paths
    /\ UNCHANGED <<graph, current, stored, search, seedNo, neighborsSeen, accepted, full,
                   traces, resolution>>

\* (mutant: a path may come back to its own symbols)
StatusOfLoop(next, path) ==
    CASE next \notin live -> "unresolved_source"
      [] next \in live /\ next \in accepted \ Elements(path.nodes) -> "duplicate"
      [] OTHER -> IF Cardinality(accepted) >= MaxCandidates THEN "limit" ELSE "accepted"

\* What becomes of a symbol that a relation leads to (NoSymbol is never on a path).
StatusOf(next, path) ==
    LET onPath == next \in Elements(path.nodes) IN
    CASE onPath -> "cycle"
      [] ~onPath /\ next \notin live -> "unresolved_source"
      [] ~onPath /\ next \in live /\ next \in accepted -> "duplicate"
      [] OTHER -> IF Cardinality(accepted) >= MaxCandidates THEN "limit" ELSE "accepted"

\* One turn of the loop over the head path's relations.  A limit leaves the loop.
FollowRelation ==
    /\ phase = "reading" /\ DOMAIN rows # {} /\ neighborsSeen < MaxNeighbors
    /\ LET path == Head(paths)
           i == CHOOSE j \in DOMAIN rows : \A k \in DOMAIN rows : j <= k
           s == path.nodes[Len(path.nodes)]
           next == OtherEnd(s, rows[i])
           status == StatusOf(next, path)
           longer == [nodes |-> Append(path.nodes, next), rels |-> Append(path.rels, i)]
       IN
        /\ neighborsSeen' = neighborsSeen + 1
        /\ traces' = traces \cup {Trace(longer, next, status)}
        /\ accepted' = IF status = "accepted" THEN accepted \cup {next} ELSE accepted
        /\ full' = (status = "limit")
        /\ paths' = IF status = "accepted" THEN Append(paths, longer) ELSE paths
        /\ rows' = [j \in (IF full' THEN {} ELSE DOMAIN rows \ {i}) |-> rows[j]]
    /\ UNCHANGED <<graph, current, stored, search, phase, seedNo, resolution>>

NeighborLimit ==
    /\ phase = "reading" /\ DOMAIN rows # {} /\ neighborsSeen >= MaxNeighbors
    /\ LET i == CHOOSE j \in DOMAIN rows : \A k \in DOMAIN rows : j <= k
           path == Head(paths)
       IN traces' = traces \cup
            {Trace([path EXCEPT !.rels = Append(@, i)], rows[i].target, "limit")}
    /\ rows' = [i \in {} |-> Gone]
    /\ UNCHANGED <<graph, current, stored, search, phase, seedNo, paths, neighborsSeen,
                   accepted, full, resolution>>

PathDone ==
    /\ phase = "reading" /\ DOMAIN rows = {}
    /\ paths' = Tail(paths)
    /\ phase' = "expanding"
    /\ UNCHANGED <<graph, current, stored, search, seedNo, rows, neighborsSeen, accepted,
                   full, traces, resolution>>

SeedDone ==
    /\ phase = "expanding" /\ (paths = <<>> \/ full)
    /\ seedNo' = seedNo + 1
    /\ phase' = "seed"
    /\ UNCHANGED <<graph, current, stored, search, paths, rows, neighborsSeen, accepted,
                   full, traces, resolution>>

\* GraphEvidenceResolver.resolve: the symbols accepted, in some order.
Reached == {t \in traces : t.status \in {"accepted", "duplicate"}}
StartResolving ==
    /\ phase = "seed" /\ seedNo > Len(seeds)
    /\ phase' = "resolving"
    /\ unresolved' = {t.symbol : t \in Reached}
    /\ UNCHANGED <<graph, current, stored, search, expansion, checked, evidence>>

RelationsTo(s) == UNION {Elements(t.path.rels) : t \in {t \in Reached : t.symbol = s}}

\* The chunks that may show s: its own, and otherwise the evidence of a relation
\* that led to it, if the reference is found in its text.
Own(s) == {ChunkOf[s]} \ {NoChunk}
Shown(s) == {EvidenceOf[i] : i \in RelationsTo(s) \cap Mentions} \ {NoChunk}

\* (mutant: the symbol's own chunk is taken without asking whether it is current)
CitableAnyway(s) == IF Own(s) # {} THEN Own(s) ELSE Shown(s) \cap current

Citable(s) == IF Own(s) \cap current # {} THEN Own(s) ELSE Shown(s) \cap current

\* active_chunk_exists confirms a chunk, or no chunk shows the symbol.
ResolveSymbol ==
    /\ phase = "resolving" /\ unresolved # {} /\ checked = <<>>
    /\ \E s \in unresolved :
        IF s \in live /\ Citable(s) # {}
        THEN /\ \E c \in Citable(s) : checked' = <<s, c>>
             /\ UNCHANGED unresolved
        ELSE /\ unresolved' = unresolved \ {s}
             /\ UNCHANGED checked
    /\ UNCHANGED <<graph, current, stored, search, phase, expansion, evidence>>

\* enrich_candidates reads its text with a query of its own, which does not ask
\* again whether the document is current; without a row the next chunk is tried.
EnrichSymbol ==
    /\ phase = "resolving" /\ checked # <<>>
    /\ LET s == checked[1] c == checked[2] IN
        IF c \in stored
        THEN /\ evidence' = [t \in DOMAIN evidence \cup {s} |->
                                IF t = s THEN c ELSE evidence[t]]
             /\ unresolved' = unresolved \ {s}
        ELSE UNCHANGED <<evidence, unresolved>>
    /\ checked' = <<>>
    /\ UNCHANGED <<graph, current, stored, search, phase, expansion>>

Retrieve ==
    /\ phase = "resolving" /\ unresolved = {}
    /\ phase' = "done"
    /\ UNCHANGED <<graph, current, stored, search, expansion, resolution>>

\* Ingestion withdraws or replaces the document of a chunk.
Withdraw ==
    /\ Edit
    /\ \E c \in current :
        /\ current' = current \ {c}
        /\ stored' \in {stored, stored \ {c}}
    /\ UNCHANGED <<live, relations, phase, search, expansion, resolution>>

ExpandStep ==
    \/ SeedCandidate \/ SeedsFound \/ NextSeed \/ ExpandPath \/ FollowRelation
    \/ NeighborLimit \/ PathDone \/ SeedDone \/ StartResolving \/ ResolveSymbol
    \/ EnrichSymbol \/ Retrieve

ExpandDisturbed ==
    /\ phase # "done"
    /\ \/ OtherProcess /\ UNCHANGED expandVars
       \/ Withdraw

ExpandNext == ExpandStep \/ ExpandDisturbed
ExpandSpec == GraphInit /\ ExpandInit /\ [][ExpandNext]_<<graph, expandVars>>

---------------------------------------------------------------------------
ExpandTypeOK ==
    /\ current \subseteq Chunks /\ stored \subseteq Chunks
    /\ phase \in {"seeding", "seed", "expanding", "reading", "resolving", "done"}
    /\ Elements(seeds) \subseteq Symbols
    /\ seedNo \in 1..(Len(seeds) + 1)
    /\ accepted \subseteq Symbols
    /\ full \in BOOLEAN
    /\ DOMAIN rows \subseteq RelationIds
    /\ unresolved \subseteq Symbols
    /\ DOMAIN evidence \subseteq Symbols

\* Symbols within n relations in scope of s.
Forward(s) ==
    LET ball[n \in 0..MaxDepth] ==
            IF n = 0 THEN {s}
            ELSE ball[n - 1] \cup
                 ({relations[i].target : i \in {i \in RelationIds :
                        relations[i].source \in ball[n - 1] \cap InDomain /\ InScope(relations[i])}}
                  \cap live)
    IN ball[MaxDepth]

\* The best seed is explored whole unless a limit trace says otherwise.  (Seeds
\* after it share its accepted symbols and are cut where they meet them.)
BestSeedIsComplete ==
    edits = 0 /\ phase = "done" /\ (\A t \in traces : t.status # "limit") =>
        \A k \in {1} \cap DOMAIN seeds : Forward(seeds[k]) \ {seeds[k]} \subseteq accepted

\* However the graph changes meanwhile, every path that was followed starts at one
\* of the first seeds, grows one relation at a time from a path accepted before,
\* visits no symbol twice, and the limits on symbols and depth hold.
PathsGrow ==
    /\ Cardinality(accepted) <= MaxCandidates
    /\ \A t \in Reached :
        /\ PathDepth(t.path) \in 1..MaxDepth
        /\ \E k \in DOMAIN seeds : k <= MaxSeeds /\ seeds[k] = t.path.nodes[1]
        /\ Cardinality(Elements(t.path.nodes)) = Len(t.path.nodes)
        /\ PathDepth(t.path) > 1 =>
            \E u \in Reached :
                /\ u.status = "accepted" /\ u.seed = t.seed
                /\ u.path.nodes = SubSeq(t.path.nodes, 1, Len(t.path.nodes) - 1)
                /\ u.path.rels = SubSeq(t.path.rels, 1, Len(t.path.rels) - 1)

PathsWereFollowed == ExpandTypeOK /\ PathsGrow

\* With the tables still, the evidence is exactly one current chunk for each symbol
\* accepted that some current chunk shows.
EvidenceIsCitable ==
    edits = 0 /\ phase = "done" =>
        /\ DOMAIN evidence = {s \in accepted : Citable(s) # {}}
        /\ \A s \in DOMAIN evidence : evidence[s] \in current

RetrievalEnds == <>(phase = "done")
=============================================================================
