--------------------------- MODULE DependencyWalk ---------------------------
(***************************************************************************)
(* `barbarion describe` and `barbarion impact`: an object is resolved to a  *)
(* symbol and DependencyWalkService.walk explores the relations around it   *)
(* breadth first, up to a depth and a number of nodes                       *)
(* (application/reverse_engineering.py).  describe walks twice, outgoing    *)
(* and incoming; impact walks once, in the direction asked for.             *)
(***************************************************************************)
EXTENDS TechnicalGraph

CONSTANTS
    Named,          \* [names -> SUBSET Symbols] symbols that answer to a name
    WalkDepths,     \* values of --depth tried
    NodeLimits,     \* values of --node-limit tried
    DefaultLimit    \* DependencyWalkService.walk's node_limit (500)

ASSUME WalkData ==
    /\ \A n \in DOMAIN Named : Named[n] \subseteq Symbols /\ IsFiniteSet(Named[n])
    /\ WalkDepths \subseteq Nat /\ NodeLimits \subseteq Nat
    /\ DefaultLimit \in Nat \ {0}

\* DescribeRequest, ImpactRequest.  A target is a symbol id or a name.
Query ==
    [tool : {"describe"}, target : Symbols \cup DOMAIN Named, direction : {"both"},
     depth : WalkDepths, limit : {DefaultLimit}, resolvedOnly : {FALSE}]
    \cup
    [tool : {"impact"}, target : Symbols \cup DOMAIN Named, direction : Directions,
     depth : WalkDepths, limit : NodeLimits, resolvedOnly : BOOLEAN]

\* _validate_dependency_limits
ValidLimits(q) == q.depth \in 0..5 /\ q.limit > 0

VARIABLES
    query,          \* the request
    walkPhase,      \* idle, resolved, walking, expanding, answered, not_found, ambiguous, rejected
    walks,          \* directions still to walk, the current one first
    seed,           \* the symbol resolved
    nodes,          \* [symbols reached -> depth]
    edges,          \* relations read, each with the row and the symbol it was read from
    cycles,         \* paths that came back to a symbol of their own
    limitReached,
    queue,          \* Seq of [symbol, path]; the depth is the path's length - 1
    adjacent,       \* [RelationIds read for the head of the queue -> row]
    finished        \* Seq of finished walks

walk == <<seed, nodes, edges, cycles, limitReached, queue, adjacent>>
walkVars == <<query, walkPhase, walks, seed, nodes, edges, cycles, limitReached, queue,
              adjacent, finished>>

NoRows == [i \in {} |-> Gone]
Ended == {"answered", "not_found", "ambiguous", "rejected"}

NoWalk ==
    /\ walks = IF query.tool = "describe" THEN <<"outgoing", "incoming">>
               ELSE <<query.direction>>
    /\ seed = NoSymbol
    /\ nodes = [s \in {} |-> 0]
    /\ edges = {} /\ cycles = {}
    /\ limitReached = FALSE
    /\ queue = <<>> /\ adjacent = NoRows
    /\ finished = <<>>

WalkInit == query \in Query /\ walkPhase = "idle" /\ NoWalk

\* _resolve_object: an id, or the only active symbol of that name.
Candidates(target) ==
    (IF target \in Symbols THEN {target} ELSE Named[target]) \cap live

ResolveObject ==
    /\ walkPhase = "idle"
    /\ LET found == Candidates(query.target) IN
        /\ walkPhase' = CASE found = {} -> "not_found"
                          [] Cardinality(found) > 1 -> "ambiguous"
                          [] OTHER -> "resolved"
        /\ seed' = IF Cardinality(found) = 1 THEN CHOOSE s \in found : TRUE ELSE NoSymbol
    /\ UNCHANGED <<graph, query, walks, nodes, edges, cycles, limitReached, queue, adjacent,
                   finished>>

\* walk's ValueError: limits out of range, or a symbol retired since it was resolved.
RejectWalk ==
    /\ walkPhase = "resolved"
    /\ ValidLimits(query) => seed \notin live
    /\ walkPhase' = "rejected"
    /\ UNCHANGED <<graph, query, walks, walk, finished>>

StartWalk ==
    /\ walkPhase = "resolved" /\ ValidLimits(query) /\ seed \in live
    /\ walkPhase' = "walking"
    /\ nodes' = [s \in {seed} |-> 0]
    /\ edges' = {} /\ cycles' = {}
    /\ limitReached' = FALSE
    /\ queue' = <<[symbol |-> seed, path |-> <<seed>>]>>
    /\ UNCHANGED <<graph, query, walks, seed, adjacent, finished>>

\* (mutant: off by one)
DepthPlusOne(item) == Len(item.path)

Depth(item) == Len(item.path) - 1

\* The head of the queue lies at the maximum depth: it is not expanded.
SkipDeepest ==
    /\ walkPhase = "walking" /\ queue # <<>> /\ Depth(Head(queue)) >= query.depth
    /\ queue' = Tail(queue)
    /\ UNCHANGED <<graph, query, walkPhase, walks, seed, nodes, edges, cycles, limitReached,
                   adjacent, finished>>

\* _filter_relations
Passes(r) == query.resolvedOnly => r.resolved

\* The relations of the head are read in one query and filtered.
ReadAdjacent ==
    /\ walkPhase = "walking" /\ queue # <<>> /\ Depth(Head(queue)) < query.depth
    /\ LET near == {i \in Adjacent(Head(queue).symbol, walks[1]) : Passes(relations[i])} IN
        adjacent' = [i \in near |-> relations[i]]
    /\ walkPhase' = "expanding"
    /\ UNCHANGED <<graph, query, walks, seed, nodes, edges, cycles, limitReached, queue,
                   finished>>

OnPath(s, item) == \E k \in DOMAIN item.path : item.path[k] = s

\* (mutant: a symbol already reached is entered again, farther away)
EntersAgain(next, item) ==
    next \in live /\ ~OnPath(next, item) /\ Cardinality(DOMAIN nodes) < query.limit

\* A relation gives a node unless its end is missing, known, on the path or too many.
Enters(next, item) ==
    /\ next \in live
    /\ ~OnPath(next, item)
    /\ next \notin DOMAIN nodes
    /\ Cardinality(DOMAIN nodes) < query.limit

Overflows(next, item) ==
    /\ next \in live
    /\ ~OnPath(next, item)
    /\ next \notin DOMAIN nodes
    /\ Cardinality(DOMAIN nodes) >= query.limit

\* One turn of the inner loop: the next relation of the head, in query order.
HandleRelation ==
    /\ walkPhase = "expanding" /\ DOMAIN adjacent # {}
    /\ LET item == Head(queue)
           i == CHOOSE j \in DOMAIN adjacent : \A k \in DOMAIN adjacent : j <= k
           r == adjacent[i]
           next == OtherEnd(item.symbol, r)
           closes == next \in live /\ OnPath(next, item)
       IN
        /\ edges' = edges \cup {[id |-> i, row |-> r, from |-> item.symbol,
                                 depth |-> Depth(item) + 1, cycle |-> closes]}
        /\ cycles' = IF closes THEN cycles \cup {Append(item.path, next)} ELSE cycles
        /\ nodes' = IF Enters(next, item)
                    THEN [s \in DOMAIN nodes \cup {next} |->
                            IF s = next THEN Depth(item) + 1 ELSE nodes[s]]
                    ELSE nodes
        /\ queue' = IF Enters(next, item)
                    THEN Append(queue, [symbol |-> next, path |-> Append(item.path, next)])
                    ELSE queue
        /\ limitReached' = (limitReached \/ Overflows(next, item))
        /\ adjacent' = [j \in DOMAIN adjacent \ {i} |-> adjacent[j]]
    /\ UNCHANGED <<graph, query, walkPhase, walks, seed, finished>>

\* (mutant: a node expanded stays at the head)
NextNodeKeeps ==
    /\ walkPhase = "expanding" /\ DOMAIN adjacent = {}
    /\ walkPhase' = "walking"
    /\ UNCHANGED <<graph, query, walks, seed, nodes, edges, cycles, limitReached, queue,
                   adjacent, finished>>

NextNode ==
    /\ walkPhase = "expanding" /\ DOMAIN adjacent = {}
    /\ queue' = Tail(queue)
    /\ walkPhase' = "walking"
    /\ UNCHANGED <<graph, query, walks, seed, nodes, edges, cycles, limitReached, adjacent,
                   finished>>

\* The queue is empty: the DependencyWalk is returned, and describe walks again.
FinishWalk ==
    /\ walkPhase = "walking" /\ queue = <<>>
    /\ finished' = Append(finished, [direction |-> walks[1], nodes |-> nodes, edges |-> edges,
                                     cycles |-> cycles, limitReached |-> limitReached])
    /\ walks' = Tail(walks)
    /\ walkPhase' = IF Tail(walks) = <<>> THEN "answered" ELSE "resolved"
    /\ UNCHANGED <<graph, query, walk>>

WalkStep ==
    \/ ResolveObject \/ RejectWalk \/ StartWalk \/ SkipDeepest \/ ReadAdjacent
    \/ HandleRelation \/ NextNode \/ FinishWalk

\* Other processes matter only while the command runs.
WalkDisturbed == walkPhase \notin Ended /\ OtherProcess /\ UNCHANGED walkVars

WalkNext == WalkStep \/ WalkDisturbed
WalkSpec == GraphInit /\ WalkInit /\ [][WalkNext]_<<graph, walkVars>>

(* What describe and impact say of their walks. *)
Found(kind) == UNION {finished[k][kind] : k \in DOMAIN finished}
Inwards(e) == e.row.target = e.from /\ e.row.source # e.from
Consumers == {e \in Found("edges") : Inwards(e)}
ToConfirm == {e \in Found("edges") : ~e.row.resolved}
Truncated == \E k \in DOMAIN finished : finished[k].limitReached

\* _impact_risks, _walk_limitations
Risks ==
    {"consumers" : e \in Consumers} \cup {"to_confirm" : e \in ToConfirm}
    \cup {"cycles" : c \in Found("cycles")}
    \cup (IF Truncated THEN {"truncated"} ELSE {})

---------------------------------------------------------------------------
(* Correctness.  With edits = 0 the graph stood still during the command.   *)

\* Symbols one step away from s.
Neighbours(s, direction) ==
    {OtherEnd(s, relations[i]) : i \in {j \in Adjacent(s, direction) : Passes(relations[j])}}
        \cap live

\* Ball(direction)[n]: the symbols within n steps of the seed.
Ball(direction) ==
    LET ball[n \in 0..5] ==
            IF n = 0 THEN {seed}
            ELSE ball[n - 1] \cup UNION {Neighbours(s, direction) : s \in ball[n - 1]}
    IN ball

WalkTypeOK ==
    /\ GraphTypeOK
    /\ query \in Query
    /\ walkPhase \in Ended \cup {"idle", "resolved", "walking", "expanding"}
    /\ seed \in SymbolOrNull
    /\ DOMAIN nodes \subseteq Symbols /\ \A s \in DOMAIN nodes : nodes[s] \in Nat
    /\ limitReached \in BOOLEAN
    /\ DOMAIN adjacent \subseteq RelationIds

\* A walk that says nothing of a limit holds every symbol within the depth asked
\* for, each at its true distance: a symbol is entered when it is first seen, and
\* the queue must hand the symbols out nearest first.
UncutWalkIsWhole ==
    edits = 0 =>
        \A k \in DOMAIN finished :
            LET w == finished[k] ball == Ball(w.direction) IN
                ~w.limitReached =>
                    /\ DOMAIN w.nodes = ball[query.depth]
                    /\ \A s \in DOMAIN w.nodes :
                        \A n \in 0..5 : s \in ball[n] <=> w.nodes[s] <= n

\* The answer warns of truncation exactly when a symbol within the depth is
\* missing from a walk, and no walk exceeds its limit.
TruncationIsReported ==
    edits = 0 /\ walkPhase = "answered" =>
        /\ \A k \in DOMAIN finished : Cardinality(DOMAIN finished[k].nodes) <= query.limit
        /\ "truncated" \in Risks <=>
            \E k \in DOMAIN finished :
                Ball(finished[k].direction)[query.depth] \ DOMAIN finished[k].nodes # {}

\* describe and impact show everything within the depth asked for, or say that they
\* do not.
WalkIsComplete == UncutWalkIsWhole /\ TruncationIsReported

\* Whatever other processes commit meanwhile, each symbol of a walk was reached
\* through a relation that is shown with it, from a symbol one step nearer.
NodesWereReached ==
    \A s \in DOMAIN nodes \ {seed} :
        \E e \in edges :
            /\ OtherEnd(e.from, e.row) = s
            /\ e.depth = nodes[s]
            /\ e.from \in DOMAIN nodes /\ nodes[e.from] + 1 = nodes[s]

\* Every step of a path reported as a cycle is a relation of the walk.
CyclesWereWalked ==
    \A c \in cycles : \A k \in 1..(Len(c) - 1) :
        \E e \in edges : e.from = c[k] /\ OtherEnd(e.from, e.row) = c[k + 1]

\* Symbols and cycles of an answer follow from the relations shown with them, although
\* each was read at an instant of its own.
WalkWasSeen == WalkTypeOK /\ NodesWereReached /\ CyclesWereWalked

\* Every command ends: no cycle keeps the walk going.
QueryEnds == <>(walkPhase \in Ended)
=============================================================================
