----------------------------- MODULE GraphProofs -----------------------------
(***************************************************************************)
(* What a walk and an expansion of the technical graph show follows from    *)
(* the relations they read, and is whole unless they say otherwise, for any  *)
(* graph, limits and number of commits of other processes meanwhile.        *)
(***************************************************************************)
EXTENDS DependencyWalk, GraphExpansion, FunctionTheorems, FiniteSetTheorems, SequenceTheorems, WellFoundedInduction, TLAPS

Item == [symbol : Symbols, path : Seq(Symbols)]

\* Every step of a path is one of the relations E.
Walked(path, E) ==
    \A k \in 1..(Len(path) - 1) :
        \E e \in E : e.from = path[k] /\ OtherEnd(e.from, e.row) = path[k + 1]

\* What waits in the queue was entered, with a depth in D, at that of its path.
GoodItem(item, D, E) ==
    /\ item \in Item
    /\ item.path # <<>> /\ item.path[Len(item.path)] = item.symbol
    /\ item.symbol \in DOMAIN D /\ D[item.symbol] = Len(item.path) - 1
    /\ Walked(item.path, E)

WalkInv ==
    /\ WalkTypeOK
    /\ walkPhase = "idle" => DOMAIN nodes = {}
    /\ walkPhase \in {"resolved", "walking", "expanding"} => seed \in Symbols
    /\ queue \in Seq(Item) /\ (walkPhase = "expanding" => queue # <<>>)
    /\ \A k \in 1..Len(queue) : GoodItem(queue[k], nodes, edges)
    /\ NodesWereReached
    /\ \A c \in cycles : c \in Seq(Symbols) /\ Walked(c, edges)

LEMMA GraphMoves == ASSUME GraphTypeOK, OtherProcess PROVE GraphTypeOK'
<1>1. edits' \in 0..MaxEdits
  <2>1. Edit
    BY DEF OtherProcess, UpsertRelation, StaleSymbol, DropSymbol
  <2> QED
    BY <2>1, GraphData DEF GraphTypeOK, Edit
<1>2. live' \subseteq Symbols
  BY DEF GraphTypeOK, OtherProcess, UpsertRelation, StaleSymbol, DropSymbol
<1>3. relations' \in [RelationIds -> Relation]
  <2>1. CASE UpsertRelation
    BY <2>1, GraphData DEF GraphTypeOK, UpsertRelation
  <2>2. CASE StaleSymbol
    BY <2>2 DEF GraphTypeOK, StaleSymbol
  <2>3. CASE DropSymbol
    <3>1. PICK s \in live : relations' = [i \in RelationIds |->
                [relations[i] EXCEPT !.source = IF @ = s THEN NoSymbol ELSE @,
                                     !.target = IF @ = s THEN NoSymbol ELSE @]]
      BY <2>3 DEF DropSymbol
    <3>2. ASSUME NEW r \in Relation
          PROVE  [r EXCEPT !.source = IF @ = s THEN NoSymbol ELSE @,
                           !.target = IF @ = s THEN NoSymbol ELSE @] \in Relation
      BY DEF Relation, SymbolOrNull
    <3> QED
      BY <3>1, <3>2 DEF GraphTypeOK
  <2> QED
    BY <2>1, <2>2, <2>3 DEF OtherProcess
<1> QED
  BY <1>1, <1>2, <1>3 DEF GraphTypeOK

\* The walk holds copies of what it read: what changes in the tables changes nothing in it.
LEMMA DisturbedKeeps == ASSUME WalkInv, GraphTypeOK', UNCHANGED walkVars PROVE WalkInv'
<1>1. WalkTypeOK'
  BY DEF WalkInv, WalkTypeOK, walkVars
<1>2. NodesWereReached'
  BY DEF WalkInv, NodesWereReached, walkVars, OtherEnd
<1> QED
  BY <1>1, <1>2 DEF WalkInv, walkVars

\* Steps that leave nodes, edges and cycles alone, and at most drop the head of the queue.
LEMMA PhaseStep ==
    ASSUME WalkInv, UNCHANGED <<graph, query, nodes, edges, cycles, limitReached>>,
           walkPhase' \in Ended \cup {"resolved", "walking", "expanding"},
           seed' = seed \/ DOMAIN nodes = {},
           seed' \in SymbolOrNull,
           walkPhase' \in {"resolved", "walking", "expanding"} => seed' \in Symbols,
           queue' = queue \/ (queue # <<>> /\ queue' = Tail(queue)),
           walkPhase' = "expanding" => queue' # <<>>,
           DOMAIN adjacent' \subseteq RelationIds
    PROVE  WalkInv'
<1>1. WalkTypeOK'
  BY DEF WalkInv, WalkTypeOK, GraphTypeOK, graph
<1>2. NodesWereReached'
  BY DEF WalkInv, NodesWereReached, OtherEnd
<1>5. queue' \in Seq(Item) /\ \A k \in 1..Len(queue') : GoodItem(queue'[k], nodes, edges)
  <2>1. CASE queue' = queue
    BY <2>1 DEF WalkInv
  <2>2. CASE queue # <<>> /\ queue' = Tail(queue)
    <3>1. queue' \in Seq(Item) /\ Len(queue') = Len(queue) - 1 /\ Len(queue) \in Nat
          /\ \A k \in 1..Len(queue') : queue'[k] = queue[k + 1]
      BY <2>2, HeadTailProperties DEF WalkInv
    <3>2. \A k \in 1..Len(queue') : k + 1 \in 1..Len(queue)
      BY <3>1
    <3> QED
      BY <3>1, <3>2 DEF WalkInv
  <2> QED
    BY <2>1, <2>2
<1>6. walkPhase' # "idle"
  BY DEF Ended
<1> QED
  BY <1>1, <1>2, <1>5, <1>6 DEF WalkInv

LEMMA PlainKeeps ==
    ASSUME WalkInv,
           ResolveObject \/ RejectWalk \/ SkipDeepest \/ ReadAdjacent \/ NextNode \/ FinishWalk
    PROVE  WalkInv'
<1>1. UNCHANGED <<graph, query, nodes, edges, cycles, limitReached>>
  BY DEF ResolveObject, RejectWalk, SkipDeepest, ReadAdjacent, NextNode, FinishWalk, walk
<1>2. walkPhase' \in Ended \cup {"resolved", "walking", "expanding"}
  BY DEF ResolveObject, RejectWalk, SkipDeepest, ReadAdjacent, NextNode, FinishWalk, Ended
<1>3. DOMAIN adjacent' \subseteq RelationIds
  <2>1. CASE ReadAdjacent
    BY <2>1 DEF ReadAdjacent, Adjacent
  <2>2. CASE ~ReadAdjacent
    BY <2>2 DEF ResolveObject, RejectWalk, SkipDeepest, NextNode, FinishWalk, walk, WalkInv, WalkTypeOK
  <2> QED
    BY <2>1, <2>2
<1>4. queue' = queue \/ (queue # <<>> /\ queue' = Tail(queue))
  BY DEF ResolveObject, RejectWalk, SkipDeepest, ReadAdjacent, NextNode, FinishWalk, walk, WalkInv
<1>5. walkPhase' = "expanding" => queue' # <<>>
  BY DEF ResolveObject, RejectWalk, SkipDeepest, ReadAdjacent, NextNode, FinishWalk, walk, WalkInv
<1>6. CASE ResolveObject
  <2>1. DOMAIN nodes = {}
    BY <1>6 DEF ResolveObject, WalkInv
  <2>2. seed' \in SymbolOrNull /\ (walkPhase' = "resolved" => seed' \in Symbols)
    <3> DEFINE found == Candidates(query.target)
    <3>1. found \subseteq Symbols /\ IsFiniteSet(found)
      <4>1. query.target \in Symbols \cup DOMAIN Named
        BY DEF WalkInv, WalkTypeOK, Query
      <4>2. IsFiniteSet({query.target}) /\ (query.target \notin Symbols => IsFiniteSet(Named[query.target]))
        BY <4>1, FS_Singleton, WalkData
      <4>3. live \subseteq Symbols
        BY DEF WalkInv, WalkTypeOK, GraphTypeOK
      <4>4. \A S, T : IsFiniteSet(S) => IsFiniteSet(S \cap T)
        BY FS_Intersection
      <4> QED
        BY <4>2, <4>3, <4>4 DEF Candidates
    <3>2. Cardinality(found) \in Nat /\ (Cardinality(found) = 0 <=> found = {})
      BY <3>1, FS_CardinalityType, FS_EmptySet
    <3>3. /\ walkPhase' = (CASE found = {} -> "not_found" [] Cardinality(found) > 1 -> "ambiguous"
                              [] OTHER -> "resolved")
          /\ seed' = IF Cardinality(found) = 1 THEN CHOOSE s \in found : TRUE ELSE NoSymbol
      BY <1>6 DEF ResolveObject
    <3> HIDE DEF found
    <3>4. walkPhase' = "resolved" => Cardinality(found) = 1
      BY <3>2, <3>3
    <3> QED
      BY <3>1, <3>2, <3>3, <3>4 DEF SymbolOrNull
  <2>3. walkPhase' \notin {"walking", "expanding"}
    BY <1>6 DEF ResolveObject
  <2> QED
    BY <1>1, <1>2, <1>3, <1>4, <1>5, <2>1, <2>2, <2>3, PhaseStep
<1>7. CASE RejectWalk \/ SkipDeepest \/ ReadAdjacent \/ NextNode \/ FinishWalk
  <2>1. seed' = seed /\ walkPhase \in {"resolved", "walking", "expanding"}
    BY <1>7 DEF RejectWalk, SkipDeepest, ReadAdjacent, NextNode, FinishWalk, walk
  <2>2. seed \in Symbols
    BY <2>1 DEF WalkInv
  <2> QED
    BY <1>1, <1>2, <1>3, <1>4, <1>5, <2>1, <2>2, PhaseStep DEF SymbolOrNull
<1> QED
  BY <1>6, <1>7

LEMMA StartKeeps == ASSUME WalkInv, StartWalk PROVE WalkInv'
<1>1. /\ walkPhase = "resolved" /\ walkPhase' = "walking" /\ seed' = seed /\ seed \in Symbols
      /\ nodes' = [s \in {seed} |-> 0] /\ edges' = {} /\ cycles' = {} /\ limitReached' = FALSE
      /\ queue' = <<[symbol |-> seed, path |-> <<seed>>]>>
      /\ UNCHANGED <<graph, query, adjacent>>
  BY DEF StartWalk, WalkInv
<1>2. WalkTypeOK'
  <2>1. DOMAIN nodes' = {seed} /\ nodes'[seed] = 0
    BY <1>1
  <2> QED
    BY <1>1, <2>1 DEF WalkInv, WalkTypeOK, GraphTypeOK, graph, SymbolOrNull
<1>3. NodesWereReached'
  BY <1>1 DEF NodesWereReached
<1>4. queue' \in Seq(Item) /\ Len(queue') = 1
  BY <1>1 DEF Item
<1>5. GoodItem(queue'[1], nodes', edges')
  <2> DEFINE item == [symbol |-> seed, path |-> <<seed>>]
  <2>1. /\ item \in Item /\ item.symbol = seed /\ item.path = <<seed>> /\ queue'[1] = item
    BY <1>1 DEF Item
  <2>2. Len(<<seed>>) = 1 /\ <<seed>> # <<>> /\ <<seed>>[1] = seed
    OBVIOUS
  <2>3. seed \in DOMAIN nodes' /\ nodes'[seed] = 0
    BY <1>1
  <2> HIDE DEF item
  <2>4. Walked(<<seed>>, edges')
    BY <2>2 DEF Walked
  <2> QED
    BY <2>1, <2>2, <2>3, <2>4 DEF GoodItem
<1> QED
  BY <1>1, <1>2, <1>3, <1>4, <1>5 DEF WalkInv

\* One relation of the head of the queue: an edge, and perhaps a cycle or a node.
LEMMA HandleKeeps == ASSUME WalkInv, HandleRelation PROVE WalkInv'
<1> DEFINE item == Head(queue)
           i == CHOOSE j \in DOMAIN adjacent : \A k \in DOMAIN adjacent : j <= k
           r == adjacent[i]
           next == OtherEnd(item.symbol, r)
           closes == next \in live /\ OnPath(next, item)
           e == [id |-> i, row |-> r, from |-> item.symbol, depth |-> Depth(item) + 1, cycle |-> closes]
           longer == Append(item.path, next)
<1>1. /\ walkPhase = "expanding" /\ walkPhase' = "expanding"
      /\ edges' = edges \cup {e}
      /\ cycles' = IF closes THEN cycles \cup {longer} ELSE cycles
      /\ nodes' = IF Enters(next, item)
                  THEN [s \in DOMAIN nodes \cup {next} |-> IF s = next THEN Depth(item) + 1 ELSE nodes[s]]
                  ELSE nodes
      /\ queue' = IF Enters(next, item) THEN Append(queue, [symbol |-> next, path |-> longer]) ELSE queue
      /\ limitReached' = (limitReached \/ Overflows(next, item))
      /\ adjacent' = [j \in DOMAIN adjacent \ {i} |-> adjacent[j]]
      /\ UNCHANGED <<graph, query, seed>>
  BY DEF HandleRelation
<1>2. queue \in Seq(Item) /\ queue # <<>> /\ GoodItem(item, nodes, edges) /\ item = queue[1] /\ seed \in Symbols
  BY <1>1 DEF WalkInv
<1>3. e.from = item.symbol /\ e.row = r /\ e.depth = Depth(item) + 1
  OBVIOUS
<1>4. e \in edges' /\ edges \subseteq edges' /\ next = OtherEnd(e.from, e.row)
  BY <1>1, <1>3
<1>5. Enters(next, item) => next \in live /\ next \notin DOMAIN nodes
  BY DEF Enters
<1>6. live \subseteq Symbols
  BY DEF WalkInv, WalkTypeOK, GraphTypeOK
<1>7. item.path \in Seq(Symbols) /\ Len(item.path) \in Nat \ {0} /\ Depth(item) + 1 = Len(item.path)
      /\ item.path[Len(item.path)] = item.symbol /\ nodes[item.symbol] + 1 = Len(item.path)
      /\ item.symbol \in DOMAIN nodes /\ Walked(item.path, edges)
  BY <1>2 DEF GoodItem, Item, Depth
<1>8. limitReached' \in BOOLEAN
  <2>1. (limitReached \/ Overflows(next, item)) \in BOOLEAN
    OBVIOUS
  <2> QED
    BY <1>1, <2>1
<1> HIDE DEF e, next, closes, item, i, r
<1>9. \A path : Walked(path, edges) => Walked(path, edges')
  BY <1>4 DEF Walked
<1>10. next \in Symbols => longer \in Seq(Symbols) /\ Len(longer) = Len(item.path) + 1
        /\ longer[Len(longer)] = next /\ longer # <<>> /\ Walked(longer, edges')
  <2> SUFFICES ASSUME next \in Symbols
               PROVE  longer \in Seq(Symbols) /\ Len(longer) = Len(item.path) + 1
                        /\ longer[Len(longer)] = next /\ longer # <<>> /\ Walked(longer, edges')
    OBVIOUS
  <2>1. longer \in Seq(Symbols) /\ Len(longer) = Len(item.path) + 1
        /\ longer[Len(longer)] = next /\ \A k \in 1..Len(item.path) : longer[k] = item.path[k]
    BY <1>7
  <2>2. longer # <<>>
    BY <2>1, <1>7
  <2> HIDE DEF longer
  <2>3. ASSUME NEW k \in 1..(Len(longer) - 1)
        PROVE  \E d \in edges' : d.from = longer[k] /\ OtherEnd(d.from, d.row) = longer[k + 1]
    <3>1. CASE k < Len(item.path)
      <4>1. k \in 1..(Len(item.path) - 1) /\ k + 1 \in 1..Len(item.path) /\ k \in 1..Len(item.path)
        BY <3>1, <1>7, <2>1
      <4>2. PICK d \in edges : d.from = item.path[k] /\ OtherEnd(d.from, d.row) = item.path[k + 1]
        BY <4>1, <1>7 DEF Walked
      <4> QED
        BY <4>1, <4>2, <2>1, <1>4
    <3>2. CASE k >= Len(item.path)
      <4>1. k = Len(item.path) /\ k + 1 = Len(longer)
        BY <3>2, <1>7, <2>1
      <4>2. e.from = longer[k] /\ OtherEnd(e.from, e.row) = longer[k + 1]
        BY <4>1, <2>1, <1>3, <1>4, <1>7
      <4> QED
        BY <4>2, <1>4
    <3> QED
      BY <3>1, <3>2, <1>7, <2>1
  <2> QED
    BY <2>1, <2>2, <2>3 DEF Walked
<1> HIDE DEF longer
<1>11. /\ DOMAIN nodes \subseteq DOMAIN nodes' /\ \A s \in DOMAIN nodes : nodes'[s] = nodes[s]
       /\ Enters(next, item) => next \in DOMAIN nodes' /\ nodes'[next] = Len(item.path)
       /\ \A s \in DOMAIN nodes' \ DOMAIN nodes : s = next /\ Enters(next, item)
  BY <1>1, <1>5, <1>7
<1>12. \A q : GoodItem(q, nodes, edges) => GoodItem(q, nodes', edges')
  BY <1>9, <1>11 DEF GoodItem
<1>13. queue' \in Seq(Item) /\ queue' # <<>> /\ \A k \in 1..Len(queue') : GoodItem(queue'[k], nodes', edges')
  <2>1. CASE Enters(next, item)
    <3> DEFINE q == [symbol |-> next, path |-> longer]
    <3>1. q \in Item /\ q.symbol = next /\ q.path = longer
      BY <2>1, <1>5, <1>6, <1>10 DEF Item
    <3>2. GoodItem(q, nodes', edges')
      BY <2>1, <3>1, <1>5, <1>6, <1>7, <1>10, <1>11 DEF GoodItem
    <3>3. queue' = Append(queue, q)
      BY <2>1, <1>1
    <3> HIDE DEF q
    <3>4. /\ queue' \in Seq(Item) /\ Len(queue') = Len(queue) + 1 /\ Len(queue) \in Nat
          /\ queue'[Len(queue')] = q /\ \A k \in 1..Len(queue) : queue'[k] = queue[k]
      BY <3>1, <3>3, <1>2
    <3>5. ASSUME NEW k \in 1..Len(queue') PROVE GoodItem(queue'[k], nodes', edges')
      <4>1. CASE k \in 1..Len(queue)
        <5>1. GoodItem(queue[k], nodes, edges)
          BY <4>1 DEF WalkInv
        <5> QED
          BY <4>1, <5>1, <3>4, <1>12
      <4>2. CASE k = Len(queue')
        BY <4>2, <3>2, <3>4
      <4> QED
        BY <4>1, <4>2, <3>4
    <3> QED
      BY <3>4, <3>5
  <2>2. CASE ~Enters(next, item)
    <3>1. queue' = queue
      BY <2>2, <1>1
    <3> QED
      BY <3>1, <1>2, <1>12 DEF WalkInv
  <2> QED
    BY <2>1, <2>2
<1>14. NodesWereReached'
  <2> SUFFICES ASSUME NEW s \in DOMAIN nodes' \ {seed}
               PROVE  \E d \in edges' : /\ OtherEnd(d.from, d.row) = s /\ d.depth = nodes'[s]
                        /\ d.from \in DOMAIN nodes' /\ nodes'[d.from] + 1 = nodes'[s]
    BY <1>1, ZenonT(30) DEF NodesWereReached, OtherEnd
  <2>1. CASE s \in DOMAIN nodes
    <3>1. PICK d \in edges : /\ OtherEnd(d.from, d.row) = s /\ d.depth = nodes[s]
                             /\ d.from \in DOMAIN nodes /\ nodes[d.from] + 1 = nodes[s]
      BY <2>1 DEF WalkInv, NodesWereReached
    <3> QED
      BY <3>1, <2>1, <1>4, <1>11
  <2>2. CASE s \notin DOMAIN nodes
    <3>1. s = next /\ Enters(next, item) /\ nodes'[s] = Len(item.path)
      BY <2>2, <1>11
    <3>2. e.from \in DOMAIN nodes' /\ nodes'[e.from] + 1 = nodes'[s] /\ e.depth = nodes'[s]
      BY <3>1, <1>3, <1>7, <1>11
    <3> QED
      BY <3>1, <3>2, <1>4
  <2> QED
    BY <2>1, <2>2
<1>15. \A c \in cycles' : c \in Seq(Symbols) /\ Walked(c, edges')
  <2>1. \A c \in cycles : c \in Seq(Symbols) /\ Walked(c, edges')
    BY <1>9 DEF WalkInv
  <2>2. CASE closes
    <3>1. next \in Symbols
      BY <2>2, <1>6 DEF closes
    <3> QED
      BY <2>1, <2>2, <3>1, <1>1, <1>10
  <2>3. CASE ~closes
    BY <2>1, <2>3, <1>1
  <2> QED
    BY <2>2, <2>3
<1>16. WalkTypeOK'
  <2>1. DOMAIN nodes' \subseteq Symbols /\ \A s \in DOMAIN nodes' : nodes'[s] \in Nat
    BY <1>5, <1>6, <1>7, <1>11 DEF WalkInv, WalkTypeOK
  <2>2. DOMAIN adjacent' \subseteq RelationIds
    BY <1>1 DEF WalkInv, WalkTypeOK
  <2> QED
    BY <1>1, <1>8, <2>1, <2>2 DEF WalkInv, WalkTypeOK, GraphTypeOK, graph
<1> QED
  BY <1>1, <1>2, <1>13, <1>14, <1>15, <1>16 DEF WalkInv

LEMMA WalkStarts == GraphInit /\ WalkInit => WalkInv
<1> SUFFICES ASSUME GraphInit, WalkInit PROVE WalkInv
  OBVIOUS
<1>1. /\ query \in Query /\ walkPhase = "idle" /\ seed = NoSymbol /\ nodes = [s \in {} |-> 0]
      /\ edges = {} /\ cycles = {} /\ limitReached = FALSE /\ queue = <<>> /\ adjacent = NoRows
  BY DEF WalkInit, NoWalk
<1>2. GraphTypeOK
  BY GraphData DEF GraphInit, GraphTypeOK
<1>3. DOMAIN nodes = {} /\ DOMAIN adjacent = {}
  BY <1>1 DEF NoRows
<1>4. WalkTypeOK
  BY <1>1, <1>2, <1>3 DEF WalkTypeOK, SymbolOrNull
<1> QED
  BY <1>1, <1>3, <1>4 DEF WalkInv, NodesWereReached

LEMMA WalkStepKeeps == WalkInv /\ [WalkNext]_<<graph, walkVars>> => WalkInv'
<1> SUFFICES ASSUME WalkInv, [WalkNext]_<<graph, walkVars>> PROVE WalkInv'
  OBVIOUS
<1>1. CASE WalkStep
  BY <1>1, PlainKeeps, StartKeeps, HandleKeeps DEF WalkStep
<1>2. CASE WalkDisturbed
  BY <1>2, GraphMoves, DisturbedKeeps DEF WalkDisturbed, WalkInv, WalkTypeOK
<1>3. CASE UNCHANGED <<graph, walkVars>>
  <2>1. GraphTypeOK'
    BY <1>3 DEF graph, GraphTypeOK, WalkInv, WalkTypeOK
  <2> QED
    BY <1>3, <2>1, DisturbedKeeps
<1> QED
  BY <1>1, <1>2, <1>3 DEF WalkNext

\* describe and impact show no symbol without the relation by which they reached it, from a
\* symbol one step nearer, and report no cycle of which a step is missing, whatever other
\* processes commit while they walk.
THEOREM WalkSeen == WalkSpec => []WalkWasSeen
<1>1. WalkInv => WalkWasSeen
  BY DEF WalkInv, WalkWasSeen, CyclesWereWalked, Walked
<1>2. GraphInit /\ WalkInit => WalkInv
  BY WalkStarts
<1> QED
  BY <1>1, <1>2, WalkStepKeeps, PTL DEF WalkSpec


-----------------------------------------------------------------------------
(* Graph-aware retrieval.                                                    *)

LastOf(p) == p.nodes[Len(p.nodes)]

\* A path holds one symbol more than relations, and none of them twice.
Simple(p) ==
    /\ p.nodes \in Seq(Symbols) /\ p.rels \in Seq(RelationIds)
    /\ Len(p.nodes) = Len(p.rels) + 1
    /\ \A j, k \in 1..Len(p.nodes) : p.nodes[j] = p.nodes[k] => j = k

AcceptedAs(t) == t \in traces /\ t.status = "accepted"

\* The path was accepted when it was last made longer, from the seed being expanded.
Waits(p) ==
    /\ Simple(p)
    /\ p.nodes[1] = seeds[seedNo] /\ PathDepth(p) <= MaxDepth
    /\ PathDepth(p) > 0 =>
        \E u \in traces : u.status = "accepted" /\ u.seed = seeds[seedNo] /\ u.path = p

\* A trace that gives evidence.
Follows(t) ==
    /\ Simple(t.path) /\ t.symbol = LastOf(t.path) /\ t.symbol \in accepted
    /\ PathDepth(t.path) \in 1..MaxDepth
    /\ \E k \in DOMAIN seeds : k <= MaxSeeds /\ seeds[k] = t.path.nodes[1]
    /\ PathDepth(t.path) > 1 =>
        \E u \in traces :
            /\ u.status = "accepted" /\ u.seed = t.seed
            /\ u.path.nodes = SubSeq(t.path.nodes, 1, Len(t.path.nodes) - 1)
            /\ u.path.rels = SubSeq(t.path.rels, 1, Len(t.path.rels) - 1)

SearchInv ==
    /\ GraphTypeOK
    /\ current \subseteq Chunks /\ stored \subseteq Chunks
    /\ candidates \in Seq(SUBSET Symbols) /\ seeds \in Seq(Symbols)
    /\ phase \in {"seeding", "seed", "expanding", "reading", "resolving", "done"}
    /\ seedNo \in 1..(Len(seeds) + 1)
    /\ phase = "seeding" => seedNo = 1
    /\ phase \in {"seeding", "seed"} /\ seedNo = 1 => traces = {} /\ accepted = {} /\ full = FALSE
    /\ phase \in {"resolving", "done"} => seedNo = Len(seeds) + 1

PathsInv ==
    /\ full \in BOOLEAN
    /\ DOMAIN rows \subseteq RelationIds
    /\ phase \in {"expanding", "reading"} =>
        /\ seedNo <= Len(seeds) /\ seedNo <= MaxSeeds
        /\ DOMAIN paths = 1..Len(paths) /\ Len(paths) \in Nat
        /\ \A k \in 1..Len(paths) : Waits(paths[k])
    /\ phase = "reading" => paths # <<>> /\ PathDepth(Head(paths)) < MaxDepth

TracesInv ==
    /\ accepted \subseteq Symbols /\ Cardinality(accepted) <= MaxCandidates
    /\ \A t \in Reached : Follows(t)
    /\ \A s \in accepted : \E t \in traces : t.status = "accepted" /\ t.symbol = s

ResolveInv ==
    /\ unresolved \subseteq accepted /\ DOMAIN evidence \subseteq accepted
    /\ unresolved \cap DOMAIN evidence = {}
    /\ phase \notin {"resolving", "done"} => unresolved = {} /\ DOMAIN evidence = {}
    /\ phase = "done" => unresolved = {}
    /\ checked = <<>> \/ \E s \in unresolved, c \in Chunks : checked = <<s, c>>

FollowInv == SearchInv /\ PathsInv /\ TracesInv /\ ResolveInv

\* Nobody else writes: what was resolved is exactly what can be cited.
StillInv ==
    edits = 0 =>
        /\ accepted \subseteq live /\ Elements(seeds) \subseteq live /\ stored = Chunks
        /\ phase \in {"resolving", "done"} =>
            \A s \in accepted \ unresolved : s \in DOMAIN evidence <=> Citable(s) # {}
        /\ \A s \in DOMAIN evidence : evidence[s] \in current
        /\ checked # <<>> => Citable(checked[1]) # {} /\ checked[2] \in current

Cut == \E t \in traces : t.status = "limit"

\* The paths that were ever put in the queue for the best seed.
Entered == {Root(seeds[1])} \cup {t.path : t \in {t \in traces : t.status = "accepted"}}
Near(x, d) == \E p \in Entered : LastOf(p) = x /\ PathDepth(p) <= d
Steps(x) ==
    {relations[i].target : i \in {i \in RelationIds :
        relations[i].source = x /\ x \in InDomain /\ InScope(relations[i])}} \cap live
Expanded(p) == \A y \in Steps(LastOf(p)) : Near(y, PathDepth(p) + 1)

\* The queue of the best seed is in the order of the depths, and holds what was not expanded.
FirstInv ==
    /\ \A p \in Entered :
        PathDepth(p) >= MaxDepth \/ Expanded(p) \/ \E k \in 1..Len(paths) : paths[k] = p
    /\ \A k \in 1..Len(paths) :
        /\ paths[k] \in Entered
        /\ \A p \in Entered : PathDepth(p) <= PathDepth(paths[k]) + 1
        /\ \A j \in 1..Len(paths) : j <= k => PathDepth(paths[j]) <= PathDepth(paths[k])
        /\ \A l \in 1..Len(paths[k].nodes) : Near(paths[k].nodes[l], l - 1)
    /\ phase = "reading" =>
        \A y \in Steps(LastOf(Head(paths))) :
            \/ Near(y, PathDepth(Head(paths)) + 1)
            \/ \E i \in DOMAIN rows : OtherEnd(LastOf(Head(paths)), rows[i]) = y

BestInv ==
    /\ full => Cut
    /\ edits = 0 /\ ~Cut /\ seeds # <<>> =>
        /\ phase \in {"expanding", "reading"} /\ seedNo = 1 => FirstInv
        /\ seedNo > 1 => Forward(seeds[1]) \ {seeds[1]} \subseteq accepted
LEMMA Least ==
    ASSUME NEW T, T \subseteq Nat, T # {}
    PROVE  \E x \in T : \A y \in T : x <= y
<1> DEFINE R == OpToRel(<, Nat)
<1>1. IsWellFoundedOn(R, Nat)
  BY NatLessThanWellFounded
<1>2. PICK x \in T : \A y \in T : <<y, x>> \notin R
  <2> HIDE DEF R
  <2> QED
    BY <1>1, WFMin
<1>3. \A y \in T : ~(y < x)
  BY <1>2 DEF OpToRel
<1>4. \A y \in T : x \in Nat /\ y \in Nat
  OBVIOUS
<1>5. \A y \in T : x <= y
  <2> HIDE DEF R
  <2> TAKE y \in T
  <2> QED
    BY <1>3, <1>4
<1> QED
  BY <1>5

LEMMA GraphStill == ASSUME GraphTypeOK, UNCHANGED graph PROVE GraphTypeOK'
BY DEF GraphTypeOK, graph

\* Steps that neither lengthen a path nor begin one.
LEMMA PathsStill ==
    ASSUME PathsInv, UNCHANGED <<seeds, expansion>>,
           phase' = phase \/ phase' \notin {"expanding", "reading"}
    PROVE  PathsInv'
<1>1. UNCHANGED <<seeds, seedNo, paths, rows, accepted, full, traces>>
  BY DEF expansion
<1>2. \A p : Waits(p) => Waits(p)'
  BY <1>1 DEF Waits, Simple, PathDepth
<1> QED
  BY <1>1, <1>2 DEF PathsInv, PathDepth

LEMMA TracesStill ==
    ASSUME TracesInv, UNCHANGED <<seeds, accepted, traces>>
    PROVE  TracesInv'
<1>1. Reached' = Reached
  BY DEF Reached
<1>2. \A t : Follows(t) => Follows(t)'
  BY DEF Follows, Simple, PathDepth, LastOf
<1> QED
  BY <1>1, <1>2 DEF TracesInv

LEMMA ResolveStill ==
    ASSUME ResolveInv, UNCHANGED resolution, accepted \subseteq accepted',
           phase' = phase \/ (phase \notin {"resolving", "done"} /\ phase' \notin {"resolving", "done"})
    PROVE  ResolveInv'
BY DEF ResolveInv, resolution

LEMMA SeedKeeps ==
    ASSUME FollowInv, SeedCandidate
    PROVE  FollowInv' /\ \E o \in Seq(Head(candidates) \cap live) : seeds' = seeds \o o
<1> DEFINE new == (Head(candidates) \cap live) \ Elements(seeds)
<1>1. PICK o \in [1..Cardinality(new) -> new] : seeds' = seeds \o o
  BY DEF SeedCandidate
<1>2. /\ phase = "seeding" /\ phase' = "seeding" /\ candidates # <<>> /\ candidates' = Tail(candidates)
      /\ UNCHANGED <<graph, current, stored, expansion, resolution>>
  BY DEF SeedCandidate
<1>3. seeds \in Seq(Symbols) /\ candidates \in Seq(SUBSET Symbols) /\ live \subseteq Symbols
      /\ seedNo = 1 /\ traces = {} /\ accepted = {} /\ full = FALSE /\ GraphTypeOK
  BY <1>2 DEF FollowInv, SearchInv, GraphTypeOK
<1>4. new \subseteq Symbols /\ IsFiniteSet(new) /\ new \subseteq Head(candidates) \cap live
  BY <1>3, GraphData, FS_Subset
<1>5. Cardinality(new) \in Nat
  BY <1>4, FS_CardinalityType
<1> HIDE DEF new
<1>6. o \in Seq(new)
  BY <1>1, <1>5
<1>7. o \in Seq(Symbols) /\ o \in Seq(Head(candidates) \cap live)
  BY <1>6, <1>4
<1>8. seeds' \in Seq(Symbols) /\ Len(seeds') \in Nat
  BY <1>1, <1>3, <1>7
<1>9. candidates' \in Seq(SUBSET Symbols)
  BY <1>2, <1>3
<1>10. SearchInv'
  <2>1. GraphTypeOK'
    BY <1>2, <1>3, GraphStill
  <2> QED
    BY <1>2, <1>3, <1>8, <1>9, <2>1 DEF FollowInv, SearchInv, expansion
<1>11. PathsInv'
  BY <1>2 DEF FollowInv, PathsInv, expansion
<1>12. TracesInv'
  BY <1>2, <1>3 DEF FollowInv, TracesInv, Reached, expansion
<1>13. ResolveInv'
  BY <1>2, ResolveStill DEF FollowInv, expansion
<1> QED
  BY <1>1, <1>7, <1>10, <1>11, <1>12, <1>13 DEF FollowInv

\* Steps that leave the search's seeds and paths alone.
LEMMA QuietKeeps ==
    ASSUME FollowInv, GraphTypeOK',
           \/ SeedsFound \/ StartResolving \/ ResolveSymbol \/ EnrichSymbol \/ Retrieve \/ Withdraw
           \/ UNCHANGED expandVars
    PROVE  FollowInv'
<1>1. UNCHANGED <<seeds, expansion>>
  BY DEF SeedsFound, StartResolving, ResolveSymbol, EnrichSymbol, Retrieve, Withdraw, expandVars,
         expansion, search
<1>2. phase' = phase \/ phase' \notin {"expanding", "reading"}
  BY DEF SeedsFound, StartResolving, ResolveSymbol, EnrichSymbol, Retrieve, Withdraw, expandVars
<1>3. PathsInv' /\ TracesInv'
  BY <1>1, <1>2, PathsStill, TracesStill DEF FollowInv, expansion
<1>4. SearchInv'
  <2>1. UNCHANGED <<candidates, seeds, seedNo, traces, accepted, full>>
    BY DEF SeedsFound, StartResolving, ResolveSymbol, EnrichSymbol, Retrieve, Withdraw, expandVars,
           expansion, search
  <2>2. current' \subseteq current /\ stored' \subseteq stored
    BY DEF SeedsFound, StartResolving, ResolveSymbol, EnrichSymbol, Retrieve, Withdraw, expandVars
  <2>3. \/ UNCHANGED phase
        \/ phase = "seeding" /\ phase' = "seed"
        \/ phase = "seed" /\ seedNo > Len(seeds) /\ phase' = "resolving"
        \/ phase = "resolving" /\ phase' = "done"
    BY DEF SeedsFound, StartResolving, ResolveSymbol, EnrichSymbol, Retrieve, Withdraw, expandVars
  <2>4. seedNo \in 1..(Len(seeds) + 1) /\ Len(seeds) \in Nat
    BY DEF FollowInv, SearchInv
  <2> QED
    BY <2>1, <2>2, <2>3, <2>4 DEF FollowInv, SearchInv
<1>5. ResolveInv'
  <2>1. CASE SeedsFound \/ Withdraw \/ UNCHANGED expandVars
    <3>1. UNCHANGED resolution /\ (phase' = phase \/ (phase = "seeding" /\ phase' = "seed"))
      BY <2>1 DEF SeedsFound, Withdraw, expandVars, resolution
    <3> QED
      BY <1>1, <3>1, ResolveStill DEF FollowInv, expansion
  <2>2. CASE StartResolving
    <3>1. unresolved' \subseteq accepted
      BY <2>2 DEF StartResolving, FollowInv, TracesInv, Follows
    <3>2. DOMAIN evidence = {} /\ unresolved = {} /\ checked = <<>> /\ phase' = "resolving"
          /\ UNCHANGED <<accepted, checked, evidence>>
      BY <2>2 DEF StartResolving, FollowInv, ResolveInv, expansion
    <3> QED
      BY <3>1, <3>2 DEF ResolveInv
  <2>3. CASE ResolveSymbol
    <3>1. PICK s \in unresolved :
            IF s \in live /\ Citable(s) # {}
            THEN /\ \E c \in Citable(s) : checked' = <<s, c>>
                 /\ UNCHANGED unresolved
            ELSE /\ unresolved' = unresolved \ {s}
                 /\ UNCHANGED checked
      BY <2>3 DEF ResolveSymbol
    <3>2. Citable(s) \subseteq current /\ current \subseteq Chunks
      BY DEF Citable, Own, FollowInv, SearchInv
    <3>3. checked = <<>> /\ phase = "resolving" /\ UNCHANGED <<phase, evidence, accepted>>
      BY <2>3 DEF ResolveSymbol, expansion
    <3> QED
      BY <3>1, <3>2, <3>3 DEF FollowInv, ResolveInv
  <2>4. CASE EnrichSymbol
    <3>1. PICK s \in unresolved, c \in Chunks : checked = <<s, c>>
      BY <2>4 DEF EnrichSymbol, FollowInv, ResolveInv
    <3>2. checked[1] = s /\ checked[2] = c /\ checked' = <<>> /\ phase = "resolving"
          /\ UNCHANGED <<phase, accepted>> /\ unresolved \subseteq accepted
          /\ DOMAIN evidence \subseteq accepted /\ unresolved \cap DOMAIN evidence = {}
      BY <2>4, <3>1 DEF EnrichSymbol, FollowInv, ResolveInv, expansion
    <3>3. CASE c \in stored
      <4>1. DOMAIN evidence' = DOMAIN evidence \cup {s} /\ unresolved' = unresolved \ {s}
        BY <2>4, <3>2, <3>3 DEF EnrichSymbol
      <4> QED
        BY <3>1, <3>2, <4>1 DEF ResolveInv
    <3>4. CASE c \notin stored
      <4>1. UNCHANGED <<evidence, unresolved>>
        BY <2>4, <3>2, <3>4 DEF EnrichSymbol
      <4> QED
        BY <3>2, <4>1 DEF ResolveInv
    <3> QED
      BY <3>3, <3>4
  <2>5. CASE Retrieve
    <3>1. phase = "resolving" /\ phase' = "done" /\ unresolved = {}
          /\ UNCHANGED <<accepted, unresolved, checked, evidence>>
      BY <2>5 DEF Retrieve, expansion, resolution
    <3> QED
      BY <3>1 DEF FollowInv, ResolveInv
  <2> QED
    BY <2>1, <2>2, <2>3, <2>4, <2>5
<1> QED
  BY <1>3, <1>4, <1>5 DEF FollowInv

LEMMA WaitsGrow ==
    ASSUME UNCHANGED <<seeds, seedNo>>, traces \subseteq traces', NEW p, Waits(p)
    PROVE  Waits(p)'
BY DEF Waits, Simple, PathDepth

\* A trace that gives no evidence changes nothing for those that do.
LEMMA TracesGrow ==
    ASSUME TracesInv, UNCHANGED <<seeds, accepted>>,
           NEW t, t.status \notin {"accepted", "duplicate"}, traces' = traces \cup {t}
    PROVE  TracesInv'
<1>1. Reached' = Reached
  BY DEF Reached
<1>2. \A u : Follows(u) => Follows(u)'
  BY DEF Follows, Simple, PathDepth, LastOf
<1> QED
  BY <1>1, <1>2 DEF TracesInv

LEMMA NextSeedKeeps == ASSUME FollowInv, NextSeed PROVE FollowInv'
<1> DEFINE s == seeds[seedNo]
<1>1. /\ phase = "seed" /\ seedNo <= Len(seeds)
      /\ UNCHANGED <<graph, current, stored, search, rows, accepted, full, resolution>>
      /\ UNCHANGED <<candidates, seeds>>
  BY DEF NextSeed, search
<1>2. /\ seeds \in Seq(Symbols) /\ Len(seeds) \in Nat /\ seedNo \in 1..Len(seeds) /\ s \in Symbols
      /\ seedNo \in Nat
  BY <1>1 DEF FollowInv, SearchInv
<1>3. ResolveInv'
  <2>1. phase' \notin {"resolving", "done"}
    BY <1>1 DEF NextSeed
  <2> QED
    BY <1>1, <2>1, ResolveStill DEF FollowInv
<1>4. GraphTypeOK'
  BY <1>1, GraphStill DEF FollowInv, SearchInv
<1>5. MaxDepth \in Nat \ {0} /\ MaxSeeds \in Nat
  BY ExpansionData
<1>6. CASE seedNo > MaxSeeds \/ s \notin live
  <2> DEFINE t == Trace(Root(s), s, IF seedNo > MaxSeeds THEN "limit" ELSE "unresolved_source")
  <2>1. traces' = traces \cup {t} /\ seedNo' = seedNo + 1 /\ UNCHANGED <<phase, paths, neighborsSeen>>
    BY <1>6 DEF NextSeed
  <2>2. t.status \notin {"accepted", "duplicate"}
    BY DEF Trace
  <2> HIDE DEF t
  <2>3. TracesInv'
    BY <1>1, <2>1, <2>2, TracesGrow DEF FollowInv
  <2>4. PathsInv'
    BY <1>1, <2>1 DEF FollowInv, PathsInv
  <2>5. SearchInv'
    <3>1. seedNo' \in 1..(Len(seeds) + 1) /\ seedNo' # 1
      BY <1>2, <2>1
    <3> QED
      BY <1>1, <1>4, <2>1, <3>1 DEF FollowInv, SearchInv
  <2> QED
    BY <1>3, <2>3, <2>4, <2>5 DEF FollowInv
<1>7. CASE ~(seedNo > MaxSeeds \/ s \notin live)
  <2>1. paths' = <<Root(s)>> /\ phase' = "expanding" /\ UNCHANGED <<traces, seedNo>>
    BY <1>7 DEF NextSeed
  <2>2. TracesInv'
    BY <1>1, <2>1, TracesStill DEF FollowInv
  <2>3. Waits(Root(s))'
    <3>1. Root(s).nodes = <<s>> /\ Root(s).rels = <<>>
      BY DEF Root
    <3>2. <<s>> \in Seq(Symbols) /\ Len(<<s>>) = 1 /\ <<s>>[1] = s /\ <<>> \in Seq(RelationIds) /\ Len(<<>>) = 0
      BY <1>2
    <3> HIDE DEF s
    <3>3. Simple(Root(s))
      BY <3>1, <3>2 DEF Simple
    <3> QED
      BY <1>1, <1>5, <2>1, <3>1, <3>2, <3>3 DEF Waits, Simple, PathDepth, s
  <2>4. PathsInv'
    <3>1. Len(paths') = 1 /\ DOMAIN paths' = 1..1 /\ paths'[1] = Root(s)
      BY <2>1
    <3>2. seedNo' <= Len(seeds') /\ seedNo' <= MaxSeeds
      BY <1>1, <1>2, <1>5, <1>7, <2>1
    <3> HIDE DEF s
    <3>3. \A k \in 1..Len(paths') : paths'[k] = Root(s)
      BY <3>1
    <3>4. (\A k \in 1..Len(paths) : Waits(paths[k]))'
      <4> DEFINE r == Root(s)
      <4>1. r' = r
        BY <1>1, <2>1 DEF r, s, Root
      <4>2. ASSUME NEW k \in 1..Len(paths'), NEW p, p = paths'[k] PROVE Waits(p)'
        <5>1. p = r'
          BY <3>3, <4>1, <4>2
        <5> QED
          BY <5>1, <2>3 DEF Waits
      <4> QED
        BY <4>2 DEF Waits
    <3> QED
      BY <1>1, <2>1, <3>1, <3>2, <3>4 DEF FollowInv, PathsInv
  <2>5. SearchInv'
    BY <1>1, <1>4, <2>1 DEF FollowInv, SearchInv
  <2> QED
    BY <1>3, <2>2, <2>4, <2>5 DEF FollowInv
<1> QED
  BY <1>6, <1>7

\* The queue loses its head, or a path is read.
LEMMA DequeueKeeps ==
    ASSUME FollowInv, ExpandPath \/ PathDone \/ SeedDone
    PROVE  FollowInv'
<1>1. UNCHANGED <<graph, current, stored, candidates, seeds, accepted, full, traces, resolution>>
  BY DEF ExpandPath, PathDone, SeedDone, search
<1>2. GraphTypeOK'
  BY <1>1, GraphStill DEF FollowInv, SearchInv
<1>3. TracesInv'
  BY <1>1, TracesStill DEF FollowInv
<1>4. ResolveInv'
  <2>1. phase \notin {"resolving", "done"} /\ phase' \notin {"resolving", "done"}
    BY DEF ExpandPath, PathDone, SeedDone
  <2> QED
    BY <1>1, <2>1, ResolveStill DEF FollowInv
<1>5. /\ phase \in {"expanding", "reading"}
      /\ seedNo <= Len(seeds) /\ seedNo <= MaxSeeds /\ seedNo \in 1..(Len(seeds) + 1) /\ Len(seeds) \in Nat
      /\ DOMAIN paths = 1..Len(paths) /\ Len(paths) \in Nat /\ \A k \in 1..Len(paths) : Waits(paths[k])
      /\ full \in BOOLEAN /\ DOMAIN rows \subseteq RelationIds
      /\ phase = "reading" => paths # <<>> /\ PathDepth(Head(paths)) < MaxDepth
  BY DEF ExpandPath, PathDone, SeedDone, FollowInv, SearchInv, PathsInv
<1>6. CASE SeedDone
  <2>1. seedNo' = seedNo + 1 /\ phase' = "seed" /\ UNCHANGED <<paths, rows>>
    BY <1>6 DEF SeedDone
  <2>2. PathsInv'
    BY <1>1, <1>5, <2>1 DEF PathsInv
  <2>3. SearchInv'
    <3>1. seedNo' \in 1..(Len(seeds) + 1) /\ seedNo' # 1
      BY <1>5, <2>1
    <3> QED
      BY <1>1, <1>2, <2>1, <3>1 DEF FollowInv, SearchInv
  <2> QED
    BY <1>3, <1>4, <2>2, <2>3 DEF FollowInv
<1>7. CASE ExpandPath \/ PathDone
  <2>1. UNCHANGED seedNo /\ phase' \in {"expanding", "reading"}
    BY <1>5, <1>7 DEF ExpandPath, PathDone
  <2>2. SearchInv'
    BY <1>1, <1>2, <2>1 DEF FollowInv, SearchInv
  <2>3. \A p : Waits(p) => Waits(p)'
    BY <1>1, <2>1, WaitsGrow
  <2>4. DOMAIN rows' \subseteq RelationIds
    BY <1>5, <1>7 DEF ExpandPath, PathDone, Adjacent
  <2>5. paths # <<>>
    BY <1>5, <1>7 DEF ExpandPath, PathDone
  <2>6. \/ UNCHANGED paths /\ phase' = "reading" /\ PathDepth(Head(paths)) < MaxDepth
        \/ paths' = Tail(paths) /\ phase' = "expanding"
    <3>1. CASE PathDone
      BY <3>1 DEF PathDone
    <3>2. CASE ExpandPath /\ PathDepth(Head(paths)) >= MaxDepth
      BY <3>2 DEF ExpandPath
    <3>3. CASE ExpandPath /\ ~(PathDepth(Head(paths)) >= MaxDepth)
      <4>1. UNCHANGED paths /\ phase' = "reading"
        BY <3>3 DEF ExpandPath
      <4>2. PathDepth(Head(paths)) \in Nat /\ MaxDepth \in Nat
        <5>1. Waits(paths[1]) /\ Head(paths) = paths[1]
          BY <1>5, <2>5
        <5> QED
          BY <5>1, ExpansionData DEF Waits, Simple, PathDepth
      <4> QED
        BY <3>3, <4>1, <4>2
    <3> QED
      BY <1>7, <3>1, <3>2, <3>3
  <2>7. CASE UNCHANGED paths /\ phase' = "reading" /\ PathDepth(Head(paths)) < MaxDepth
    <3>1. (\A k \in 1..Len(paths) : Waits(paths[k]))'
      BY <1>5, <2>3, <2>7
    <3> QED
      BY <1>1, <1>3, <1>4, <1>5, <2>1, <2>2, <2>4, <2>5, <2>7, <3>1 DEF FollowInv, PathsInv, PathDepth
  <2>8. CASE paths' = Tail(paths) /\ phase' = "expanding"
    <3>1. Len(paths') = Len(paths) - 1 /\ DOMAIN paths' = 1..Len(paths') /\ Len(paths) # 0
          /\ \A k \in 1..Len(paths') : paths'[k] = paths[k + 1]
      BY <1>5, <2>5, <2>8
    <3>2. \A k \in 1..Len(paths') : k + 1 \in 1..Len(paths)
      BY <1>5, <3>1
    <3>4. (\A k \in 1..Len(paths) : Waits(paths[k]))'
      <4>1. ASSUME NEW k \in 1..Len(paths'), NEW p, p = paths'[k] PROVE Waits(p)'
        <5>1. k + 1 \in 1..Len(paths) /\ p = paths[k + 1]
          BY <3>1, <3>2, <4>1
        <5>2. Waits(p)
          BY <1>5, <5>1
        <5> QED
          BY <2>3, <5>2
      <4> QED
        BY <4>1 DEF Waits
    <3>5. Len(paths') \in Nat
      BY <1>5, <3>1
    <3> QED
      BY <1>1, <1>3, <1>4, <1>5, <2>1, <2>2, <2>4, <2>8, <3>1, <3>4, <3>5 DEF FollowInv, PathsInv
  <2> QED
    BY <2>6, <2>7, <2>8
<1> QED
  BY <1>6, <1>7

FirstRow == CHOOSE j \in DOMAIN rows : \A k \in DOMAIN rows : j <= k

LEMMA FirstRowIsRead ==
    ASSUME DOMAIN rows \subseteq RelationIds, DOMAIN rows # {}
    PROVE  FirstRow \in DOMAIN rows /\ FirstRow \in RelationIds
<1>1. \E j \in DOMAIN rows : \A k \in DOMAIN rows : j <= k
  BY Least, GraphData
<1> QED
  BY <1>1 DEF FirstRow

\* Every step of a loop over the relations of the head path.
LEMMA ReadingFacts ==
    ASSUME FollowInv, phase = "reading"
    PROVE  /\ seedNo \in 1..Len(seeds) /\ seedNo <= MaxSeeds /\ seeds \in Seq(Symbols)
           /\ DOMAIN paths = 1..Len(paths) /\ Len(paths) \in Nat \ {0} /\ Head(paths) = paths[1]
           /\ \A k \in 1..Len(paths) : Waits(paths[k])
           /\ Waits(Head(paths)) /\ PathDepth(Head(paths)) < MaxDepth
<1>1. /\ DOMAIN paths = 1..Len(paths) /\ Len(paths) \in Nat /\ paths # <<>>
      /\ \A k \in 1..Len(paths) : Waits(paths[k])
      /\ PathDepth(Head(paths)) < MaxDepth /\ seedNo <= Len(seeds) /\ seedNo <= MaxSeeds
      /\ seedNo \in 1..(Len(seeds) + 1) /\ seeds \in Seq(Symbols)
  BY DEF FollowInv, PathsInv, SearchInv
<1>2. Len(paths) # 0 /\ Head(paths) = paths[1]
  BY <1>1
<1>3. Waits(paths[1])
  BY <1>1, <1>2
<1> QED
  BY <1>1, <1>2, <1>3

LEMMA LimitKeeps == ASSUME FollowInv, NeighborLimit PROVE FollowInv'
<1> DEFINE t == Trace([Head(paths) EXCEPT !.rels = Append(@, FirstRow)], rows[FirstRow].target, "limit")
<1>1. /\ phase = "reading" /\ DOMAIN rows # {}
      /\ traces' = traces \cup {t} /\ rows' = [i \in {} |-> Gone]
      /\ UNCHANGED <<graph, current, stored, candidates, seeds, phase, seedNo, paths, accepted, full,
                     resolution>>
  BY DEF NeighborLimit, search, FirstRow
<1>2. t.status \notin {"accepted", "duplicate"}
  BY DEF Trace
<1> HIDE DEF t
<1>3. TracesInv'
  BY <1>1, <1>2, TracesGrow DEF FollowInv
<1>4. ResolveInv'
  BY <1>1, ResolveStill DEF FollowInv
<1>5. SearchInv'
  <2>1. GraphTypeOK'
    BY <1>1, GraphStill DEF FollowInv, SearchInv
  <2> QED
    BY <1>1, <2>1 DEF FollowInv, SearchInv
<1>6. PathsInv'
  <2>1. \A p : Waits(p) => Waits(p)'
    BY <1>1, WaitsGrow
  <2>2. (\A k \in 1..Len(paths) : Waits(paths[k]))'
    <3>1. \A k \in 1..Len(paths') : \A p : p = paths'[k] => Waits(p)'
      BY <1>1, <2>1, ReadingFacts
    <3> QED
      BY <3>1 DEF Waits
  <2> QED
    BY <1>1, <2>2 DEF FollowInv, PathsInv, PathDepth
<1> QED
  BY <1>3, <1>4, <1>5, <1>6 DEF FollowInv

\* A path made longer by a relation to a symbol it does not hold.
LEMMA LongerIsSimple ==
    ASSUME NEW p, Simple(p), NEW s \in Symbols, s \notin Elements(p.nodes), NEW i \in RelationIds
    PROVE  LET longer == [nodes |-> Append(p.nodes, s), rels |-> Append(p.rels, i)]
           IN  /\ Simple(longer) /\ LastOf(longer) = s /\ PathDepth(longer) = PathDepth(p) + 1
               /\ longer.nodes[1] = p.nodes[1]
               /\ p.nodes = SubSeq(longer.nodes, 1, Len(longer.nodes) - 1)
               /\ p.rels = SubSeq(longer.rels, 1, Len(longer.rels) - 1)
               /\ Len(longer.nodes) = Len(p.nodes) + 1
               /\ \A k \in 1..Len(p.nodes) : longer.nodes[k] = p.nodes[k]
<1> DEFINE q == Append(p.nodes, s)
           r == Append(p.rels, i)
           longer == [nodes |-> q, rels |-> r]
<1>1. /\ p.nodes \in Seq(Symbols) /\ p.rels \in Seq(RelationIds) /\ Len(p.nodes) = Len(p.rels) + 1
      /\ Len(p.rels) \in Nat /\ Len(p.nodes) \in Nat \ {0}
      /\ \A j, k \in 1..Len(p.nodes) : p.nodes[j] = p.nodes[k] => j = k
  BY DEF Simple
<1>2. /\ q \in Seq(Symbols) /\ Len(q) = Len(p.nodes) + 1 /\ q[Len(q)] = s
      /\ \A k \in 1..Len(p.nodes) : q[k] = p.nodes[k]
      /\ r \in Seq(RelationIds) /\ Len(r) = Len(p.rels) + 1
      /\ p.nodes = SubSeq(q, 1, Len(q) - 1)
      /\ p.rels = SubSeq(r, 1, Len(r) - 1)
  <2>1. /\ q \in Seq(Symbols) /\ Len(q) = Len(p.nodes) + 1 /\ q[Len(q)] = s
        /\ \A k \in 1..Len(p.nodes) : q[k] = p.nodes[k]
    BY <1>1
  <2>2. r \in Seq(RelationIds) /\ Len(r) = Len(p.rels) + 1 /\ \A k \in 1..Len(p.rels) : r[k] = p.rels[k]
    BY <1>1
  <2> HIDE DEF q, r
  <2>3. p.nodes = SubSeq(q, 1, Len(q) - 1)
    BY <1>1, <2>1
  <2>4. p.rels = SubSeq(r, 1, Len(r) - 1)
    BY <1>1, <2>2
  <2> QED
    BY <2>1, <2>2, <2>3, <2>4
<1> HIDE DEF q, r
<1>3. longer.nodes = q /\ longer.rels = r
  OBVIOUS
<1>4. \A k \in 1..Len(p.nodes) : p.nodes[k] # s
  BY <1>1 DEF Elements
<1>5. \A j, k \in 1..Len(q) : q[j] = q[k] => j = k
  <2> TAKE j, k \in 1..Len(q)
  <2> HAVE q[j] = q[k]
  <2>1. CASE j \in 1..Len(p.nodes) /\ k \in 1..Len(p.nodes)
    BY <1>1, <1>2, <2>1
  <2>2. CASE j = Len(q) /\ k = Len(q)
    BY <2>2
  <2>3. CASE j = Len(q) /\ k \in 1..Len(p.nodes)
    BY <1>2, <1>4, <2>3
  <2>4. CASE k = Len(q) /\ j \in 1..Len(p.nodes)
    BY <1>2, <1>4, <2>4
  <2> QED
    BY <1>1, <1>2, <2>1, <2>2, <2>3, <2>4
<1> HIDE DEF longer
<1>6. Simple(longer)
  BY <1>1, <1>2, <1>3, <1>5 DEF Simple
<1> QED
  BY <1>1, <1>2, <1>3, <1>6 DEF LastOf, PathDepth, longer, q, r

\* What FollowRelation does, with its local names.
Followed(next, status, longer) ==
    /\ traces' = traces \cup {Trace(longer, next, status)}
    /\ accepted' = IF status = "accepted" THEN accepted \cup {next} ELSE accepted
    /\ full' = (status = "limit")
    /\ paths' = IF status = "accepted" THEN Append(paths, longer) ELSE paths
    /\ rows' = [j \in (IF full' THEN {} ELSE DOMAIN rows \ {FirstRow}) |-> rows[j]]

Next1 == OtherEnd(LastOf(Head(paths)), rows[FirstRow])
Longer1 == [nodes |-> Append(Head(paths).nodes, Next1), rels |-> Append(Head(paths).rels, FirstRow)]
Status1 == StatusOf(Next1, Head(paths))

LEMMA FollowedOnce ==
    ASSUME FollowInv, FollowRelation
    PROVE  /\ Followed(Next1, Status1, Longer1)
           /\ phase = "reading" /\ DOMAIN rows # {}
           /\ UNCHANGED <<graph, current, stored, candidates, seeds, phase, seedNo, resolution>>
BY DEF FollowRelation, search, FirstRow, Next1, Longer1, Status1, Followed, LastOf

LEMMA StatusFacts ==
    ASSUME FollowInv
    PROVE  /\ Status1 \in {"unresolved_source", "cycle", "duplicate", "limit", "accepted"}
           /\ Status1 \in {"duplicate", "accepted"} =>
                /\ Next1 \in live /\ Next1 \in Symbols /\ Next1 \notin Elements(Head(paths).nodes)
           /\ Status1 = "duplicate" => Next1 \in accepted
           /\ Status1 = "cycle" => Next1 \in Elements(Head(paths).nodes)
           /\ Status1 = "unresolved_source" => Next1 \notin live
           /\ Status1 = "accepted" =>
                Next1 \notin accepted /\ ~(Cardinality(accepted) >= MaxCandidates)
<1>1. live \subseteq Symbols /\ NoSymbol \notin Symbols
  BY GraphData DEF FollowInv, SearchInv, GraphTypeOK
<1> HIDE DEF Next1
<1> DEFINE onPath == Next1 \in Elements(Head(paths).nodes)
<1>2. CASE onPath
  <2>1. Status1 = "cycle"
    BY <1>2 DEF Status1, StatusOf
  <2> QED
    BY <1>2, <2>1
<1>3. CASE ~onPath /\ Next1 \notin live
  <2>1. Status1 = "unresolved_source"
    BY <1>3 DEF Status1, StatusOf
  <2> QED
    BY <1>3, <2>1
<1>4. CASE ~onPath /\ Next1 \in live /\ Next1 \in accepted
  <2>1. Status1 = "duplicate"
    BY <1>4 DEF Status1, StatusOf
  <2> QED
    BY <1>1, <1>4, <2>1
<1>5. CASE ~onPath /\ Next1 \in live /\ Next1 \notin accepted
  <2>1. Status1 = IF Cardinality(accepted) >= MaxCandidates THEN "limit" ELSE "accepted"
    BY <1>5 DEF Status1, StatusOf
  <2> QED
    BY <1>1, <1>5, <2>1
<1> QED
  BY <1>2, <1>3, <1>4, <1>5

LEMMA FollowKeeps == ASSUME FollowInv, FollowRelation PROVE FollowInv'
<1> DEFINE path == Head(paths)
           t == Trace(Longer1, Next1, Status1)
<1>1. /\ Followed(Next1, Status1, Longer1) /\ phase = "reading" /\ DOMAIN rows # {}
      /\ UNCHANGED <<graph, current, stored, candidates, seeds, phase, seedNo, resolution>>
  BY FollowedOnce
<1>2. /\ seedNo \in 1..Len(seeds) /\ seedNo <= MaxSeeds /\ seeds \in Seq(Symbols)
      /\ DOMAIN paths = 1..Len(paths) /\ Len(paths) \in Nat \ {0} /\ path = paths[1]
      /\ \A k \in 1..Len(paths) : Waits(paths[k])
      /\ Waits(path) /\ PathDepth(path) < MaxDepth
  BY <1>1, ReadingFacts
<1>3. FirstRow \in DOMAIN rows /\ FirstRow \in RelationIds
  BY <1>1, FirstRowIsRead DEF FollowInv, PathsInv
<1>4. Simple(path) /\ path.nodes[1] = seeds[seedNo] /\ PathDepth(path) \in Nat /\ MaxDepth \in Nat
      /\ (PathDepth(path) > 0 =>
            \E u \in traces : u.status = "accepted" /\ u.seed = seeds[seedNo] /\ u.path = path)
  BY <1>2, ExpansionData DEF Waits, Simple, PathDepth
<1>5. Status1 \in {"duplicate", "accepted"} =>
        /\ Simple(Longer1) /\ LastOf(Longer1) = Next1 /\ PathDepth(Longer1) = PathDepth(path) + 1
        /\ Longer1.nodes[1] = path.nodes[1]
        /\ path.nodes = SubSeq(Longer1.nodes, 1, Len(Longer1.nodes) - 1)
        /\ path.rels = SubSeq(Longer1.rels, 1, Len(Longer1.rels) - 1)
  BY <1>3, <1>4, StatusFacts, LongerIsSimple, SMTT(20) DEF Longer1
<1>6. t.seed = seeds[seedNo] /\ t.path = Longer1 /\ t.symbol = Next1 /\ t.status = Status1
  BY DEF Trace
<1>7. traces' = traces \cup {t}
  BY <1>1 DEF Followed
<1> HIDE DEF path, t
<1>8. accepted \subseteq accepted' /\ accepted' \subseteq Symbols /\ Cardinality(accepted') <= MaxCandidates
      /\ (Status1 \in {"accepted", "duplicate"} => Next1 \in accepted')
      /\ \A s \in accepted' : \E u \in traces' : u.status = "accepted" /\ u.symbol = s
  <2>1. accepted \subseteq Symbols /\ Cardinality(accepted) <= MaxCandidates /\ MaxCandidates \in Nat
        /\ \A s \in accepted : \E u \in traces : u.status = "accepted" /\ u.symbol = s
    BY ExpansionData DEF FollowInv, TracesInv
  <2>2. CASE Status1 = "accepted"
    <3>1. accepted' = accepted \cup {Next1} /\ Next1 \in Symbols /\ Next1 \notin accepted
          /\ ~(Cardinality(accepted) >= MaxCandidates)
      BY <1>1, <2>2, StatusFacts DEF Followed
    <3>2. IsFiniteSet(accepted) /\ Cardinality(accepted) \in Nat
      BY <2>1, GraphData, FS_Subset, FS_CardinalityType
    <3>3. Cardinality(accepted') = Cardinality(accepted) + 1
      BY <3>1, <3>2, FS_AddElement
    <3> QED
      BY <1>6, <1>7, <2>1, <2>2, <3>1, <3>2, <3>3
  <2>3. CASE Status1 # "accepted"
    <3>1. accepted' = accepted
      BY <1>1, <2>3 DEF Followed
    <3> QED
      BY <1>7, <2>1, <2>3, <3>1, StatusFacts
  <2> QED
    BY <2>2, <2>3
<1>9. TracesInv'
  <2>1. ASSUME NEW u \in Reached' PROVE Follows(u)'
    <3>1. CASE u \in Reached
      <4>1. Follows(u)
        BY <3>1 DEF FollowInv, TracesInv
      <4> QED
        BY <1>1, <1>7, <1>8, <4>1 DEF Follows
    <3>2. CASE u \notin Reached
      <4>1. u = t /\ Status1 \in {"accepted", "duplicate"}
        BY <1>6, <1>7, <3>2 DEF Reached
      <4>2. PathDepth(Longer1) \in 1..MaxDepth
        BY <1>2, <1>4, <1>5, <4>1
      <4>3. seedNo \in DOMAIN seeds
        BY <1>2
      <4>4. PathDepth(Longer1) > 1 =>
              \E v \in traces :
                /\ v.status = "accepted" /\ v.seed = t.seed
                /\ v.path.nodes = SubSeq(Longer1.nodes, 1, Len(Longer1.nodes) - 1)
                /\ v.path.rels = SubSeq(Longer1.rels, 1, Len(Longer1.rels) - 1)
        <5> HIDE DEF Longer1
        <5>1. PathDepth(Longer1) = PathDepth(path) + 1
              /\ path.nodes = SubSeq(Longer1.nodes, 1, Len(Longer1.nodes) - 1)
              /\ path.rels = SubSeq(Longer1.rels, 1, Len(Longer1.rels) - 1)
          BY <1>5, <4>1
        <5> HAVE PathDepth(Longer1) > 1
        <5>2. PICK v \in traces : v.status = "accepted" /\ v.seed = seeds[seedNo] /\ v.path = path
          BY <1>4, <5>1
        <5>3. v.path.nodes = path.nodes /\ v.path.rels = path.rels
          BY <5>2
        <5> QED
          BY <1>6, <5>1, <5>2, <5>3
      <4>5. Simple(Longer1) /\ LastOf(Longer1) = Next1 /\ Next1 \in accepted'
            /\ Longer1.nodes[1] = seeds[seedNo]
        BY <1>4, <1>5, <1>8, <4>1
      <4> HIDE DEF Longer1, Next1, Status1
      <4> DEFINE l == t.path
                 n == t.symbol
      <4>6. l = Longer1 /\ n = Next1
        BY <1>6
      <4> HIDE DEF l, n
      <4>7. /\ Simple(l) /\ n = LastOf(l) /\ n \in accepted' /\ PathDepth(l) \in 1..MaxDepth
            /\ \E k \in DOMAIN seeds' : k <= MaxSeeds /\ seeds'[k] = l.nodes[1]
            /\ PathDepth(l) > 1 =>
                \E v \in traces' :
                    /\ v.status = "accepted" /\ v.seed = t.seed
                    /\ v.path.nodes = SubSeq(l.nodes, 1, Len(l.nodes) - 1)
                    /\ v.path.rels = SubSeq(l.rels, 1, Len(l.rels) - 1)
        BY <1>1, <1>2, <1>7, <4>2, <4>3, <4>4, <4>5, <4>6
      <4> QED
        BY <4>1, <4>7 DEF Follows, l, n
    <3> QED
      BY <3>1, <3>2
  <2> QED
    BY <1>8, <2>1 DEF TracesInv
<1>10. \A p : Waits(p) => Waits(p)'
  BY <1>1, <1>7, WaitsGrow
<1>11. PathsInv'
  <2>1. full' \in BOOLEAN /\ DOMAIN rows' \subseteq RelationIds
    BY <1>1 DEF Followed, FollowInv, PathsInv
  <2>2. /\ DOMAIN paths' = 1..Len(paths') /\ Len(paths') \in Nat \ {0} /\ paths'[1] = paths[1]
        /\ \A k \in 1..Len(paths') : \A p : p = paths'[k] => Waits(p)'
    <3>1. CASE Status1 = "accepted"
      <4>1. paths' = Append(paths, Longer1)
        BY <1>1, <3>1 DEF Followed
      <4> HIDE DEF Longer1, Next1, Status1
      <4>2. /\ Len(paths') = Len(paths) + 1 /\ DOMAIN paths' = 1..Len(paths')
            /\ \A k \in 1..Len(paths) : paths'[k] = paths[k]
            /\ paths'[Len(paths')] = Longer1
        BY <1>2, <4>1
      <4>3. \A p : p = Longer1 => Waits(p)'
        <5> TAKE p
        <5> HAVE p = Longer1
        <5>1. PathDepth(p) <= MaxDepth
          BY <1>2, <1>4, <1>5, <3>1
        <5>2. Simple(p) /\ p.nodes[1] = seeds[seedNo]
          BY <1>4, <1>5, <3>1
        <5>3. t \in traces' /\ t.status = "accepted" /\ t.seed = seeds[seedNo] /\ t.path = p
          BY <1>6, <1>7, <3>1
        <5> QED
          BY <1>1, <5>1, <5>2, <5>3 DEF Waits, PathDepth
      <4> QED
        <5>1. ASSUME NEW k \in 1..Len(paths'), NEW p, p = paths'[k] PROVE Waits(p)'
          <6>1. CASE k \in 1..Len(paths)
            BY <1>2, <1>10, <4>2, <5>1, <6>1
          <6>2. CASE k = Len(paths')
            BY <4>2, <4>3, <5>1, <6>2
          <6> QED
            BY <1>2, <4>2, <6>1, <6>2
        <5> QED
          BY <1>2, <4>2, <5>1
    <3>2. CASE Status1 # "accepted"
      <4>1. paths' = paths
        BY <1>1, <3>2 DEF Followed
      <4> QED
        BY <1>2, <1>10, <4>1
    <3> QED
      BY <3>1, <3>2
  <2>3. paths' # <<>> /\ Head(paths') = paths'[1]
    BY <2>2
  <2>4. (\A k \in 1..Len(paths) : Waits(paths[k]))'
    BY <2>2 DEF Waits
  <2>5. PathDepth(Head(paths')) < MaxDepth
    BY <1>2, <2>2, <2>3
  <2> QED
    BY <1>1, <1>2, <2>1, <2>2, <2>3, <2>4, <2>5 DEF PathsInv, PathDepth
<1>12. SearchInv'
  <2>1. GraphTypeOK'
    BY <1>1, GraphStill DEF FollowInv, SearchInv
  <2> QED
    BY <1>1, <2>1 DEF FollowInv, SearchInv
<1>13. ResolveInv'
  BY <1>1, <1>8, ResolveStill DEF FollowInv
<1> QED
  BY <1>9, <1>11, <1>12, <1>13 DEF FollowInv

LEMMA FollowStarts == GraphInit /\ ExpandInit => FollowInv
<1> SUFFICES ASSUME GraphInit, ExpandInit PROVE FollowInv
  OBVIOUS
<1>1. /\ current \subseteq Chunks /\ stored = Chunks /\ candidates \in Retrieved /\ phase = "seeding"
      /\ seeds = <<>> /\ seedNo = 1 /\ paths = <<>> /\ rows = [i \in {} |-> Gone]
      /\ accepted = {} /\ full = FALSE /\ traces = {} /\ unresolved = {} /\ checked = <<>>
      /\ evidence = [s \in {} |-> NoChunk]
  BY DEF ExpandInit, NoExpansion
<1>2. GraphTypeOK
  BY GraphData DEF GraphInit, GraphTypeOK
<1>3. candidates \in Seq(SUBSET Symbols)
  BY <1>1, ExpansionData
<1>4. DOMAIN rows = {} /\ DOMAIN evidence = {}
  BY <1>1
<1>5. seeds \in Seq(Symbols) /\ seedNo \in 1..(Len(seeds) + 1)
  BY <1>1
<1>6. SearchInv
  BY <1>1, <1>2, <1>3, <1>5 DEF SearchInv
<1>7. TracesInv
  <2>1. Reached = {} /\ Cardinality(accepted) = 0 /\ MaxCandidates \in Nat
    BY <1>1, FS_EmptySet, ExpansionData DEF Reached
  <2> QED
    BY <1>1, <2>1 DEF TracesInv
<1> QED
  BY <1>1, <1>4, <1>6, <1>7 DEF FollowInv, PathsInv, ResolveInv

LEMMA FollowStepKeeps == FollowInv /\ [ExpandNext]_<<graph, expandVars>> => FollowInv'
<1> SUFFICES ASSUME FollowInv, [ExpandNext]_<<graph, expandVars>> PROVE FollowInv'
  OBVIOUS
<1>1. GraphTypeOK
  BY DEF FollowInv, SearchInv
<1>2. CASE SeedCandidate \/ NextSeed \/ ExpandPath \/ FollowRelation \/ NeighborLimit \/ PathDone \/ SeedDone
  BY <1>2, SeedKeeps, NextSeedKeeps, DequeueKeeps, FollowKeeps, LimitKeeps
<1>3. CASE SeedsFound \/ StartResolving \/ ResolveSymbol \/ EnrichSymbol \/ Retrieve
  <2>1. UNCHANGED graph
    BY <1>3 DEF SeedsFound, StartResolving, ResolveSymbol, EnrichSymbol, Retrieve
  <2> QED
    BY <1>1, <1>3, <2>1, GraphStill, QuietKeeps
<1>4. CASE ExpandDisturbed
  <2>1. CASE OtherProcess /\ UNCHANGED expandVars
    BY <1>1, <2>1, GraphMoves, QuietKeeps
  <2>2. CASE Withdraw
    <3>1. GraphTypeOK'
      <4>1. edits' \in 0..MaxEdits
        BY <1>1, <2>2, GraphData DEF GraphTypeOK, Withdraw, Edit
      <4> QED
        BY <1>1, <2>2, <4>1 DEF GraphTypeOK, Withdraw
    <3> QED
      BY <2>2, <3>1, QuietKeeps
  <2> QED
    BY <1>4, <2>1, <2>2 DEF ExpandDisturbed
<1>5. CASE UNCHANGED <<graph, expandVars>>
  BY <1>1, <1>5, GraphStill, QuietKeeps
<1> QED
  BY <1>2, <1>3, <1>4, <1>5 DEF ExpandNext, ExpandStep

\* As many symbols as places: a path that visits none twice.
LEMMA SimplePathCounts ==
    ASSUME NEW p, Simple(p)
    PROVE  Cardinality(Elements(p.nodes)) = Len(p.nodes)
<1> DEFINE q == p.nodes
           n == Len(q)
<1>1. q \in Seq(Symbols) /\ n \in Nat /\ DOMAIN q = 1..n
      /\ \A j, k \in 1..n : q[j] = q[k] => j = k
  BY DEF Simple
<1> HIDE DEF q, n
<1>2. q \in [1..n -> Elements(q)]
  <2>1. q = [k \in DOMAIN q |-> q[k]] /\ \A k \in DOMAIN q : q[k] \in Elements(q)
    BY <1>1 DEF Elements
  <2> QED
    BY <1>1, <2>1
<1>3. q \in Bijection(1..n, Elements(q))
  BY <1>1, <1>2 DEF Bijection, Injection, Surjection, IsInjective, Elements
<1>4. ExistsBijection(1..n, Elements(q))
  BY <1>3 DEF ExistsBijection
<1>5. Cardinality(Elements(q)) = n
  BY <1>1, <1>4, FS_CountingElements
<1> QED
  BY <1>5 DEF q, n

\* Graph-aware evidence follows paths from the first seeds of the search, each of them one
\* relation longer than a path accepted before, without coming back to a symbol of its own,
\* and within the limits on depth and symbols: what other processes commit meanwhile
\* changes none of it.
THEOREM PathsFollowed == ExpandSpec => []PathsWereFollowed
<1>1. FollowInv => PathsWereFollowed
  <2> SUFFICES ASSUME FollowInv PROVE PathsWereFollowed
    OBVIOUS
  <2>1. ExpandTypeOK
    <3>1. seeds \in Seq(Symbols) /\ accepted \subseteq Symbols
      BY DEF FollowInv, SearchInv, TracesInv
    <3>2. Elements(seeds) \subseteq Symbols
      BY <3>1 DEF Elements
    <3> QED
      BY <3>1, <3>2 DEF FollowInv, SearchInv, PathsInv, ResolveInv, ExpandTypeOK
  <2>2. PathsGrow
    <3>1. ASSUME NEW t \in Reached
          PROVE  /\ PathDepth(t.path) \in 1..MaxDepth
                 /\ \E k \in DOMAIN seeds : k <= MaxSeeds /\ seeds[k] = t.path.nodes[1]
                 /\ Cardinality(Elements(t.path.nodes)) = Len(t.path.nodes)
                 /\ PathDepth(t.path) > 1 =>
                    \E u \in Reached :
                        /\ u.status = "accepted" /\ u.seed = t.seed
                        /\ u.path.nodes = SubSeq(t.path.nodes, 1, Len(t.path.nodes) - 1)
                        /\ u.path.rels = SubSeq(t.path.rels, 1, Len(t.path.rels) - 1)
      <4>1. Follows(t)
        BY DEF FollowInv, TracesInv
      <4>2. \A u \in traces : u.status = "accepted" => u \in Reached
        BY DEF Reached
      <4> QED
        BY <4>1, <4>2, SimplePathCounts DEF Follows
    <3> QED
      BY <3>1 DEF PathsGrow, FollowInv, TracesInv
  <2> QED
    BY <2>1, <2>2 DEF PathsWereFollowed
<1> QED
  BY <1>1, FollowStarts, FollowStepKeeps, PTL DEF ExpandSpec

LEMMA CitableStill ==
    ASSUME UNCHANGED <<traces, current>>
    PROVE  \A s : Citable(s)' = Citable(s)
<1>1. \A s : RelationsTo(s)' = RelationsTo(s)
  BY DEF RelationsTo, Reached
<1>2. \A s : Shown(s)' = Shown(s)
  BY <1>1 DEF Shown
<1> QED
  BY <1>2 DEF Citable, Own

LEMMA StillStarts == GraphInit /\ ExpandInit => StillInv
BY DEF ExpandInit, NoExpansion, StillInv, Elements

\* Before the symbols are resolved, a step can only find more of them.
LEMMA FindingStill ==
    ASSUME FollowInv, FollowInv', StillInv, edits' = 0 => edits = 0 /\ UNCHANGED <<live, stored>>,
           phase' \notin {"resolving", "done"},
           edits = 0 => accepted' \subseteq accepted \cup live /\ Elements(seeds') \subseteq Elements(seeds) \cup live
    PROVE  StillInv'
<1>1. DOMAIN evidence' = {} /\ checked' = <<>>
  BY DEF FollowInv, ResolveInv
<1>2. edits' = 0 => accepted' \subseteq live' /\ Elements(seeds') \subseteq live'
  BY DEF StillInv
<1> QED
  BY <1>1, <1>2 DEF StillInv, Elements

LEMMA FindingKeepsStill ==
    ASSUME FollowInv, FollowInv', StillInv,
           SeedCandidate \/ SeedsFound \/ NextSeed \/ ExpandPath \/ FollowRelation \/ NeighborLimit
           \/ PathDone \/ SeedDone
    PROVE  StillInv'
<1>1. UNCHANGED <<edits, live, stored>> /\ phase' \notin {"resolving", "done"}
  BY DEF SeedCandidate, SeedsFound, NextSeed, ExpandPath, FollowRelation, NeighborLimit, PathDone,
         SeedDone, graph
<1>2. CASE SeedCandidate
  <2>1. PICK o \in Seq(Head(candidates) \cap live) : seeds' = seeds \o o
    BY <1>2, SeedKeeps
  <2>2. seeds \in Seq(Symbols) /\ Head(candidates) \cap live \subseteq live
    BY DEF FollowInv, SearchInv
  <2>3. Elements(seeds') \subseteq Elements(seeds) \cup live
    <3>1. /\ o \in Seq(live) /\ Len(o) \in Nat /\ Len(seeds) \in Nat
          /\ DOMAIN seeds' = 1..(Len(seeds) + Len(o))
          /\ \A k \in 1..Len(seeds) : seeds'[k] = seeds[k]
          /\ \A k \in 1..Len(o) : seeds'[Len(seeds) + k] = o[k]
      BY <2>1, <2>2
    <3>2. ASSUME NEW k \in DOMAIN seeds' PROVE seeds'[k] \in Elements(seeds) \cup live
      <4>1. CASE k \in 1..Len(seeds)
        BY <2>2, <3>1, <4>1 DEF Elements
      <4>2. CASE k \notin 1..Len(seeds)
        <5>1. k - Len(seeds) \in 1..Len(o) /\ k = Len(seeds) + (k - Len(seeds))
          BY <3>1, <4>2
        <5>2. seeds'[k] = o[k - Len(seeds)]
          BY <3>1, <5>1
        <5> QED
          BY <3>1, <5>1, <5>2
      <4> QED
        BY <4>1, <4>2
    <3> QED
      BY <3>2 DEF Elements
  <2>4. UNCHANGED accepted
    BY <1>2 DEF SeedCandidate, expansion
  <2> QED
    BY <1>1, <2>3, <2>4, FindingStill
<1>3. CASE FollowRelation
  <2>1. Followed(Next1, Status1, Longer1) /\ UNCHANGED seeds
    BY <1>3, FollowedOnce
  <2>2. accepted' \subseteq accepted \cup live
    BY <2>1, StatusFacts DEF Followed
  <2> QED
    BY <1>1, <2>1, <2>2, FindingStill
<1>4. CASE SeedsFound \/ NextSeed \/ ExpandPath \/ NeighborLimit \/ PathDone \/ SeedDone
  <2>1. UNCHANGED <<accepted, seeds>>
    BY <1>4 DEF SeedsFound, NextSeed, ExpandPath, NeighborLimit, PathDone, SeedDone, expansion, search
  <2> QED
    BY <1>1, <2>1, FindingStill
<1> QED
  BY <1>2, <1>3, <1>4

LEMMA ResolvingKeepsStill ==
    ASSUME FollowInv, StillInv, StartResolving \/ ResolveSymbol \/ EnrichSymbol \/ Retrieve
    PROVE  StillInv'
<1> SUFFICES ASSUME edits = 0
             PROVE  /\ accepted' \subseteq live' /\ Elements(seeds)' \subseteq live' /\ stored' = Chunks
                    /\ phase' \in {"resolving", "done"} =>
                        \A s \in accepted' \ unresolved' : s \in DOMAIN evidence' <=> Citable(s)' # {}
                    /\ \A s \in DOMAIN evidence' : evidence'[s] \in current'
                    /\ checked' # <<>> => Citable(checked[1])' # {} /\ checked'[2] \in current'
  BY DEF StillInv, StartResolving, ResolveSymbol, EnrichSymbol, Retrieve, graph
<1>1. UNCHANGED <<graph, current, stored, candidates, seeds, accepted, traces>> /\ edits' = 0
  BY DEF StartResolving, ResolveSymbol, EnrichSymbol, Retrieve, graph, search, expansion
<1>2. /\ accepted' \subseteq live' /\ Elements(seeds)' \subseteq live' /\ stored' = Chunks
  BY <1>1 DEF StillInv, graph, Elements
<1>3. \A s : Citable(s)' = Citable(s)
  BY <1>1, CitableStill
<1>4. phase \in {"resolving", "done"} =>
        \A s \in accepted \ unresolved : s \in DOMAIN evidence <=> Citable(s) # {}
  BY DEF StillInv
<1>5. \A s \in DOMAIN evidence : evidence[s] \in current
  BY DEF StillInv
<1>6. CASE StartResolving
  <2>1. accepted' \ unresolved' = {}
    <3>1. \A s \in accepted : \E t \in Reached : t.symbol = s
      BY DEF FollowInv, TracesInv, Reached
    <3> QED
      BY <1>6, <3>1 DEF StartResolving, expansion
  <2>2. checked' = <<>> /\ DOMAIN evidence' = {}
    BY <1>6 DEF StartResolving, FollowInv, ResolveInv
  <2> QED
    BY <1>2, <2>1, <2>2
<1>7. CASE ResolveSymbol
  <2>1. PICK s \in unresolved :
          IF s \in live /\ Citable(s) # {}
          THEN /\ \E c \in Citable(s) : checked' = <<s, c>>
               /\ UNCHANGED unresolved
          ELSE /\ unresolved' = unresolved \ {s}
               /\ UNCHANGED checked
    BY <1>7 DEF ResolveSymbol
  <2>2. /\ checked = <<>> /\ phase = "resolving" /\ phase' = "resolving" /\ UNCHANGED evidence
        /\ s \in live /\ Citable(s) \subseteq current /\ s \notin DOMAIN evidence
    BY <1>7, <2>1 DEF ResolveSymbol, StillInv, FollowInv, ResolveInv, Citable, Own
  <2>3. CASE Citable(s) # {}
    <3>1. PICK c \in Citable(s) : checked' = <<s, c>> /\ UNCHANGED unresolved
      BY <2>1, <2>2, <2>3
    <3>2. checked'[1] = s /\ checked'[2] = c
      BY <3>1
    <3>3. Citable(checked[1])' # {}
      <4>1. \A x : x = checked'[1] => Citable(x)' # {}
        BY <1>3, <2>3, <3>2
      <4>2. Citable(checked[1])' = Citable(s)
        BY <1>1, <3>2 DEF Citable, Own, Shown, RelationsTo, Reached
      <4> QED
        BY <2>3, <4>2
    <3> QED
      BY <1>1, <1>2, <1>3, <1>4, <1>5, <2>2, <3>1, <3>2, <3>3
  <2>4. CASE Citable(s) = {}
    <3>1. unresolved' = unresolved \ {s} /\ UNCHANGED checked
      BY <2>1, <2>4
    <3> QED
      BY <1>1, <1>2, <1>3, <1>4, <1>5, <2>2, <2>4, <3>1
  <2> QED
    BY <2>3, <2>4
<1>8. CASE EnrichSymbol
  <2>1. PICK s \in unresolved, c \in Chunks : checked = <<s, c>>
    BY <1>8 DEF EnrichSymbol, FollowInv, ResolveInv
  <2>2. checked[1] = s /\ checked[2] = c /\ checked # <<>> /\ checked' = <<>>
        /\ phase = "resolving" /\ phase' = "resolving"
    BY <1>8, <2>1 DEF EnrichSymbol
  <2>3. c \in stored /\ c \in current /\ Citable(s) # {}
    BY <2>2 DEF StillInv
  <2>4. evidence' = [t \in DOMAIN evidence \cup {s} |-> IF t = s THEN c ELSE evidence[t]]
        /\ unresolved' = unresolved \ {s}
    BY <1>8, <2>2, <2>3 DEF EnrichSymbol
  <2>5. DOMAIN evidence' = DOMAIN evidence \cup {s}
        /\ \A t \in DOMAIN evidence' : evidence'[t] = IF t = s THEN c ELSE evidence[t]
    BY <2>4
  <2> QED
    BY <1>1, <1>2, <1>3, <1>4, <1>5, <2>2, <2>3, <2>4, <2>5
<1>9. CASE Retrieve
  <2>1. phase = "resolving" /\ UNCHANGED <<unresolved, checked, evidence>>
    BY <1>9 DEF Retrieve, resolution
  <2>2. checked' = <<>>
    BY <1>9, <2>1 DEF FollowInv, ResolveInv, Retrieve
  <2> QED
    BY <1>1, <1>2, <1>3, <1>4, <1>5, <2>1, <2>2
<1> QED
  BY <1>6, <1>7, <1>8, <1>9

\* A commit of another process ends the time of which these invariants speak.
LEMMA EditsCount == ASSUME GraphTypeOK, ExpandDisturbed PROVE edits' # 0
<1>1. Edit
  BY DEF ExpandDisturbed, OtherProcess, UpsertRelation, StaleSymbol, DropSymbol, Withdraw
<1> QED
  BY <1>1 DEF Edit, GraphTypeOK

LEMMA StillStepKeeps ==
    FollowInv /\ FollowInv' /\ StillInv /\ [ExpandNext]_<<graph, expandVars>> => StillInv'
<1> SUFFICES ASSUME FollowInv, FollowInv', StillInv, [ExpandNext]_<<graph, expandVars>>
             PROVE  StillInv'
  OBVIOUS
<1>1. CASE ExpandStep
  BY <1>1, FindingKeepsStill, ResolvingKeepsStill DEF ExpandStep
<1>2. CASE ExpandDisturbed
  BY <1>2, EditsCount DEF FollowInv, SearchInv, StillInv
<1>3. CASE UNCHANGED <<graph, expandVars>>
  <2>1. UNCHANGED <<edits, live, accepted, seeds, stored, phase, unresolved, evidence, checked, traces, current>>
    BY <1>3 DEF graph, expandVars
  <2>2. \A s : Citable(s)' = Citable(s)
    BY <2>1, CitableStill
  <2>3. Citable(checked[1])' = Citable(checked[1])
    BY <2>1 DEF Citable, Own, Shown, RelationsTo, Reached
  <2> QED
    BY <2>1, <2>2, <2>3 DEF StillInv, Elements
<1> QED
  BY <1>1, <1>2, <1>3 DEF ExpandNext

\* With the tables still, graph-aware evidence is exactly one current chunk for each symbol
\* accepted that some current chunk shows: the check of a chunk, its text and the next chunk
\* tried come in steps of their own, and none is lost or taken twice.
THEOREM EvidenceCited == ExpandSpec => []EvidenceIsCitable
<1>1. FollowInv /\ StillInv => EvidenceIsCitable
  <2> SUFFICES ASSUME FollowInv, StillInv, edits = 0, phase = "done"
               PROVE  /\ DOMAIN evidence = {s \in accepted : Citable(s) # {}}
                      /\ \A s \in DOMAIN evidence : evidence[s] \in current
    BY DEF EvidenceIsCitable
  <2>1. unresolved = {} /\ DOMAIN evidence \subseteq accepted
    BY DEF FollowInv, ResolveInv
  <2> QED
    BY <2>1 DEF StillInv
<1>2. FollowInv /\ StillInv /\ [ExpandNext]_<<graph, expandVars>> => (FollowInv /\ StillInv)'
  BY FollowStepKeeps, StillStepKeeps
<1> QED
  BY <1>1, <1>2, FollowStarts, StillStarts, PTL DEF ExpandSpec

\* One step from the symbols X, by a function F, n times over.
IsBall(f, F, a, m, S) ==
    /\ f \in [0..m -> SUBSET S]
    /\ f[0] = a
    /\ \A n \in 1..m : f[n] = F[f[n - 1]]

\* The recursive functions of the model are defined: a least depth without one is none.
LEMMA BallExists ==
    ASSUME NEW S, NEW F \in [SUBSET S -> SUBSET S], NEW a \in SUBSET S, NEW m \in Nat
    PROVE  \E f : IsBall(f, F, a, m, S)
<1> DEFINE T == {n \in Nat : ~\E f : IsBall(f, F, a, n, S)}
<1>1. CASE T = {}
  BY <1>1
<1>2. CASE T # {}
  <2>1. T \subseteq Nat
    OBVIOUS
  <2>2. PICK x \in T : \A y \in T : x <= y
    <3> HIDE DEF T
    <3> QED
      BY <1>2, <2>1, Least
  <2>3. x \in Nat /\ ~\E f : IsBall(f, F, a, x, S)
    OBVIOUS
  <2>4. CASE x = 0
    <3> DEFINE f == [n \in 0..0 |-> a]
    <3>1. f \in [0..0 -> SUBSET S] /\ f[0] = a
      OBVIOUS
    <3> HIDE DEF f
    <3>2. \A n \in 1..0 : f[n] = F[f[n - 1]]
      OBVIOUS
    <3> QED
      BY <2>3, <2>4, <3>1, <3>2 DEF IsBall
  <2>5. CASE x # 0
    <3>1. x - 1 \in Nat /\ ~(x <= x - 1)
      BY <2>3, <2>5
    <3>2. x - 1 \notin T
      BY <2>2, <3>1
    <3>3. PICK g : IsBall(g, F, a, x - 1, S)
      BY <3>1, <3>2
    <3> HIDE DEF T
    <3> DEFINE f == [n \in 0..x |-> IF n = x THEN F[g[x - 1]] ELSE g[n]]
    <3>4. g \in [0..(x - 1) -> SUBSET S] /\ g[0] = a /\ \A n \in 1..(x - 1) : g[n] = F[g[n - 1]]
      BY <3>3 DEF IsBall
    <3>5. \A n \in 0..x : n = x \/ n \in 0..(x - 1)
      BY <2>3, <3>1
    <3>6. f \in [0..x -> SUBSET S]
      BY <3>1, <3>4, <3>5
    <3>7. f[0] = a
      BY <2>3, <2>5, <3>1, <3>4
    <3>8. ASSUME NEW n \in 1..x PROVE f[n] = F[f[n - 1]]
      <4>1. n - 1 \in 0..x /\ n - 1 # x /\ f[n - 1] = g[n - 1] /\ n \in 0..x
        BY <2>3, <3>8
      <4>2. CASE n = x
        BY <4>1, <4>2
      <4>3. CASE n # x
        <5>1. n \in 1..(x - 1)
          BY <2>3, <3>8, <4>3
        <5> QED
          BY <3>4, <4>1, <4>3, <5>1
      <4> QED
        BY <4>2, <4>3
    <3> HIDE DEF f
    <3> QED
      BY <2>3, <3>6, <3>7, <3>8 DEF IsBall
  <2> QED
    BY <2>4, <2>5
<1> QED
  BY <1>1, <1>2

Around == [X \in SUBSET Symbols |->
    X \cup ({relations[i].target : i \in {i \in RelationIds :
                relations[i].source \in X \cap InDomain /\ InScope(relations[i])}} \cap live)]

LEMMA ForwardSteps ==
    ASSUME GraphTypeOK, NEW s \in Symbols
    PROVE  \E ball :
            /\ Forward(s) = ball[MaxDepth] /\ ball[0] = {s}
            /\ \A n \in 1..MaxDepth : \A y \in ball[n] :
                    y \in ball[n - 1] \/ \E x \in ball[n - 1] : y \in Steps(x)
<1>1. MaxDepth \in Nat
  BY ExpansionData
<1>2. Around \in [SUBSET Symbols -> SUBSET Symbols]
  BY DEF Around, GraphTypeOK
<1>3. PICK f : IsBall(f, Around, {s}, MaxDepth, Symbols)
  BY <1>1, <1>2, BallExists
<1> DEFINE Recurs(g) == g = [n \in 0..MaxDepth |->
            IF n = 0 THEN {s}
            ELSE g[n - 1] \cup
                 ({relations[i].target : i \in {i \in RelationIds :
                        relations[i].source \in g[n - 1] \cap InDomain /\ InScope(relations[i])}}
                  \cap live)]
           ball == CHOOSE g : Recurs(g)
<1>4. Recurs(f)
  <2>1. f \in [0..MaxDepth -> SUBSET Symbols] /\ f[0] = {s}
        /\ \A n \in 1..MaxDepth : f[n] = Around[f[n - 1]]
    BY <1>3 DEF IsBall
  <2>2. ASSUME NEW n \in 0..MaxDepth
        PROVE  f[n] = IF n = 0 THEN {s}
                      ELSE f[n - 1] \cup
                        ({relations[i].target : i \in {i \in RelationIds :
                            relations[i].source \in f[n - 1] \cap InDomain /\ InScope(relations[i])}}
                         \cap live)
    <3>1. CASE n = 0
      BY <2>1, <3>1
    <3>2. CASE n # 0
      <4>1. n \in 1..MaxDepth /\ n - 1 \in 0..MaxDepth
        BY <1>1, <3>2
      <4>2. f[n] = Around[f[n - 1]] /\ f[n - 1] \in SUBSET Symbols
        BY <2>1, <4>1
      <4> QED
        BY <3>2, <4>2 DEF Around
    <3> QED
      BY <3>1, <3>2
  <2> QED
    BY <2>1, <2>2
<1>5. Recurs(ball)
  BY <1>4
<1>6. Forward(s) = ball[MaxDepth]
  BY DEF Forward
<1>7. ball[0] = {s}
  <2>1. 0 \in 0..MaxDepth
    BY <1>1
  <2> HIDE DEF ball
  <2> QED
    BY <1>5, <2>1
<1>8. ASSUME NEW n \in 1..MaxDepth, NEW y \in ball[n]
      PROVE  y \in ball[n - 1] \/ \E x \in ball[n - 1] : y \in Steps(x)
  <2>1. n \in 0..MaxDepth /\ n # 0
    BY <1>1
  <2> HIDE DEF ball
  <2>2. ball[n] = ball[n - 1] \cup
            ({relations[i].target : i \in {i \in RelationIds :
                relations[i].source \in ball[n - 1] \cap InDomain /\ InScope(relations[i])}} \cap live)
    BY <1>5, <2>1
  <2> QED
    BY <2>2 DEF Steps
<1> HIDE DEF ball
<1> QED
  BY <1>6, <1>7, <1>8

LEMMA ForwardStill ==
    ASSUME UNCHANGED <<relations, live>>
    PROVE  \A s : Forward(s)' = Forward(s)
BY DEF Forward, InScope

LEMMA StepsStill ==
    ASSUME UNCHANGED <<relations, live>>
    PROVE  \A x : Steps(x)' = Steps(x)
BY DEF Steps, InScope

LEMMA NearGrows ==
    ASSUME Entered \subseteq Entered', NEW x, NEW d, Near(x, d)
    PROVE  Near(x, d)'
BY DEF Near, LastOf, PathDepth

LEMMA EnteredFacts ==
    ASSUME FollowInv, seeds # <<>>
    PROVE  /\ seeds[1] \in Symbols /\ Root(seeds[1]) \in Entered
           /\ LastOf(Root(seeds[1])) = seeds[1] /\ PathDepth(Root(seeds[1])) = 0
           /\ \A p \in Entered :
                /\ PathDepth(p) \in Nat /\ Len(p.nodes) = PathDepth(p) + 1
                /\ LastOf(p) = seeds[1] \/ LastOf(p) \in accepted
<1>1. seeds[1] \in Symbols
  BY DEF FollowInv, SearchInv
<1>2. Root(seeds[1]) \in Entered
  BY DEF Entered
<1>3. LastOf(Root(seeds[1])) = seeds[1] /\ PathDepth(Root(seeds[1])) = 0
      /\ Len(Root(seeds[1]).nodes) = 1
  BY DEF Root, LastOf, PathDepth
<1>4. ASSUME NEW t \in traces, t.status = "accepted"
      PROVE  PathDepth(t.path) \in Nat /\ Len(t.path.nodes) = PathDepth(t.path) + 1
             /\ LastOf(t.path) \in accepted
  <2>1. Follows(t)
    BY <1>4 DEF FollowInv, TracesInv, Reached
  <2> QED
    BY <2>1 DEF Follows, Simple, PathDepth
<1>5. \A p \in Entered : p = Root(seeds[1]) \/ \E t \in traces : t.status = "accepted" /\ p = t.path
  BY DEF Entered
<1>6. ASSUME NEW p \in Entered
      PROVE  /\ PathDepth(p) \in Nat /\ Len(p.nodes) = PathDepth(p) + 1
             /\ LastOf(p) = seeds[1] \/ LastOf(p) \in accepted
  <2>1. CASE p = Root(seeds[1])
    <3>1. PathDepth(p) = 0 /\ LastOf(p) = seeds[1] /\ Len(p.nodes) = 1
      BY <1>3, <2>1
    <3> QED
      BY <3>1
  <2>2. CASE p # Root(seeds[1])
    BY <1>4, <1>5, <2>2
  <2> QED
    BY <2>1, <2>2
<1> QED
  BY <1>1, <1>2, <1>3, <1>6

\* Everything within the depth of the best seed was found once its queue is empty.
LEMMA FirstDone ==
    ASSUME FollowInv, seeds # <<>>, FirstInv, paths = <<>>
    PROVE  Forward(seeds[1]) \ {seeds[1]} \subseteq accepted
<1>1. MaxDepth \in Nat
  BY ExpansionData
<1>2. PICK ball :
        /\ Forward(seeds[1]) = ball[MaxDepth] /\ ball[0] = {seeds[1]}
        /\ \A n \in 1..MaxDepth : \A y \in ball[n] :
                y \in ball[n - 1] \/ \E x \in ball[n - 1] : y \in Steps(x)
  BY EnteredFacts, ForwardSteps DEF FollowInv, SearchInv
<1> DEFINE T == {n \in 0..MaxDepth : \E y \in ball[n] : ~Near(y, n)}
<1>3. CASE T # {}
  <2>1. T \subseteq Nat
    OBVIOUS
  <2>2. PICK n \in T : \A m \in T : n <= m
    <3> HIDE DEF T
    <3> QED
      BY <1>3, <2>1, Least
  <2>3. PICK y \in ball[n] : ~Near(y, n)
    OBVIOUS
  <2>4. n \in 0..MaxDepth
    OBVIOUS
  <2>5. CASE n = 0
    BY <1>2, <2>3, <2>5, EnteredFacts DEF Near
  <2>6. CASE n # 0
    <3>1. n \in 1..MaxDepth /\ n - 1 \in 0..MaxDepth /\ ~(n <= n - 1)
      BY <1>1, <2>4, <2>6
    <3>2. \A x \in ball[n - 1] : Near(x, n - 1)
      BY <2>2, <3>1
    <3> HIDE DEF T
    <3>3. CASE y \in ball[n - 1]
      <4>1. PICK p \in Entered : LastOf(p) = y /\ PathDepth(p) <= n - 1
        BY <3>2, <3>3 DEF Near
      <4>2. PathDepth(p) <= n
        BY <3>1, <4>1, EnteredFacts
      <4> QED
        BY <2>3, <4>1, <4>2 DEF Near
    <3>4. CASE \E x \in ball[n - 1] : y \in Steps(x)
      <4>1. PICK x \in ball[n - 1] : y \in Steps(x)
        BY <3>4
      <4>2. PICK p \in Entered : LastOf(p) = x /\ PathDepth(p) <= n - 1
        BY <3>2 DEF Near
      <4>3. ~(PathDepth(p) >= MaxDepth)
        BY <1>1, <3>1, <4>2, EnteredFacts
      <4>4. Expanded(p)
        BY <4>3 DEF FirstInv
      <4>5. PICK q \in Entered : LastOf(q) = y /\ PathDepth(q) <= PathDepth(p) + 1
        BY <4>1, <4>2, <4>4 DEF Expanded, Near
      <4>6. PathDepth(q) <= n
        BY <3>1, <4>2, <4>5, EnteredFacts
      <4> QED
        BY <2>3, <4>5, <4>6 DEF Near
    <3> QED
      BY <1>2, <3>1, <3>3, <3>4
  <2> QED
    BY <2>5, <2>6
<1>4. CASE T = {}
  <2>1. MaxDepth \in 0..MaxDepth
    BY <1>1
  <2>2. \A y \in Forward(seeds[1]) : Near(y, MaxDepth)
    BY <1>2, <1>4, <2>1
  <2> QED
    BY <2>2, EnteredFacts DEF Near
<1> QED
  BY <1>3, <1>4

\* The head leaves the queue: too deep, or all its steps are in the queue or before it.
LEMMA FirstDequeues ==
    ASSUME FollowInv, seeds # <<>>, FirstInv, UNCHANGED <<seeds, traces, relations, live>>,
           phase \in {"expanding", "reading"}, paths # <<>>, paths' = Tail(paths), phase' = "expanding",
           PathDepth(Head(paths)) >= MaxDepth \/ Expanded(Head(paths))
    PROVE  FirstInv'
<1>1. Entered' = Entered
  BY DEF Entered
<1>2. \A x, d : Near(x, d) => Near(x, d)'
  BY <1>1, NearGrows
<1>3. \A x : Steps(x)' = Steps(x)
  BY StepsStill
<1>4. DOMAIN paths = 1..Len(paths) /\ Len(paths) \in Nat
  BY DEF FollowInv, PathsInv
<1>5. /\ Len(paths) # 0 /\ Head(paths) = paths[1] /\ Len(paths') = Len(paths) - 1
      /\ \A k \in 1..Len(paths') : paths'[k] = paths[k + 1] /\ k + 1 \in 1..Len(paths)
  BY <1>4
<1>6. \A p : Expanded(p) => Expanded(p)'
  BY <1>2, <1>3 DEF Expanded, PathDepth, LastOf
<1>7. ASSUME NEW p \in Entered'
      PROVE  PathDepth(p) >= MaxDepth \/ Expanded(p)' \/ \E k \in 1..Len(paths') : paths'[k] = p
  <2>1. CASE PathDepth(p) >= MaxDepth \/ Expanded(p)
    BY <1>6, <2>1
  <2>2. CASE \E k \in 1..Len(paths) : paths[k] = p
    <3>1. PICK k \in 1..Len(paths) : paths[k] = p
      BY <2>2
    <3>2. CASE k = 1
      BY <1>5, <1>6, <3>1, <3>2
    <3>3. CASE k # 1
      <4>1. k - 1 \in 1..Len(paths') /\ (k - 1) + 1 = k
        BY <1>4, <1>5, <3>3
      <4> QED
        BY <1>5, <3>1, <4>1
    <3> QED
      BY <3>2, <3>3
  <2> QED
    BY <1>1, <2>1, <2>2 DEF FirstInv
<1>8. ASSUME NEW k \in 1..Len(paths')
      PROVE  /\ paths'[k] \in Entered'
             /\ \A p \in Entered' : PathDepth(p) <= PathDepth(paths'[k]) + 1
             /\ \A j \in 1..Len(paths') : j <= k => PathDepth(paths'[j]) <= PathDepth(paths'[k])
             /\ \A l \in 1..Len(paths'[k].nodes) : Near(paths[k].nodes[l], l - 1)'
  <2>1. paths'[k] = paths[k + 1] /\ k + 1 \in 1..Len(paths)
    BY <1>5
  <2>2. \A j \in 1..Len(paths') : j <= k => PathDepth(paths'[j]) <= PathDepth(paths'[k])
    <3> TAKE j \in 1..Len(paths')
    <3> HAVE j <= k
    <3>1. paths'[j] = paths[j + 1] /\ j + 1 \in 1..Len(paths) /\ j + 1 <= k + 1
      BY <1>4, <1>5
    <3> QED
      BY <2>1, <3>1 DEF FirstInv
  <2>3. ASSUME NEW l \in 1..Len(paths'[k].nodes) PROVE Near(paths[k].nodes[l], l - 1)'
    <3>1. Near(paths[k + 1].nodes[l], l - 1)
      BY <2>1 DEF FirstInv
    <3>2. PICK p \in Entered : LastOf(p) = paths[k + 1].nodes[l] /\ PathDepth(p) <= l - 1
      BY <3>1 DEF Near
    <3>3. LastOf(p) = paths'[k].nodes[l]
      BY <2>1, <3>2
    <3> QED
      BY <1>1, <3>2, <3>3 DEF Near, LastOf, PathDepth
  <2> QED
    BY <1>1, <2>1, <2>2, <2>3 DEF FirstInv
<1> QED
  BY <1>7, <1>8 DEF FirstInv, PathDepth

\* The relations of the head path are read.
LEMMA FirstReads ==
    ASSUME FollowInv, seeds # <<>>, FirstInv, ExpandPath, ~(PathDepth(Head(paths)) >= MaxDepth)
    PROVE  FirstInv'
<1> DEFINE path == Head(paths)
           s == LastOf(path)
           near == IF s \in InDomain
                   THEN {i \in Adjacent(s, "outgoing") : InScope(relations[i])}
                   ELSE {}
<1>1. /\ rows' = [i \in near |-> relations[i]] /\ phase' = "reading"
      /\ UNCHANGED <<paths, relations, live, seeds, traces>>
  BY DEF ExpandPath, LastOf, search, graph
<1>2. Entered' = Entered
  BY <1>1 DEF Entered
<1>3. ASSUME NEW y \in Steps(s) PROVE \E i \in DOMAIN rows' : OtherEnd(s, rows'[i]) = y
  <2>1. PICK i \in RelationIds : relations[i].target = y /\ relations[i].source = s /\ s \in InDomain
                                 /\ InScope(relations[i])
    BY <1>3 DEF Steps
  <2>2. i \in near
    BY <2>1 DEF Adjacent
  <2> HIDE DEF near
  <2>3. i \in DOMAIN rows' /\ rows'[i] = relations[i]
    BY <1>1, <2>2
  <2> QED
    BY <2>1, <2>3 DEF OtherEnd
<1>4. Head(paths') = path
  BY <1>1
<1>5. Steps(LastOf(Head(paths)))' = Steps(s)
  BY <1>1, <1>4 DEF Steps, InScope, LastOf
<1> HIDE DEF s, path, near
<1>6. \A x, d : Near(x, d) => Near(x, d)'
  BY <1>2, NearGrows
<1>7. \A p : Expanded(p) => Expanded(p)'
  BY <1>1, <1>6, StepsStill DEF Expanded, PathDepth, LastOf
<1>8. ASSUME NEW k \in 1..Len(paths')
      PROVE  /\ paths'[k] \in Entered'
             /\ \A p \in Entered' : PathDepth(p) <= PathDepth(paths'[k]) + 1
             /\ \A j \in 1..Len(paths') : j <= k => PathDepth(paths'[j]) <= PathDepth(paths'[k])
             /\ \A l \in 1..Len(paths'[k].nodes) : Near(paths[k].nodes[l], l - 1)'
  <2>1. ASSUME NEW l \in 1..Len(paths'[k].nodes) PROVE Near(paths[k].nodes[l], l - 1)'
    <3>1. Near(paths[k].nodes[l], l - 1)
      BY <1>1 DEF FirstInv
    <3> QED
      BY <1>1, <1>2, <3>1 DEF Near, LastOf, PathDepth
  <2> QED
    BY <1>1, <1>2, <2>1 DEF FirstInv
<1>9. ASSUME NEW p \in Entered'
      PROVE  PathDepth(p) >= MaxDepth \/ Expanded(p)' \/ \E k \in 1..Len(paths') : paths'[k] = p
  BY <1>1, <1>2, <1>7 DEF FirstInv
<1>10. \A y \in Steps(LastOf(Head(paths)))' :
            \E i \in DOMAIN rows' : OtherEnd(LastOf(Head(paths')), rows'[i]) = y
  BY <1>3, <1>4, <1>5 DEF s
<1> QED
  BY <1>8, <1>9, <1>10 DEF FirstInv, PathDepth, LastOf, OtherEnd

\* A step of the loop that is no cut finds the other end of its relation near enough.
LEMMA FirstFollows ==
    ASSUME FollowInv, FollowInv', seeds # <<>>, FirstInv, FollowRelation, ~Cut'
    PROVE  FirstInv'
<1> DEFINE path == Head(paths)
           d == PathDepth(path) + 1
           Later(x) == \E p \in Entered' : LastOf(p) = x /\ PathDepth(p) <= d
<1>1. /\ Followed(Next1, Status1, Longer1) /\ phase = "reading" /\ DOMAIN rows # {}
      /\ UNCHANGED <<graph, seeds, phase>>
  BY FollowedOnce
<1>2. /\ DOMAIN paths = 1..Len(paths) /\ Len(paths) \in Nat \ {0} /\ path = paths[1]
      /\ Waits(path)
  BY <1>1, ReadingFacts
<1>3. Simple(path) /\ PathDepth(path) \in Nat /\ Len(path.nodes) = d
  BY <1>2 DEF Waits, Simple, PathDepth
<1>4. FirstRow \in DOMAIN rows /\ FirstRow \in RelationIds
  BY <1>1, FirstRowIsRead DEF FollowInv, PathsInv
<1>5. Status1 # "limit"
  <2> DEFINE t == Trace(Longer1, Next1, Status1)
  <2>1. t \in traces' /\ t.status = Status1
    BY <1>1 DEF Followed, Trace
  <2> HIDE DEF t
  <2> QED
    BY <2>1 DEF Cut
<1>6. rows' = [j \in DOMAIN rows \ {FirstRow} |-> rows[j]]
  BY <1>1, <1>5 DEF Followed
<1>7. Entered' = IF Status1 = "accepted" THEN Entered \cup {Longer1} ELSE Entered
  <2> DEFINE t == Trace(Longer1, Next1, Status1)
  <2>1. traces' = traces \cup {t} /\ t.path = Longer1 /\ t.status = Status1
    BY <1>1 DEF Followed, Trace
  <2> HIDE DEF t
  <2>2. CASE Status1 = "accepted"
    BY <1>1, <2>1, <2>2 DEF Entered
  <2>3. CASE Status1 # "accepted"
    BY <1>1, <2>1, <2>3 DEF Entered
  <2> QED
    BY <2>2, <2>3
<1>8. Status1 = "accepted" =>
        /\ LastOf(Longer1) = Next1 /\ PathDepth(Longer1) = d
        /\ Len(Longer1.nodes) = Len(path.nodes) + 1
        /\ \A k \in 1..Len(path.nodes) : Longer1.nodes[k] = path.nodes[k]
  BY <1>3, <1>4, StatusFacts, LongerIsSimple DEF Longer1
<1>9. \A x, e : Near(x, e) => Near(x, e)'
  BY <1>7, NearGrows
<1>10. UNCHANGED <<relations, live>>
  BY <1>1 DEF graph
<1>11. \A p : Expanded(p) => Expanded(p)'
  BY <1>9, <1>10, StepsStill DEF Expanded, PathDepth, LastOf
<1>12. /\ paths' = IF Status1 = "accepted" THEN Append(paths, Longer1) ELSE paths
       /\ Len(paths') \in Nat /\ Len(paths) <= Len(paths') /\ Len(paths') # 0
       /\ \A k \in 1..Len(paths) : paths'[k] = paths[k]
       /\ Head(paths') = path
       /\ \A k \in 1..Len(paths') :
            k \in 1..Len(paths) \/ (Status1 = "accepted" /\ paths'[k] = Longer1 /\ k = Len(paths) + 1)
  <2>1. paths' = IF Status1 = "accepted" THEN Append(paths, Longer1) ELSE paths
    BY <1>1 DEF Followed
  <2> HIDE DEF Longer1, Status1
  <2>2. CASE Status1 = "accepted"
    <3>1. Len(paths') = Len(paths) + 1 /\ paths'[Len(paths) + 1] = Longer1
          /\ \A k \in 1..Len(paths) : paths'[k] = paths[k]
      BY <1>2, <2>1, <2>2
    <3>2. Head(paths') = paths'[1]
      BY <1>2, <2>1, <2>2
    <3> HIDE DEF path
    <3> QED
      BY <1>2, <2>1, <2>2, <3>1, <3>2
  <2>3. CASE Status1 # "accepted"
    BY <1>2, <2>1, <2>3
  <2> QED
    BY <2>2, <2>3
<1> HIDE DEF path, Status1, Next1, Longer1
\* Whatever was entered lies at most one step farther than the head.
<1>13. \A p \in Entered : PathDepth(p) <= d
  BY <1>2 DEF FirstInv, d
<1>14. \A p \in Entered' : PathDepth(p) <= d
  BY <1>3, <1>7, <1>8, <1>13 DEF d
<1>15. \A p \in Entered' : PathDepth(p) \in Nat
  BY <1>3, <1>7, <1>8, EnteredFacts DEF d
<1>16. \A x : Near(x, d) => Later(x)
  BY <1>7 DEF Near
<1>17. ASSUME Next1 \in Steps(LastOf(path)) PROVE Later(Next1)
  <2>1. Next1 \in live
    BY <1>17 DEF Steps
  <2>2. Status1 \in {"cycle", "duplicate", "accepted"}
    BY <1>5, <2>1, StatusFacts
  <2>3. CASE Status1 = "accepted"
    <3>1. Longer1 \in Entered' /\ LastOf(Longer1) = Next1 /\ PathDepth(Longer1) <= d
      BY <1>7, <1>8, <1>14, <2>3
    <3> QED
      BY <3>1
  <2>4. CASE Status1 = "duplicate"
    <3>1. Next1 \in accepted
      BY <2>4, StatusFacts
    <3>2. PICK t \in traces : t.status = "accepted" /\ t.symbol = Next1
      BY <3>1 DEF FollowInv, TracesInv
    <3>3. t.path \in Entered /\ LastOf(t.path) = Next1
      BY <3>2 DEF Entered, FollowInv, TracesInv, Reached, Follows
    <3>4. Near(Next1, d)
      BY <1>13, <3>3 DEF Near
    <3> QED
      BY <1>16, <3>4
  <2>5. CASE Status1 = "cycle"
    <3>1. Next1 \in Elements(path.nodes)
      BY <2>5, StatusFacts DEF path
    <3>2. PICK l \in 1..Len(path.nodes) : path.nodes[l] = Next1
      BY <1>3, <3>1 DEF Elements, Simple
    <3>3. Near(Next1, l - 1)
      BY <1>2, <3>2 DEF FirstInv
    <3>4. PICK p \in Entered : LastOf(p) = Next1 /\ PathDepth(p) <= l - 1
      BY <3>3 DEF Near
    <3>5. PathDepth(p) <= d
      BY <1>13
    <3>6. Near(Next1, d)
      BY <3>4, <3>5 DEF Near
    <3> QED
      BY <1>16, <3>6
  <2> QED
    BY <2>2, <2>3, <2>4, <2>5
<1>18. ASSUME NEW y \in Steps(LastOf(path))
       PROVE  Later(y) \/ \E i \in DOMAIN rows' : OtherEnd(LastOf(path), rows'[i]) = y
  <2>1. CASE Near(y, d)
    BY <1>16, <2>1
  <2>2. CASE \E i \in DOMAIN rows : OtherEnd(LastOf(path), rows[i]) = y
    <3>1. PICK i \in DOMAIN rows : OtherEnd(LastOf(path), rows[i]) = y
      BY <2>2
    <3>2. CASE i = FirstRow
      <4>1. y = Next1
        BY <3>1, <3>2 DEF Next1, path
      <4>2. Next1 \in Steps(LastOf(path))
        BY <4>1
      <4> QED
        BY <1>17, <4>1, <4>2
    <3>3. CASE i # FirstRow
      BY <1>6, <3>1, <3>3
    <3> QED
      BY <3>2, <3>3
  <2> QED
    BY <1>1, <2>1, <2>2 DEF FirstInv, path, d
<1>19. \A y \in Steps(LastOf(Head(paths)))' :
            \/ Near(y, PathDepth(Head(paths)) + 1)'
            \/ \E i \in DOMAIN rows' : OtherEnd(LastOf(Head(paths')), rows'[i]) = y
  <2>1. Steps(LastOf(Head(paths)))' = Steps(LastOf(path))
    BY <1>10, <1>12 DEF Steps, InScope, LastOf
  <2>2. \A y : Later(y) => Near(y, PathDepth(Head(paths)) + 1)'
    BY <1>12 DEF Near, d, LastOf, PathDepth
  <2> QED
    BY <1>12, <1>18, <2>1, <2>2
<1>20. ASSUME NEW p \in Entered'
       PROVE  PathDepth(p) >= MaxDepth \/ Expanded(p)' \/ \E k \in 1..Len(paths') : paths'[k] = p
  <2>1. CASE p \in Entered
    <3>1. PathDepth(p) >= MaxDepth \/ Expanded(p) \/ \E k \in 1..Len(paths) : paths[k] = p
      BY <2>1 DEF FirstInv
    <3>2. \A k \in 1..Len(paths) : k \in 1..Len(paths')
      BY <1>2, <1>12
    <3> QED
      BY <1>11, <1>12, <3>1, <3>2
  <2>2. CASE p \notin Entered
    <3>1. p = Longer1 /\ Status1 = "accepted"
      BY <1>7, <2>2
    <3>2. Len(paths') = Len(paths) + 1 /\ paths'[Len(paths) + 1] = Longer1
      BY <1>2, <1>12, <3>1
    <3>3. Len(paths) + 1 \in 1..Len(paths')
      BY <1>2, <3>2
    <3> QED
      BY <3>1, <3>2, <3>3
  <2> QED
    BY <2>1, <2>2
<1>21. \A j \in 1..Len(paths') : paths'[j] \in Entered' /\ PathDepth(paths'[j]) <= d
  <2> TAKE j \in 1..Len(paths')
  <2>1. CASE j \in 1..Len(paths)
    BY <1>7, <1>12, <1>14, <2>1 DEF FirstInv
  <2>2. CASE j \notin 1..Len(paths)
    BY <1>7, <1>12, <1>14, <2>2
  <2> QED
    BY <2>1, <2>2
<1>22. ASSUME NEW k \in 1..Len(paths')
       PROVE  /\ \A p \in Entered' : PathDepth(p) <= PathDepth(paths'[k]) + 1
              /\ \A j \in 1..Len(paths') : j <= k => PathDepth(paths'[j]) <= PathDepth(paths'[k])
  <2>1. CASE k \in 1..Len(paths)
    <3>1. PathDepth(path) <= PathDepth(paths[k])
      BY <1>2, <2>1 DEF FirstInv
    <3>2. PathDepth(paths[k]) \in Nat
      BY <2>1, EnteredFacts DEF FirstInv
    <3>3. \A p \in Entered' : PathDepth(p) <= PathDepth(paths[k]) + 1
      BY <1>3, <1>14, <1>15, <3>1, <3>2 DEF d
    <3>4. \A j \in 1..Len(paths') : j <= k => PathDepth(paths'[j]) <= PathDepth(paths'[k])
      <4> TAKE j \in 1..Len(paths')
      <4> HAVE j <= k
      <4>1. j \in 1..Len(paths)
        BY <1>2, <2>1
      <4> QED
        BY <1>12, <2>1, <4>1 DEF FirstInv
    <3> QED
      BY <1>12, <2>1, <3>3, <3>4
  <2>2. CASE k \notin 1..Len(paths)
    <3>1. PathDepth(paths'[k]) = d
      BY <1>8, <1>12, <2>2
    <3>2. \A p \in Entered' : PathDepth(p) <= d + 1
      BY <1>3, <1>14, <1>15 DEF d
    <3> QED
      BY <1>21, <3>1, <3>2
  <2> QED
    BY <2>1, <2>2
<1>23. ASSUME NEW k \in 1..Len(paths'), NEW l \in 1..Len(paths'[k].nodes)
       PROVE  Near(paths[k].nodes[l], l - 1)'
  <2>1. \E p \in Entered' : LastOf(p) = paths'[k].nodes[l] /\ PathDepth(p) <= l - 1
    <3>1. CASE k \in 1..Len(paths)
      <4>1. paths'[k] = paths[k]
        BY <1>12, <3>1
      <4>2. Near(paths[k].nodes[l], l - 1)
        BY <3>1, <4>1 DEF FirstInv
      <4> QED
        BY <1>7, <4>1, <4>2 DEF Near
    <3>2. CASE k \notin 1..Len(paths)
      <4>1. paths'[k] = Longer1 /\ Status1 = "accepted" /\ Longer1 \in Entered'
        BY <1>7, <1>12, <3>2
      <4>2. CASE l \in 1..Len(path.nodes)
        <5>1. Near(path.nodes[l], l - 1)
          BY <1>2, <4>2, SMTT(20) DEF FirstInv
        <5> QED
          BY <1>7, <1>8, <4>1, <4>2, <5>1 DEF Near
      <4>3. CASE l \notin 1..Len(path.nodes)
        <5>1. l = Len(Longer1.nodes) /\ l - 1 = d
          BY <1>3, <1>8, <4>1, <4>3 DEF d
        <5>2. LastOf(Longer1) = paths'[k].nodes[l]
          BY <4>1, <5>1 DEF LastOf
        <5> QED
          BY <1>14, <4>1, <5>1, <5>2
      <4> QED
        BY <4>2, <4>3
    <3> QED
      BY <3>1, <3>2
  <2> QED
    BY <2>1 DEF Near, LastOf, PathDepth
<1> QED
  BY <1>19, <1>20, <1>21, <1>22, <1>23 DEF FirstInv, PathDepth, LastOf, OtherEnd

LEMMA FirstStill ==
    ASSUME FirstInv, UNCHANGED <<seeds, traces, relations, live, paths, rows, phase>>
    PROVE  FirstInv'
<1>1. Entered' = Entered
  BY DEF Entered
<1>2. \A x, d : Near(x, d) => Near(x, d)'
  BY <1>1, NearGrows
<1>3. \A p : Expanded(p) => Expanded(p)'
  BY <1>2, StepsStill DEF Expanded, PathDepth, LastOf
<1>5. ASSUME NEW k \in 1..Len(paths), NEW l \in 1..Len(paths[k].nodes)
      PROVE  Near(paths[k].nodes[l], l - 1)'
  <2>1. Near(paths[k].nodes[l], l - 1)
    BY DEF FirstInv
  <2> QED
    BY <1>1, <2>1 DEF Near, LastOf, PathDepth
<1>6. Steps(LastOf(Head(paths)))' = Steps(LastOf(Head(paths)))
  BY DEF Steps, InScope, LastOf
<1>7. Head(paths') = Head(paths)
  OBVIOUS
<1>8. ASSUME phase = "reading", NEW y \in Steps(LastOf(Head(paths)))
      PROVE  \/ Near(y, PathDepth(Head(paths)) + 1)'
             \/ \E i \in DOMAIN rows' : OtherEnd(LastOf(Head(paths')), rows'[i]) = y
  <2>1. CASE Near(y, PathDepth(Head(paths)) + 1)
    BY <1>1, <1>7, <2>1 DEF Near, LastOf, PathDepth
  <2>2. CASE ~Near(y, PathDepth(Head(paths)) + 1)
    BY <1>7, <1>8, <2>2 DEF FirstInv
  <2> QED
    BY <2>1, <2>2
<1> QED
  BY <1>1, <1>3, <1>5, <1>6, <1>8 DEF FirstInv, LastOf, PathDepth, OtherEnd

LEMMA BestStarts == GraphInit /\ ExpandInit => BestInv
BY DEF ExpandInit, NoExpansion, BestInv

LEMMA CutIsTold ==
    ASSUME FollowInv, BestInv, ExpandStep
    PROVE  traces \subseteq traces' /\ (full' => Cut')
<1>1. CASE FollowRelation
  <2> DEFINE t == Trace(Longer1, Next1, Status1)
  <2>1. traces' = traces \cup {t} /\ full' = (Status1 = "limit") /\ t.status = Status1
    BY <1>1, FollowedOnce DEF Followed, Trace
  <2> HIDE DEF t
  <2> QED
    BY <2>1 DEF Cut
<1>2. CASE ~FollowRelation
  <2>1. full' = full /\ traces \subseteq traces'
    BY <1>2 DEF ExpandStep, SeedCandidate, SeedsFound, NextSeed, ExpandPath, NeighborLimit, PathDone,
                SeedDone, StartResolving, ResolveSymbol, EnrichSymbol, Retrieve, expansion
  <2> QED
    BY <2>1 DEF BestInv, Cut
<1> QED
  BY <1>1, <1>2

\* The first seed is put in the queue.
LEMMA FirstStarts ==
    ASSUME FollowInv, StillInv, edits = 0, seeds # <<>>, NextSeed, seedNo = 1
    PROVE  FirstInv' /\ phase' = "expanding" /\ seedNo' = 1
<1> DEFINE r == Root(seeds[1])
<1>1. phase = "seed" /\ traces = {} /\ seedNo \in 1..(Len(seeds) + 1)
      /\ UNCHANGED <<graph, candidates, seeds>>
  BY DEF NextSeed, FollowInv, SearchInv, search
<1>2. seeds[1] \in live /\ ~(seedNo > MaxSeeds)
  <2>1. 1 \in DOMAIN seeds
    BY DEF FollowInv, SearchInv
  <2> QED
    BY <2>1, ExpansionData DEF StillInv, Elements
<1>3. paths' = <<r>> /\ phase' = "expanding" /\ UNCHANGED <<traces, seedNo>>
  BY <1>2 DEF NextSeed
<1>4. LastOf(r) = seeds[1] /\ PathDepth(r) = 0 /\ Len(r.nodes) = 1 /\ r.nodes[1] = seeds[1]
  BY DEF Root, LastOf, PathDepth
<1>5. Entered' = {r}
  BY <1>1, <1>3 DEF Entered
<1>6. Len(paths') = 1 /\ paths'[1] = r
  BY <1>3
<1> HIDE DEF r
<1>7. \A k \in 1..Len(paths') : k = 1
  BY <1>6
<1>8. \A k \in 1..Len(paths') : \A l \in 1..Len(paths'[k].nodes) : l = 1 /\ paths'[k].nodes[l] = LastOf(r)
  BY <1>4, <1>6, <1>7
<1>9. \A k \in 1..Len(paths') : \A l \in 1..Len(paths'[k].nodes) : Near(paths[k].nodes[l], l - 1)'
  <2>1. ASSUME NEW k \in 1..Len(paths'), NEW l \in 1..Len(paths'[k].nodes)
        PROVE  Near(paths[k].nodes[l], l - 1)'
    <3>1. \E p \in Entered' : LastOf(p) = paths'[k].nodes[l] /\ PathDepth(p) <= l - 1
      BY <1>4, <1>5, <1>8
    <3> QED
      BY <3>1 DEF Near, LastOf, PathDepth
  <2> QED
    BY <2>1
<1>10. \A p \in Entered' : \E k \in 1..Len(paths') : paths'[k] = p
  BY <1>5, <1>6
<1>11. ASSUME NEW k \in 1..Len(paths')
       PROVE  /\ paths'[k] \in Entered'
              /\ \A p \in Entered' : PathDepth(p) <= PathDepth(paths'[k]) + 1
              /\ \A j \in 1..Len(paths') : j <= k => PathDepth(paths'[j]) <= PathDepth(paths'[k])
  BY <1>4, <1>5, <1>6, <1>7
<1> QED
  BY <1>1, <1>3, <1>9, <1>10, <1>11 DEF FirstInv, PathDepth

\* One step while the tables are still and nothing was cut.
LEMMA BestMoves ==
    ASSUME FollowInv, FollowInv', StillInv, BestInv, ExpandStep, edits = 0, ~Cut, ~Cut', seeds' # <<>>
    PROVE  /\ phase' \in {"expanding", "reading"} /\ seedNo' = 1 => FirstInv'
           /\ seedNo' > 1 => Forward(seeds[1])' \ {seeds'[1]} \subseteq accepted'
<1>1. UNCHANGED <<relations, live>>
  BY DEF ExpandStep, SeedCandidate, SeedsFound, NextSeed, ExpandPath, FollowRelation, NeighborLimit,
         PathDone, SeedDone, StartResolving, ResolveSymbol, EnrichSymbol, Retrieve, graph
<1>2. CASE SeedCandidate \/ SeedsFound
  <2>1. phase = "seeding" /\ phase' \in {"seeding", "seed"} /\ UNCHANGED seedNo
    BY <1>2 DEF SeedCandidate, SeedsFound, expansion
  <2>2. seedNo' = 1
    BY <2>1 DEF FollowInv, SearchInv
  <2> QED
    BY <2>1, <2>2
<1>3. CASE ~(SeedCandidate \/ SeedsFound)
  <2>1. UNCHANGED seeds
    BY <1>3 DEF ExpandStep, NextSeed, ExpandPath, FollowRelation, NeighborLimit,
                PathDone, SeedDone, StartResolving, ResolveSymbol, EnrichSymbol, Retrieve, search
  <2>2. seedNo \in Nat \ {0} /\ Len(seeds) \in Nat
    BY DEF FollowInv, SearchInv
  <2>3. Forward(seeds[1])' = Forward(seeds[1])
    BY <1>1, <2>1 DEF Forward, InScope
  <2>4. seedNo' = seedNo \/ seedNo' = seedNo + 1
    BY <1>3 DEF ExpandStep, NextSeed, ExpandPath, FollowRelation, NeighborLimit,
                PathDone, SeedDone, StartResolving, ResolveSymbol, EnrichSymbol, Retrieve, expansion
  <2>5. accepted \subseteq accepted'
    <3>1. CASE FollowRelation
      BY <3>1, FollowedOnce DEF Followed
    <3>2. CASE ~FollowRelation
      BY <1>3, <3>2 DEF ExpandStep, NextSeed, ExpandPath, NeighborLimit,
                PathDone, SeedDone, StartResolving, ResolveSymbol, EnrichSymbol, Retrieve, expansion
    <3> QED
      BY <3>1, <3>2
  <2>6. CASE seedNo > 1
    <3>1. Forward(seeds[1]) \ {seeds[1]} \subseteq accepted
      BY <2>1, <2>6 DEF BestInv
    <3>2. seedNo' # 1
      BY <2>2, <2>4, <2>6
    <3> QED
      BY <2>1, <2>3, <2>5, <3>1, <3>2
  <2>7. CASE seedNo = 1
    <3>1. CASE NextSeed
      BY <2>1, <2>7, <3>1, FirstStarts
    <3>2. CASE ExpandPath \/ PathDone
      <4>1. FirstInv /\ seedNo' = seedNo
        BY <2>1, <2>7, <3>2 DEF BestInv, ExpandPath, PathDone
      <4>2. CASE ExpandPath /\ PathDepth(Head(paths)) >= MaxDepth
        <5>1. FirstInv'
          BY <1>1, <2>1, <4>1, <4>2, FirstDequeues DEF ExpandPath
        <5> QED
          BY <2>7, <4>1, <5>1
      <4>3. CASE ExpandPath /\ ~(PathDepth(Head(paths)) >= MaxDepth)
        BY <2>1, <2>7, <4>1, <4>3, FirstReads
      <4>4. CASE PathDone
        <5>1. paths # <<>>
          BY <4>4 DEF PathDone, FollowInv, PathsInv
        <5>2. Expanded(Head(paths))
          BY <4>1, <4>4 DEF PathDone, FirstInv, Expanded
        <5>3. FirstInv'
          BY <1>1, <2>1, <4>1, <4>4, <5>1, <5>2, FirstDequeues DEF PathDone
        <5> QED
          BY <2>7, <4>1, <5>3
      <4> QED
        BY <3>2, <4>2, <4>3, <4>4
    <3>3. CASE FollowRelation
      <4>1. FirstInv /\ seedNo' = seedNo
        BY <2>1, <2>7, <3>3 DEF BestInv, FollowRelation
      <4> QED
        BY <2>1, <2>7, <3>3, <4>1, FirstFollows
    <3>4. CASE NeighborLimit
      <4> DEFINE t == Trace([Head(paths) EXCEPT !.rels = Append(@, FirstRow)], rows[FirstRow].target, "limit")
      <4>1. t \in traces' /\ t.status = "limit"
        BY <3>4 DEF NeighborLimit, FirstRow, Trace
      <4> HIDE DEF t
      <4> QED
        BY <4>1 DEF Cut
    <3>5. CASE SeedDone
      <4>1. FirstInv /\ seedNo' = 2 /\ phase' = "seed" /\ UNCHANGED accepted
        BY <2>1, <2>7, <3>5 DEF BestInv, SeedDone
      <4>2. paths = <<>>
        BY <3>5 DEF SeedDone, BestInv
      <4>3. Forward(seeds[1]) \ {seeds[1]} \subseteq accepted
        BY <2>1, <4>1, <4>2, FirstDone
      <4> QED
        BY <2>1, <2>3, <4>1, <4>3
    <3>6. CASE StartResolving \/ ResolveSymbol \/ EnrichSymbol \/ Retrieve
      <4>1. phase' \in {"resolving", "done"} /\ UNCHANGED seedNo
        BY <3>6 DEF StartResolving, ResolveSymbol, EnrichSymbol, Retrieve, expansion
      <4> QED
        BY <2>7, <4>1
    <3> QED
      BY <1>3, <3>1, <3>2, <3>3, <3>4, <3>5, <3>6 DEF ExpandStep
  <2> QED
    BY <2>2, <2>6, <2>7
<1> QED
  BY <1>2, <1>3

LEMMA BestStepKeeps ==
    FollowInv /\ FollowInv' /\ StillInv /\ BestInv /\ [ExpandNext]_<<graph, expandVars>> => BestInv'
<1> SUFFICES ASSUME FollowInv, FollowInv', StillInv, BestInv, [ExpandNext]_<<graph, expandVars>>
             PROVE  BestInv'
  OBVIOUS
<1>1. CASE ExpandStep
  <2>1. traces \subseteq traces' /\ (full' => Cut')
    BY <1>1, CutIsTold
  <2>2. edits' = edits /\ (Cut => Cut')
    BY <1>1, <2>1 DEF ExpandStep, SeedCandidate, SeedsFound, NextSeed, ExpandPath, FollowRelation,
         NeighborLimit, PathDone, SeedDone, StartResolving, ResolveSymbol, EnrichSymbol, Retrieve, graph, Cut
  <2>3. edits' = 0 /\ ~Cut' /\ seeds' # <<>> =>
            /\ phase' \in {"expanding", "reading"} /\ seedNo' = 1 => FirstInv'
            /\ seedNo' > 1 => Forward(seeds[1])' \ {seeds'[1]} \subseteq accepted'
    BY <1>1, <2>2, BestMoves
  <2> QED
    BY <2>1, <2>3 DEF BestInv
<1>2. CASE ExpandDisturbed
  <2>1. edits' # 0 /\ UNCHANGED <<full, traces>>
    BY <1>2, EditsCount DEF FollowInv, SearchInv, ExpandDisturbed, Withdraw, expandVars, expansion
  <2> QED
    BY <2>1 DEF BestInv, Cut
<1>3. CASE UNCHANGED <<graph, expandVars>>
  <2>1. UNCHANGED <<edits, live, relations, accepted, seeds, seedNo, phase, traces, paths, rows, full>>
    BY <1>3 DEF graph, expandVars
  <2>2. Forward(seeds[1])' = Forward(seeds[1])
    BY <2>1 DEF Forward, InScope
  <2>3. Cut' = Cut
    BY <2>1 DEF Cut
  <2>4. FirstInv => FirstInv'
    BY <2>1, FirstStill
  <2> QED
    BY <2>1, <2>2, <2>3, <2>4 DEF BestInv
<1> QED
  BY <1>1, <1>2, <1>3 DEF ExpandNext

\* A search whose expansion says nothing of a limit accepted every symbol within the depth of
\* its best seed: the queue hands the paths out nearest first, and what a path meets again was
\* accepted near enough for its own steps to be followed.
THEOREM BestSeedWhole == ExpandSpec => []BestSeedIsComplete
<1>1. FollowInv /\ BestInv => BestSeedIsComplete
  <2> SUFFICES ASSUME FollowInv, BestInv, edits = 0, phase = "done", \A t \in traces : t.status # "limit",
                      NEW k \in {1} \cap DOMAIN seeds
               PROVE  Forward(seeds[k]) \ {seeds[k]} \subseteq accepted
    BY DEF BestSeedIsComplete
  <2>1. seedNo = Len(seeds) + 1 /\ seeds \in Seq(Symbols) /\ k = 1
    BY DEF FollowInv, SearchInv
  <2>2. seeds # <<>> /\ seedNo > 1
    BY <2>1
  <2> QED
    BY <2>1, <2>2 DEF BestInv, Cut
<1>2. /\ FollowInv /\ StillInv /\ BestInv /\ [ExpandNext]_<<graph, expandVars>>
      => (FollowInv /\ StillInv /\ BestInv)'
  BY FollowStepKeeps, StillStepKeeps, BestStepKeeps
<1> QED
  BY <1>1, <1>2, FollowStarts, StillStarts, BestStarts, PTL DEF ExpandSpec

-----------------------------------------------------------------------------
(* What describe and impact show is whole.                                   *)

Known(y, d) == y \in DOMAIN nodes /\ nodes[y] <= d
Handled(s) == \A y \in Neighbours(s, walks[1]) : Known(y, nodes[s] + 1)

\* The nodes lie where the graph has them, and no more of them than asked for.
NodesInv(ball) ==
    /\ seed \in DOMAIN nodes /\ nodes[seed] = 0
    /\ \A s \in DOMAIN nodes : nodes[s] <= query.depth /\ s \in ball[nodes[s]]
    /\ Cardinality(DOMAIN nodes) <= query.limit
    /\ limitReached =>
        Cardinality(DOMAIN nodes) >= query.limit /\ ball[query.depth] \ DOMAIN nodes # {}

\* The queue is in the order of the depths, and holds what was not handled.
QueueInv ==
    /\ ~limitReached =>
        \A s \in DOMAIN nodes :
            nodes[s] >= query.depth \/ Handled(s) \/ \E k \in 1..Len(queue) : queue[k].symbol = s
    /\ \A k \in 1..Len(queue) :
        /\ \A s \in DOMAIN nodes : nodes[s] <= Depth(queue[k]) + 1
        /\ \A j \in 1..Len(queue) : j <= k => Depth(queue[j]) <= Depth(queue[k])
        /\ \A l \in 1..Len(queue[k].path) : Known(queue[k].path[l], l - 1)

\* The relations of the head that are still to follow are those of its neighbours.
HeadInv ==
    LET s == Head(queue).symbol IN
    /\ Depth(Head(queue)) < query.depth
    /\ \A i \in DOMAIN adjacent :
        OtherEnd(s, adjacent[i]) \in live => OtherEnd(s, adjacent[i]) \in Neighbours(s, walks[1])
    /\ ~limitReached =>
        \A y \in Neighbours(s, walks[1]) :
            \/ Known(y, Depth(Head(queue)) + 1)
            \/ \E i \in DOMAIN adjacent : OtherEnd(s, adjacent[i]) = y

Whole(w) ==
    LET ball == Ball(w.direction) IN
    /\ Cardinality(DOMAIN w.nodes) <= query.limit
    /\ w.limitReached => ball[query.depth] \ DOMAIN w.nodes # {}
    /\ ~w.limitReached =>
        /\ DOMAIN w.nodes = ball[query.depth]
        /\ \A s \in DOMAIN w.nodes : \A n \in 0..5 : s \in ball[n] <=> w.nodes[s] <= n

Walking == walkPhase \in {"walking", "expanding"}

WalksInv ==
    /\ walks \in Seq(Directions)
    /\ walkPhase \in {"idle", "resolved", "walking", "expanding"} => walks # <<>>
    /\ DOMAIN finished = 1..Len(finished) /\ Len(finished) \in Nat
    /\ walkPhase = "idle" => finished = <<>>
    /\ Walking \/ finished # <<>> => ValidLimits(query) /\ seed \in Symbols
    /\ \A k \in 1..Len(finished) : finished[k].direction \in Directions

WholeInv ==
    edits = 0 =>
        /\ Walking => NodesInv(Ball(walks[1])) /\ QueueInv
        /\ walkPhase = "expanding" => HeadInv
        /\ \A k \in 1..Len(finished) : Whole(finished[k])

Closer(direction) ==
    [X \in SUBSET Symbols |-> X \cup UNION {Neighbours(s, direction) : s \in X}]

LEMMA BallSteps ==
    ASSUME GraphTypeOK, seed \in Symbols, NEW direction
    PROVE  /\ Ball(direction)[0] = {seed}
           /\ \A n \in 1..5 : Ball(direction)[n] =
                Ball(direction)[n - 1] \cup UNION {Neighbours(s, direction) : s \in Ball(direction)[n - 1]}
<1>1. Closer(direction) \in [SUBSET Symbols -> SUBSET Symbols]
  <2>1. \A s : Neighbours(s, direction) \subseteq Symbols
    BY DEF Neighbours, GraphTypeOK
  <2> QED
    BY <2>1 DEF Closer
<1>2. PICK f : IsBall(f, Closer(direction), {seed}, 5, Symbols)
  BY <1>1, BallExists
<1> DEFINE Recurs(g) == g = [n \in 0..5 |->
            IF n = 0 THEN {seed}
            ELSE g[n - 1] \cup UNION {Neighbours(s, direction) : s \in g[n - 1]}]
           ball == CHOOSE g : Recurs(g)
<1>3. Recurs(f)
  <2>1. f \in [0..5 -> SUBSET Symbols] /\ f[0] = {seed}
        /\ \A n \in 1..5 : f[n] = Closer(direction)[f[n - 1]]
    BY <1>2 DEF IsBall
  <2>2. ASSUME NEW n \in 0..5
        PROVE  f[n] = IF n = 0 THEN {seed}
                      ELSE f[n - 1] \cup UNION {Neighbours(s, direction) : s \in f[n - 1]}
    <3>1. CASE n = 0
      BY <2>1, <3>1
    <3>2. CASE n # 0
      <4>1. n \in 1..5 /\ n - 1 \in 0..5
        BY <3>2
      <4>2. f[n] = Closer(direction)[f[n - 1]] /\ f[n - 1] \in SUBSET Symbols
        BY <2>1, <4>1
      <4> QED
        BY <3>2, <4>2 DEF Closer
    <3> QED
      BY <3>1, <3>2
  <2> QED
    BY <2>1, <2>2
<1>4. Recurs(ball)
  BY <1>3
<1>5. Ball(direction) = ball
  BY DEF Ball
<1> HIDE DEF ball
<1>6. ball[0] = {seed}
  BY <1>4
<1>7. ASSUME NEW n \in 1..5
      PROVE  ball[n] = ball[n - 1] \cup UNION {Neighbours(s, direction) : s \in ball[n - 1]}
  <2>1. n \in 0..5 /\ n # 0
    OBVIOUS
  <2> QED
    BY <1>4, <2>1
<1> QED
  BY <1>5, <1>6, <1>7

LEMMA BallGrows ==
    ASSUME GraphTypeOK, seed \in Symbols, NEW direction, NEW m \in 0..5, NEW n \in 0..5, m <= n
    PROVE  Ball(direction)[m] \subseteq Ball(direction)[n]
<1> DEFINE b == Ball(direction)
<1>1. \A k \in 1..5 : b[k - 1] \subseteq b[k]
  BY BallSteps
<1> HIDE DEF b
<1>2. b[0] \subseteq b[1] /\ b[1] \subseteq b[2] /\ b[2] \subseteq b[3] /\ b[3] \subseteq b[4] /\ b[4] \subseteq b[5]
  <2>1. 1 - 1 = 0 /\ 2 - 1 = 1 /\ 3 - 1 = 2 /\ 4 - 1 = 3 /\ 5 - 1 = 4
    OBVIOUS
  <2> QED
    BY <1>1, <2>1
<1>3. b[m] \subseteq b[n]
  <2>1. m \in {0, 1, 2, 3, 4, 5} /\ n \in {0, 1, 2, 3, 4, 5}
    OBVIOUS
  <2> QED
    BY <1>2, <2>1
<1> QED
  BY <1>3 DEF b

LEMMA BallStill ==
    ASSUME UNCHANGED <<relations, live, seed, query>>
    PROVE  \A direction : Ball(direction)' = Ball(direction)
BY DEF Ball, Neighbours, Adjacent, Passes, OtherEnd

LEMMA NeighboursStill ==
    ASSUME UNCHANGED <<relations, live, query>>
    PROVE  \A s, direction : Neighbours(s, direction)' = Neighbours(s, direction)
BY DEF Neighbours, Adjacent, Passes, OtherEnd

LEMMA WholeStill ==
    ASSUME UNCHANGED <<relations, live, seed, query>>
    PROVE  \A w : Whole(w) => Whole(w)'
BY BallStill DEF Whole

\* A walk that is over, with an empty queue and no cut, is exactly the ball.
LEMMA UncutIsWhole ==
    ASSUME WalkInv, seed \in Symbols, ValidLimits(query),
           NodesInv(Ball(walks[1])), QueueInv, queue = <<>>, ~limitReached
    PROVE  /\ DOMAIN nodes = Ball(walks[1])[query.depth]
           /\ \A s \in DOMAIN nodes : \A n \in 0..5 : s \in Ball(walks[1])[n] <=> nodes[s] <= n
<1> DEFINE b == Ball(walks[1])
           depth == query.depth
<1>1. depth \in 0..5 /\ GraphTypeOK /\ \A s \in DOMAIN nodes : nodes[s] \in Nat
  BY DEF ValidLimits, WalkInv, WalkTypeOK
<1>2. /\ b[0] = {seed}
      /\ \A n \in 1..5 : b[n] = b[n - 1] \cup UNION {Neighbours(s, walks[1]) : s \in b[n - 1]}
  BY <1>1, BallSteps
<1>3. \A m, n \in 0..5 : m <= n => b[m] \subseteq b[n]
  BY <1>1, BallGrows
<1>4. \A s \in DOMAIN nodes : nodes[s] <= depth /\ s \in b[nodes[s]]
  BY DEF NodesInv
<1>5. seed \in DOMAIN nodes /\ nodes[seed] = 0
  BY DEF NodesInv
<1>6. \A s \in DOMAIN nodes : nodes[s] >= depth \/ Handled(s)
  BY DEF QueueInv
<1> HIDE DEF b, depth
<1> DEFINE T == {n \in 0..depth : \E y \in b[n] : ~Known(y, n)}
<1>7. CASE T # {}
  <2>1. T \subseteq Nat
    OBVIOUS
  <2>2. PICK n \in T : \A m \in T : n <= m
    <3> HIDE DEF T
    <3> QED
      BY <1>7, <2>1, Least
  <2>3. PICK y \in b[n] : ~Known(y, n)
    OBVIOUS
  <2>4. n \in 0..depth
    OBVIOUS
  <2>5. CASE n = 0
    BY <1>2, <1>5, <2>3, <2>5 DEF Known
  <2>6. CASE n # 0
    <3>1. n \in 1..5 /\ n - 1 \in 0..depth /\ ~(n <= n - 1) /\ n <= depth /\ n \in Nat
      BY <1>1, <2>4, <2>6
    <3>2. \A x \in b[n - 1] : Known(x, n - 1)
      BY <2>2, <3>1
    <3> HIDE DEF T
    <3>3. CASE y \in b[n - 1]
      BY <1>1, <2>3, <3>1, <3>2, <3>3 DEF Known
    <3>4. CASE \E x \in b[n - 1] : y \in Neighbours(x, walks[1])
      <4>1. PICK x \in b[n - 1] : y \in Neighbours(x, walks[1])
        BY <3>4
      <4>2. x \in DOMAIN nodes /\ nodes[x] <= n - 1 /\ nodes[x] \in Nat
        BY <1>1, <3>2 DEF Known
      <4>3. Handled(x)
        BY <1>1, <1>6, <3>1, <4>2
      <4>4. y \in DOMAIN nodes /\ nodes[y] <= nodes[x] + 1 /\ nodes[y] \in Nat
        BY <1>1, <4>1, <4>3 DEF Handled, Known
      <4> QED
        BY <2>3, <3>1, <4>2, <4>4 DEF Known
    <3> QED
      BY <1>2, <2>3, <3>1, <3>3, <3>4
  <2> QED
    BY <2>5, <2>6
<1>8. CASE T = {}
  <2>1. \A n \in 0..depth : \A y \in b[n] : Known(y, n)
    BY <1>8
  <2> HIDE DEF T
  <2>2. DOMAIN nodes = b[depth]
    <3>1. \A s \in DOMAIN nodes : s \in b[depth]
      <4> TAKE s \in DOMAIN nodes
      <4>1. nodes[s] \in 0..depth /\ nodes[s] \in 0..5 /\ nodes[s] <= depth
        BY <1>1, <1>4
      <4> QED
        BY <1>1, <1>3, <1>4, <4>1
    <3>2. \A s \in b[depth] : s \in DOMAIN nodes
      BY <1>1, <2>1 DEF Known
    <3> QED
      BY <3>1, <3>2
  <2>3. ASSUME NEW s \in DOMAIN nodes, NEW n \in 0..5 PROVE s \in b[n] <=> nodes[s] <= n
    <3>1. nodes[s] \in 0..5 /\ nodes[s] <= depth /\ nodes[s] \in Nat
      BY <1>1, <1>4
    <3>2. ASSUME nodes[s] <= n PROVE s \in b[n]
      BY <1>3, <1>4, <3>1, <3>2
    <3>3. ASSUME s \in b[n] PROVE nodes[s] <= n
      <4>1. CASE n <= depth
        BY <1>1, <2>1, <3>3, <4>1 DEF Known
      <4>2. CASE ~(n <= depth)
        BY <1>1, <3>1, <4>2
      <4> QED
        BY <4>1, <4>2
    <3> QED
      BY <3>2, <3>3
  <2> QED
    BY <2>2, <2>3 DEF b, depth
<1> QED
  BY <1>7, <1>8

FirstAdjacent == CHOOSE j \in DOMAIN adjacent : \A k \in DOMAIN adjacent : j <= k
NextNeighbour == OtherEnd(Head(queue).symbol, adjacent[FirstAdjacent])

LEMMA FirstIsAdjacent ==
    ASSUME WalkInv, DOMAIN adjacent # {}
    PROVE  FirstAdjacent \in DOMAIN adjacent
<1>1. DOMAIN adjacent \subseteq Nat
  BY GraphData DEF WalkInv, WalkTypeOK
<1>2. \E j \in DOMAIN adjacent : \A k \in DOMAIN adjacent : j <= k
  BY <1>1, Least
<1> QED
  BY <1>2 DEF FirstAdjacent

\* The head of the queue, and its place among the nodes.
LEMMA HeadFacts ==
    ASSUME WalkInv, queue # <<>>
    PROVE  LET item == Head(queue) IN
           /\ item = queue[1] /\ Len(queue) \in Nat \ {0} /\ 1 \in 1..Len(queue)
           /\ item.path \in Seq(Symbols) /\ Len(item.path) \in Nat \ {0}
           /\ item.path[Len(item.path)] = item.symbol
           /\ item.symbol \in DOMAIN nodes /\ nodes[item.symbol] = Depth(item) /\ Depth(item) \in Nat
           /\ Depth(item) + 1 = Len(item.path)
<1>1. queue \in Seq(Item) /\ Head(queue) = queue[1] /\ Len(queue) \in Nat \ {0}
  BY DEF WalkInv
<1>2. 1 \in 1..Len(queue)
  BY <1>1
<1>3. GoodItem(queue[1], nodes, edges)
  BY <1>2 DEF WalkInv
<1> QED
  BY <1>1, <1>2, <1>3 DEF GoodItem, Item, Depth

LEMMA Handling ==
    ASSUME WalkInv, HandleRelation
    PROVE  LET item == Head(queue)
               next == NextNeighbour
           IN /\ walkPhase = "expanding" /\ queue # <<>> /\ FirstAdjacent \in DOMAIN adjacent
              /\ UNCHANGED <<graph, query, walkPhase, walks, seed, finished>>
              /\ nodes' = IF Enters(next, item)
                          THEN [s \in DOMAIN nodes \cup {next} |->
                                    IF s = next THEN Depth(item) + 1 ELSE nodes[s]]
                          ELSE nodes
              /\ queue' = IF Enters(next, item)
                          THEN Append(queue, [symbol |-> next, path |-> Append(item.path, next)])
                          ELSE queue
              /\ limitReached' = (limitReached \/ Overflows(next, item))
              /\ adjacent' = [j \in DOMAIN adjacent \ {FirstAdjacent} |-> adjacent[j]]
<1>1. walkPhase = "expanding" /\ DOMAIN adjacent # {} /\ queue # <<>>
  BY DEF HandleRelation, WalkInv
<1>2. FirstAdjacent \in DOMAIN adjacent
  BY <1>1, FirstIsAdjacent
<1> QED
  BY <1>1, <1>2 DEF HandleRelation, FirstAdjacent, NextNeighbour

\* A neighbour of the head lies one step farther than the head, within the depth.
LEMMA NextIsNear ==
    ASSUME WalkInv, ValidLimits(query), seed \in Symbols, queue # <<>>, NodesInv(Ball(walks[1])), HeadInv,
           NEW next \in Neighbours(Head(queue).symbol, walks[1])
    PROVE  /\ Depth(Head(queue)) + 1 \in 1..5 /\ Depth(Head(queue)) + 1 <= query.depth
           /\ next \in Ball(walks[1])[Depth(Head(queue)) + 1]
           /\ next \in Ball(walks[1])[query.depth]
<1> DEFINE item == Head(queue)
           d == Depth(item)
           b == Ball(walks[1])
<1>1. item.symbol \in DOMAIN nodes /\ nodes[item.symbol] = d /\ d \in Nat
  BY HeadFacts
<1>2. d < query.depth /\ query.depth \in 0..5
  BY DEF HeadInv, ValidLimits
<1>3. d + 1 \in 1..5 /\ d + 1 \in 0..5 /\ d + 1 <= query.depth /\ (d + 1) - 1 = d
  BY <1>1, <1>2
<1>4. item.symbol \in b[d]
  BY <1>1 DEF NodesInv
<1>5. GraphTypeOK
  BY DEF WalkInv, WalkTypeOK
<1>6. b[d + 1] = b[d] \cup UNION {Neighbours(s, walks[1]) : s \in b[d]}
  BY <1>3, <1>5, BallSteps
<1>7. next \in b[d + 1]
  BY <1>4, <1>6
<1>8. b[d + 1] \subseteq b[query.depth]
  BY <1>2, <1>3, <1>5, BallGrows
<1> QED
  BY <1>3, <1>7, <1>8

\* A neighbour that is neither entered nor too many is known already.
LEMMA NextIsKnown ==
    ASSUME WalkInv, queue # <<>>, QueueInv, NEW next \in live,
           ~Enters(next, Head(queue)), ~Overflows(next, Head(queue)),
           Cardinality(DOMAIN nodes) \in Nat, query.limit \in Nat
    PROVE  Known(next, Depth(Head(queue)) + 1)
<1> DEFINE item == Head(queue)
           d == Depth(item)
<1>1. item = queue[1] /\ 1 \in 1..Len(queue) /\ d \in Nat /\ d + 1 = Len(item.path) /\ item.path \in Seq(Symbols)
  BY HeadFacts
<1>2. OnPath(next, item) \/ next \in DOMAIN nodes
  BY DEF Enters, Overflows
<1>3. CASE next \in DOMAIN nodes
  BY <1>1, <1>3 DEF QueueInv, Known
<1>4. CASE OnPath(next, item)
  <2>1. PICK l \in 1..Len(item.path) : item.path[l] = next
    BY <1>1, <1>4 DEF OnPath
  <2>2. Known(next, l - 1)
    BY <1>1, <2>1 DEF QueueInv
  <2>3. \A s \in DOMAIN nodes : nodes[s] \in Nat
    BY DEF WalkInv, WalkTypeOK
  <2> QED
    BY <1>1, <2>1, <2>2, <2>3 DEF Known
<1> QED
  BY <1>2, <1>3, <1>4

LEMMA LimitsAreNumbers ==
    ASSUME WalkInv
    PROVE  /\ query.limit \in Nat /\ query.depth \in Nat
           /\ IsFiniteSet(DOMAIN nodes) /\ Cardinality(DOMAIN nodes) \in Nat
           /\ \A s \in DOMAIN nodes : nodes[s] \in Nat
<1>1. query.limit \in Nat /\ query.depth \in Nat
  BY WalkData DEF WalkInv, WalkTypeOK, Query
<1>2. DOMAIN nodes \subseteq Symbols /\ \A s \in DOMAIN nodes : nodes[s] \in Nat
  BY DEF WalkInv, WalkTypeOK
<1>3. IsFiniteSet(DOMAIN nodes)
  BY <1>2, GraphData, FS_Subset
<1> QED
  BY <1>1, <1>2, <1>3, FS_CardinalityType

LEMMA HandledNodes ==
    ASSUME WalkInv, ValidLimits(query), seed \in Symbols, HandleRelation,
           NodesInv(Ball(walks[1])), QueueInv, HeadInv
    PROVE  NodesInv(Ball(walks[1]))'
<1> DEFINE item == Head(queue)
           next == NextNeighbour
           d == Depth(item)
           b == Ball(walks[1])
<1>1. /\ queue # <<>> /\ FirstAdjacent \in DOMAIN adjacent
      /\ UNCHANGED <<graph, query, walks, seed>>
      /\ nodes' = IF Enters(next, item)
                  THEN [s \in DOMAIN nodes \cup {next} |-> IF s = next THEN d + 1 ELSE nodes[s]]
                  ELSE nodes
      /\ limitReached' = (limitReached \/ Overflows(next, item))
  BY Handling
<1>2. UNCHANGED <<relations, live>>
  BY <1>1 DEF graph
<1>3. next \in live => next \in Neighbours(item.symbol, walks[1])
  BY <1>1 DEF HeadInv, NextNeighbour
<1>4. next \in live => /\ d + 1 \in 1..5 /\ d + 1 <= query.depth
                       /\ next \in b[d + 1] /\ next \in b[query.depth]
  BY <1>1, <1>3, NextIsNear
<1>5. /\ query.limit \in Nat /\ IsFiniteSet(DOMAIN nodes) /\ Cardinality(DOMAIN nodes) \in Nat
      /\ \A s \in DOMAIN nodes : nodes[s] \in Nat
  BY LimitsAreNumbers
<1>6. /\ seed \in DOMAIN nodes /\ nodes[seed] = 0
      /\ \A s \in DOMAIN nodes : nodes[s] <= query.depth /\ s \in b[nodes[s]]
      /\ Cardinality(DOMAIN nodes) <= query.limit
      /\ limitReached => Cardinality(DOMAIN nodes) >= query.limit /\ b[query.depth] \ DOMAIN nodes # {}
  BY DEF NodesInv
<1>7. Ball(walks[1])' = b
  BY <1>1, <1>2 DEF Ball, Neighbours, Adjacent, Passes, OtherEnd
<1> HIDE DEF next, d, b, item
<1>8. CASE Enters(next, item)
  <2>1. next \in live /\ next \notin DOMAIN nodes /\ Cardinality(DOMAIN nodes) < query.limit
        /\ ~Overflows(next, item)
    BY <1>5, <1>8 DEF Enters, Overflows
  <2>2. /\ DOMAIN nodes' = DOMAIN nodes \cup {next} /\ nodes'[next] = d + 1
        /\ \A s \in DOMAIN nodes : nodes'[s] = nodes[s]
    BY <1>1, <1>8, <2>1
  <2>3. Cardinality(DOMAIN nodes') = Cardinality(DOMAIN nodes) + 1
    BY <1>5, <2>1, <2>2, FS_AddElement
  <2>4. ~limitReached'
    <3>1. ~limitReached
      BY <1>5, <1>6, <2>1
    <3> QED
      BY <1>1, <2>1, <3>1
  <2>5. \A s \in DOMAIN nodes' : nodes'[s] <= query.depth /\ s \in b[nodes'[s]]
    BY <1>4, <1>6, <2>1, <2>2
  <2>6. Cardinality(DOMAIN nodes') <= query.limit
    BY <1>5, <2>1, <2>3
  <2>7. seed \in DOMAIN nodes' /\ nodes'[seed] = 0
    BY <1>6, <2>2
  <2> QED
    BY <1>1, <1>7, <2>4, <2>5, <2>6, <2>7 DEF NodesInv
<1>9. CASE ~Enters(next, item)
  <2>1. nodes' = nodes
    BY <1>1, <1>9
  <2>2. limitReached' => Cardinality(DOMAIN nodes) >= query.limit /\ b[query.depth] \ DOMAIN nodes # {}
    <3>1. CASE Overflows(next, item)
      BY <1>4, <1>6, <3>1 DEF Overflows
    <3>2. CASE ~Overflows(next, item)
      BY <1>1, <1>6, <3>2
    <3> QED
      BY <3>1, <3>2
  <2> QED
    BY <1>1, <1>6, <1>7, <2>1, <2>2 DEF NodesInv
<1> QED
  BY <1>8, <1>9

LEMMA HandledQueue ==
    ASSUME WalkInv, ValidLimits(query), seed \in Symbols, HandleRelation,
           NodesInv(Ball(walks[1])), QueueInv, HeadInv
    PROVE  QueueInv' /\ HeadInv'
<1> DEFINE item == Head(queue)
           next == NextNeighbour
           d == Depth(item)
           Later(y, n) == y \in DOMAIN nodes' /\ nodes'[y] <= n
           new == [symbol |-> next, path |-> Append(item.path, next)]
<1>1. /\ queue # <<>> /\ FirstAdjacent \in DOMAIN adjacent
      /\ UNCHANGED <<graph, query, walks, seed>>
      /\ nodes' = IF Enters(next, item)
                  THEN [s \in DOMAIN nodes \cup {next} |-> IF s = next THEN d + 1 ELSE nodes[s]]
                  ELSE nodes
      /\ queue' = IF Enters(next, item) THEN Append(queue, new) ELSE queue
      /\ limitReached' = (limitReached \/ Overflows(next, item))
      /\ adjacent' = [j \in DOMAIN adjacent \ {FirstAdjacent} |-> adjacent[j]]
  BY Handling
<1>2. UNCHANGED <<relations, live>>
  BY <1>1 DEF graph
<1>3. next = OtherEnd(item.symbol, adjacent[FirstAdjacent])
  BY DEF NextNeighbour
<1>4. /\ query.limit \in Nat /\ Cardinality(DOMAIN nodes) \in Nat /\ \A s \in DOMAIN nodes : nodes[s] \in Nat
  BY LimitsAreNumbers
<1>5. /\ item = queue[1] /\ Len(queue) \in Nat \ {0} /\ 1 \in 1..Len(queue)
      /\ item.path \in Seq(Symbols) /\ Len(item.path) \in Nat \ {0} /\ d \in Nat /\ d + 1 = Len(item.path)
  BY <1>1, HeadFacts
<1>6. queue \in Seq(Item)
  BY DEF WalkInv
<1>7. \A s, direction : Neighbours(s, direction)' = Neighbours(s, direction)
  BY <1>1, <1>2, NeighboursStill
<1>8. new.symbol = next /\ new.path = Append(item.path, next)
      /\ Len(new.path) = d + 2 /\ new.path[d + 2] = next
      /\ (\A l \in 1..(d + 1) : new.path[l] = item.path[l]) /\ Depth(new) = d + 1
  <2>1. new.symbol = next /\ new.path = Append(item.path, next)
    OBVIOUS
  <2> HIDE DEF new, next, item, d
  <2>2. Len(new.path) = Len(item.path) + 1 /\ new.path[Len(item.path) + 1] = next
        /\ \A l \in 1..Len(item.path) : new.path[l] = item.path[l]
    BY <1>5, <2>1
  <2> QED
    BY <1>5, <2>1, <2>2 DEF Depth
<1>9. Enters(next, item) => next \notin DOMAIN nodes /\ next \in live
  BY DEF Enters
<1>10. /\ Len(queue') \in Nat /\ Head(queue') = item /\ queue'[1] = item
       /\ \A k \in 1..Len(queue) : queue'[k] = queue[k] /\ k \in 1..Len(queue')
       /\ \A k \in 1..Len(queue') :
            k \in 1..Len(queue) \/ (Enters(next, item) /\ queue'[k] = new /\ k = Len(queue) + 1)
       /\ Enters(next, item) => Len(queue) + 1 \in 1..Len(queue') /\ queue'[Len(queue) + 1] = new
  <2> HIDE DEF new, next, item, d
  <2>1. CASE Enters(next, item)
    <3>1. queue' = Append(queue, new)
      BY <1>1, <2>1
    <3>2. /\ Len(queue') = Len(queue) + 1 /\ queue'[Len(queue) + 1] = new
          /\ \A k \in 1..Len(queue) : queue'[k] = queue[k]
          /\ queue' # <<>> /\ Head(queue') = queue'[1]
      BY <1>5, <1>6, <3>1
    <3> QED
      BY <1>5, <2>1, <3>2
  <2>2. CASE ~Enters(next, item)
    BY <1>1, <1>5, <2>2 DEF item
  <2> QED
    BY <2>1, <2>2
<1>11. \A y, n : Known(y, n) => Later(y, n)
  BY <1>1, <1>9 DEF Known
<1>12. Enters(next, item) =>
        DOMAIN nodes' = DOMAIN nodes \cup {next} /\ nodes'[next] = d + 1
        /\ \A s \in DOMAIN nodes : nodes'[s] = nodes[s]
  BY <1>1, <1>9
<1>13. ~Enters(next, item) => nodes' = nodes
  BY <1>1
<1> HIDE DEF new, next, item, d
<1>14. \A s \in DOMAIN nodes' : nodes'[s] <= d + 1
  <2>1. \A s \in DOMAIN nodes : nodes[s] <= d + 1
    BY <1>5 DEF QueueInv, d
  <2> QED
    BY <1>5, <1>12, <1>13, <2>1
<1>15. \A s \in DOMAIN nodes : Handled(s) => \A y \in Neighbours(s, walks[1]) : Later(y, nodes'[s] + 1)
  BY <1>11, <1>12, <1>13 DEF Handled
<1>16. ASSUME ~limitReached', NEW s \in DOMAIN nodes'
       PROVE  \/ nodes'[s] >= query.depth
              \/ \A y \in Neighbours(s, walks[1]) : Later(y, nodes'[s] + 1)
              \/ \E k \in 1..Len(queue') : queue'[k].symbol = s
  <2>1. CASE s \in DOMAIN nodes
    <3>1. nodes'[s] = nodes[s] /\ ~limitReached
      BY <1>1, <1>12, <1>13, <1>16, <2>1
    <3> QED
      BY <1>10, <1>15, <2>1, <3>1 DEF QueueInv
  <2>2. CASE s \notin DOMAIN nodes
    BY <1>8, <1>10, <1>12, <1>13, <2>2
  <2> QED
    BY <2>1, <2>2
<1>17. ASSUME NEW k \in 1..Len(queue')
       PROVE  /\ \A s \in DOMAIN nodes' : nodes'[s] <= Depth(queue'[k]) + 1
              /\ \A j \in 1..Len(queue') : j <= k => Depth(queue'[j]) <= Depth(queue'[k])
              /\ \A l \in 1..Len(queue'[k].path) : Later(queue'[k].path[l], l - 1)
  <2>1. \A j \in 1..Len(queue) : Depth(queue[j]) \in Nat /\ d <= Depth(queue[j]) /\ Depth(queue[j]) <= d + 1
    <3> TAKE j \in 1..Len(queue)
    <3>1. GoodItem(queue[j], nodes, edges)
      BY DEF WalkInv
    <3>2. Depth(queue[j]) = nodes[queue[j].symbol] /\ queue[j].symbol \in DOMAIN nodes
      BY <3>1 DEF GoodItem, Depth
    <3> QED
      BY <1>4, <1>5, <3>2 DEF QueueInv, d
  <2>2. \A s \in DOMAIN nodes' : nodes'[s] \in Nat
    BY <1>4, <1>5, <1>12, <1>13
  <2>3. CASE k \in 1..Len(queue)
    <3>1. queue'[k] = queue[k] /\ d <= Depth(queue[k]) /\ Depth(queue[k]) \in Nat
      BY <1>10, <2>1, <2>3
    <3>2. \A s \in DOMAIN nodes' : nodes'[s] <= Depth(queue'[k]) + 1
      BY <1>5, <1>14, <2>2, <3>1
    <3>3. \A j \in 1..Len(queue') : j <= k => Depth(queue'[j]) <= Depth(queue'[k])
      <4> TAKE j \in 1..Len(queue')
      <4> HAVE j <= k
      <4>1. j \in 1..Len(queue)
        BY <1>5, <2>3
      <4> QED
        BY <1>10, <2>3, <4>1 DEF QueueInv
    <3>4. \A l \in 1..Len(queue'[k].path) : Later(queue'[k].path[l], l - 1)
      BY <1>11, <2>3, <3>1 DEF QueueInv
    <3> QED
      BY <3>2, <3>3, <3>4
  <2>4. CASE k \notin 1..Len(queue)
    <3>1. Enters(next, item) /\ queue'[k] = new /\ k = Len(queue) + 1
      BY <1>10, <2>4
    <3>2. \A s \in DOMAIN nodes' : nodes'[s] <= Depth(queue'[k]) + 1
      BY <1>5, <1>8, <1>14, <2>2, <3>1
    <3>3. \A j \in 1..Len(queue') : j <= k => Depth(queue'[j]) <= Depth(queue'[k])
      <4> TAKE j \in 1..Len(queue')
      <4>1. CASE j \in 1..Len(queue)
        BY <1>8, <1>10, <2>1, <3>1, <4>1
      <4>2. CASE j \notin 1..Len(queue)
        BY <1>5, <1>8, <1>10, <3>1, <4>2
      <4> QED
        BY <4>1, <4>2
    <3>4. ASSUME NEW l \in 1..Len(queue'[k].path) PROVE Later(queue'[k].path[l], l - 1)
      <4>1. CASE l \in 1..(d + 1)
        <5>1. Known(item.path[l], l - 1)
          BY <1>5, <4>1 DEF QueueInv
        <5> QED
          BY <1>8, <1>11, <3>1, <4>1, <5>1
      <4>2. CASE l \notin 1..(d + 1)
        <5>1. l = d + 2 /\ l - 1 = d + 1
          BY <1>5, <1>8, <3>1, <4>2
        <5> QED
          BY <1>5, <1>8, <1>12, <3>1, <5>1
      <4> QED
        BY <4>1, <4>2
    <3> QED
      BY <3>2, <3>3, <3>4
  <2> QED
    BY <2>3, <2>4
<1>18. QueueInv'
  <2>1. \A s \in DOMAIN nodes' : (\A y \in Neighbours(s, walks[1]) : Later(y, nodes'[s] + 1)) => Handled(s)'
    BY <1>1, <1>7 DEF Handled, Known
  <2>2. \A k \in 1..Len(queue') : \A l \in 1..Len(queue'[k].path) : Known(queue[k].path[l], l - 1)'
    BY <1>17 DEF Known
  <2> QED
    BY <1>1, <1>16, <1>17, <2>1, <2>2 DEF QueueInv, Depth
<1>19. HeadInv'
  <2>1. DOMAIN adjacent' = DOMAIN adjacent \ {FirstAdjacent} /\ \A i \in DOMAIN adjacent' : adjacent'[i] = adjacent[i]
    BY <1>1
  <2>2. \A i \in DOMAIN adjacent' : OtherEnd(item.symbol, adjacent'[i]) \in live =>
            OtherEnd(item.symbol, adjacent'[i]) \in Neighbours(item.symbol, walks[1])
    BY <2>1 DEF HeadInv, item
  <2>3. ASSUME ~limitReached', NEW y \in Neighbours(item.symbol, walks[1])
        PROVE  Later(y, d + 1) \/ \E i \in DOMAIN adjacent' : OtherEnd(item.symbol, adjacent'[i]) = y
    <3>1. Known(y, d + 1) \/ \E i \in DOMAIN adjacent : OtherEnd(item.symbol, adjacent[i]) = y
      BY <1>1, <2>3 DEF HeadInv, item, d
    <3>2. CASE y = next
      <4>1. next \in live /\ ~Overflows(next, item)
        BY <1>1, <2>3, <3>2 DEF Neighbours
      <4>2. CASE Enters(next, item)
        BY <1>5, <1>12, <3>2, <4>2
      <4>3. CASE ~Enters(next, item)
        <5>1. Known(next, d + 1)
          BY <1>1, <1>4, <4>1, <4>3, NextIsKnown DEF item, d
        <5> QED
          BY <1>11, <3>2, <5>1
      <4> QED
        BY <4>2, <4>3
    <3>3. CASE y # next
      BY <1>3, <1>11, <2>1, <3>1, <3>3
    <3> QED
      BY <3>2, <3>3
  <2>4. d < query.depth
    BY DEF HeadInv, item, d
  <2>5. Neighbours(Head(queue).symbol, walks[1])' = Neighbours(item.symbol, walks[1])
    BY <1>1, <1>2, <1>10 DEF Neighbours, Adjacent, Passes, OtherEnd
  <2>6. /\ Head(queue').symbol = item.symbol /\ Len(Head(queue').path) - 1 = d /\ live' = live
        /\ query' = query
    BY <1>1, <1>2, <1>10 DEF d, Depth
  <2>7. \A y : Later(y, d + 1) => Known(y, Depth(Head(queue)) + 1)'
    BY <2>6 DEF Known, Depth
  <2>8. \A i : OtherEnd(Head(queue).symbol, adjacent[i])' = OtherEnd(item.symbol, adjacent'[i])
    BY <2>6 DEF OtherEnd
  <2>9. Depth(Head(queue))' < query'.depth
    BY <2>4, <2>6 DEF Depth
  <2>10. \A i \in DOMAIN adjacent' :
            OtherEnd(Head(queue).symbol, adjacent[i])' \in live' =>
            OtherEnd(Head(queue).symbol, adjacent[i])' \in Neighbours(Head(queue).symbol, walks[1])'
    BY <2>2, <2>5, <2>6, <2>8
  <2>11. ~limitReached' =>
            \A y \in Neighbours(Head(queue).symbol, walks[1])' :
                \/ Known(y, Depth(Head(queue)) + 1)'
                \/ \E i \in DOMAIN adjacent' : OtherEnd(Head(queue).symbol, adjacent[i])' = y
    BY <2>3, <2>5, <2>7, <2>8
  <2> QED
    BY <2>9, <2>10, <2>11 DEF HeadInv
<1> QED
  BY <1>18, <1>19

LEMMA NodesStill ==
    ASSUME NodesInv(Ball(walks[1])), UNCHANGED <<relations, live, seed, query, nodes, limitReached>>,
           walks' = walks
    PROVE  NodesInv(Ball(walks[1]))'
<1>1. Ball(walks[1])' = Ball(walks[1])
  BY DEF Ball, Neighbours, Adjacent, Passes, OtherEnd
<1> QED
  BY <1>1 DEF NodesInv

LEMMA QueueStill ==
    ASSUME QueueInv, UNCHANGED <<relations, live, query, walks, nodes, limitReached, queue>>
    PROVE  QueueInv'
<1>1. \A s : Handled(s) => Handled(s)'
  BY NeighboursStill DEF Handled, Known
<1>2. ASSUME NEW k \in 1..Len(queue), NEW l \in 1..Len(queue[k].path)
      PROVE  Known(queue[k].path[l], l - 1)'
  BY DEF QueueInv, Known
<1> QED
  BY <1>1, <1>2 DEF QueueInv, Depth

\* The head leaves the queue: too deep, or its neighbours are known.
LEMMA QueueDequeues ==
    ASSUME WalkInv, QueueInv, UNCHANGED <<relations, live, query, walks, nodes, limitReached>>,
           queue # <<>>, queue' = Tail(queue),
           LET s == Head(queue).symbol IN limitReached \/ nodes[s] >= query.depth \/ Handled(s)
    PROVE  QueueInv'
<1>1. \A s : Handled(s) => Handled(s)'
  BY NeighboursStill DEF Handled, Known
<1>2. queue \in Seq(Item) /\ Len(queue) \in Nat \ {0} /\ Head(queue) = queue[1]
  BY DEF WalkInv
<1>3. /\ Len(queue') = Len(queue) - 1 /\ Len(queue') \in Nat
      /\ \A k \in 1..Len(queue') : queue'[k] = queue[k + 1] /\ k + 1 \in 1..Len(queue)
  BY <1>2
<1>4. ASSUME ~limitReached', NEW s \in DOMAIN nodes'
      PROVE  nodes'[s] >= query'.depth \/ Handled(s)' \/ \E k \in 1..Len(queue') : queue'[k].symbol = s
  <2>1. nodes[s] >= query.depth \/ Handled(s) \/ \E k \in 1..Len(queue) : queue[k].symbol = s
    BY <1>4 DEF QueueInv
  <2>2. CASE \E k \in 1..Len(queue) : queue[k].symbol = s
    <3>1. PICK k \in 1..Len(queue) : queue[k].symbol = s
      BY <2>2
    <3>2. CASE k = 1
      BY <1>1, <1>2, <1>4, <3>1, <3>2
    <3>3. CASE k # 1
      <4>1. k - 1 \in 1..Len(queue') /\ (k - 1) + 1 = k
        BY <1>2, <1>3, <3>3
      <4> QED
        BY <1>3, <3>1, <4>1
    <3> QED
      BY <3>2, <3>3
  <2> QED
    BY <1>1, <2>1, <2>2
<1>5. ASSUME NEW k \in 1..Len(queue')
      PROVE  /\ \A s \in DOMAIN nodes' : nodes'[s] <= Depth(queue'[k]) + 1
             /\ \A j \in 1..Len(queue') : j <= k => Depth(queue'[j]) <= Depth(queue'[k])
             /\ \A l \in 1..Len(queue'[k].path) : Known(queue[k].path[l], l - 1)'
  <2>1. queue'[k] = queue[k + 1] /\ k + 1 \in 1..Len(queue)
    BY <1>3
  <2>2. \A j \in 1..Len(queue') : j <= k => Depth(queue'[j]) <= Depth(queue'[k])
    <3> TAKE j \in 1..Len(queue')
    <3> HAVE j <= k
    <3>1. queue'[j] = queue[j + 1] /\ j + 1 \in 1..Len(queue) /\ j + 1 <= k + 1
      BY <1>3
    <3> QED
      BY <2>1, <3>1 DEF QueueInv
  <2>3. ASSUME NEW l \in 1..Len(queue'[k].path) PROVE Known(queue[k].path[l], l - 1)'
    <3>1. Known(queue[k + 1].path[l], l - 1)
      BY <2>1 DEF QueueInv
    <3> QED
      BY <2>1, <3>1 DEF Known
  <2> QED
    BY <2>1, <2>2, <2>3 DEF QueueInv
<1> QED
  BY <1>4, <1>5 DEF QueueInv, Depth

LEMMA StartedWhole ==
    ASSUME WalkInv, WalkInv', StartWalk
    PROVE  NodesInv(Ball(walks[1]))' /\ QueueInv'
<1> DEFINE item == [symbol |-> seed, path |-> <<seed>>]
<1>1. /\ walkPhase = "resolved" /\ ValidLimits(query) /\ nodes' = [s \in {seed} |-> 0]
      /\ limitReached' = FALSE /\ queue' = <<item>> /\ UNCHANGED <<graph, query, walks, seed>>
  BY DEF StartWalk
<1>2. seed \in Symbols
  BY <1>1 DEF WalkInv
<1>3. DOMAIN nodes' = {seed} /\ nodes'[seed] = 0
  BY <1>1
<1>4. item.symbol = seed /\ item.path = <<seed>> /\ Len(item.path) = 1 /\ item.path[1] = seed
  OBVIOUS
<1>5. Len(queue') = 1 /\ queue'[1] = item
  BY <1>1
<1> HIDE DEF item
<1>6. query.depth \in 0..5 /\ query.limit \in Nat /\ query.limit > 0
  BY <1>1, LimitsAreNumbers DEF ValidLimits
<1>7. Ball(walks[1])'[0] = {seed}
  <2>1. Ball(walks[1])' = Ball(walks[1])
    BY <1>1 DEF Ball, Neighbours, Adjacent, Passes, OtherEnd, graph
  <2> QED
    BY <1>2, <2>1, BallSteps DEF WalkInv, WalkTypeOK
<1>8. Cardinality(DOMAIN nodes') = 1
  BY <1>3, FS_Singleton
<1>9. NodesInv(Ball(walks[1]))'
  BY <1>1, <1>3, <1>6, <1>7, <1>8 DEF NodesInv
<1>10. \A k \in 1..Len(queue') : k = 1 /\ queue'[k] = item
  BY <1>5
<1>11. \A k \in 1..Len(queue') : \A l \in 1..Len(queue'[k].path) : Known(queue[k].path[l], l - 1)'
  <2>1. ASSUME NEW k \in 1..Len(queue'), NEW l \in 1..Len(queue'[k].path)
        PROVE  Known(queue[k].path[l], l - 1)'
    <3>1. queue'[k] = item
      BY <1>10
    <3>2. l = 1
      <4>1. Len(queue'[k].path) = 1
        BY <1>4, <3>1
      <4>2. l \in 1..1
        BY <4>1
      <4> QED
        BY <4>2
    <3>3. queue'[k].path[l] = seed
      BY <1>4, <3>1, <3>2
    <3> QED
      BY <1>3, <3>2, <3>3 DEF Known
  <2> QED
    BY <2>1
<1>12. ASSUME NEW k \in 1..Len(queue')
       PROVE  /\ \A s \in DOMAIN nodes' : nodes'[s] <= Depth(queue'[k]) + 1
              /\ \A j \in 1..Len(queue') : j <= k => Depth(queue'[j]) <= Depth(queue'[k])
  BY <1>3, <1>4, <1>10 DEF Depth
<1>13. \A s \in DOMAIN nodes' : \E k \in 1..Len(queue') : queue'[k].symbol = s
  BY <1>3, <1>4, <1>5
<1> QED
  BY <1>9, <1>11, <1>12, <1>13 DEF QueueInv, Depth

\* What the head's relations lead to is exactly its neighbours.
LEMMA ReadWhole ==
    ASSUME WalkInv, ReadAdjacent
    PROVE  HeadInv'
<1> DEFINE item == Head(queue)
           s == item.symbol
           near == {i \in Adjacent(s, walks[1]) : Passes(relations[i])}
<1>1. /\ Depth(item) < query.depth /\ adjacent' = [i \in near |-> relations[i]]
      /\ UNCHANGED <<relations, live, query, walks, queue>>
  BY DEF ReadAdjacent, graph
<1>2. Neighbours(Head(queue).symbol, walks[1])' = {OtherEnd(s, relations[i]) : i \in near} \cap live
  BY <1>1 DEF Neighbours, Adjacent, Passes, OtherEnd
<1> HIDE DEF near
<1>3. DOMAIN adjacent' = near /\ \A i \in near : adjacent'[i] = relations[i]
  BY <1>1
<1>4. \A i \in DOMAIN adjacent' : OtherEnd(s, adjacent'[i]) \in live' =>
        OtherEnd(s, adjacent'[i]) \in Neighbours(Head(queue).symbol, walks[1])'
  BY <1>1, <1>2, <1>3
<1>5. \A y \in Neighbours(Head(queue).symbol, walks[1])' : \E i \in DOMAIN adjacent' : OtherEnd(s, adjacent'[i]) = y
  BY <1>2, <1>3
<1>6. Head(queue') = item
  BY <1>1
<1> QED
  BY <1>1, <1>4, <1>5, <1>6 DEF HeadInv, Depth, OtherEnd

LEMMA WalksStart == GraphInit /\ WalkInit => WalksInv
<1> SUFFICES ASSUME GraphInit, WalkInit PROVE WalksInv
  OBVIOUS
<1>1. walkPhase = "idle" /\ finished = <<>> /\ query \in Query
      /\ walks = IF query.tool = "describe" THEN <<"outgoing", "incoming">> ELSE <<query.direction>>
  BY DEF WalkInit, NoWalk
<1>2. walks \in Seq(Directions) /\ walks # <<>>
  <2>1. CASE query.tool = "describe"
    <3>1. "outgoing" \in Directions /\ "incoming" \in Directions
      BY DEF Directions
    <3>2. <<"outgoing", "incoming">> \in Seq(Directions)
      BY <3>1
    <3> QED
      BY <1>1, <2>1, <3>2
  <2>2. CASE query.tool # "describe"
    <3>1. query.direction \in Directions
      BY <1>1, <2>2 DEF Query
    <3>2. <<query.direction>> \in Seq(Directions)
      BY <3>1
    <3> QED
      BY <1>1, <2>2, <3>2
  <2> QED
    BY <2>1, <2>2
<1> QED
  BY <1>1, <1>2 DEF WalksInv, Walking

LEMMA WalksKeep == WalkInv /\ WalksInv /\ [WalkNext]_<<graph, walkVars>> => WalksInv'
<1> SUFFICES ASSUME WalkInv, WalksInv, [WalkNext]_<<graph, walkVars>> PROVE WalksInv'
  OBVIOUS
<1>1. CASE ResolveObject
  <2>1. walkPhase = "idle" /\ finished = <<>> /\ UNCHANGED <<query, walks, finished>> /\ ~Walking' /\ walkPhase' # "idle"
        /\ walks # <<>>
    <3>1. walkPhase' \in {"not_found", "ambiguous", "resolved"}
      BY <1>1 DEF ResolveObject
    <3>2. walkPhase = "idle" /\ UNCHANGED <<query, walks, finished>>
      BY <1>1 DEF ResolveObject, walk
    <3> QED
      BY <3>1, <3>2 DEF WalksInv, Walking
  <2>2. finished' = <<>> /\ walks' = walks /\ ~(Walking' \/ finished' # <<>>)
    BY <2>1
  <2> QED
    BY <2>1, <2>2 DEF WalksInv
<1>2. CASE RejectWalk
  BY <1>2 DEF RejectWalk, WalksInv, Walking, walk
<1>3. CASE StartWalk
  <2>1. seed' \in Symbols
    BY <1>3 DEF StartWalk, WalkInv
  <2> QED
    BY <1>3, <2>1 DEF StartWalk, WalksInv, Walking, ValidLimits
<1>4. CASE SkipDeepest \/ ReadAdjacent \/ HandleRelation \/ NextNode
  <2>1. Walking /\ Walking' /\ UNCHANGED <<query, walks, seed, finished>>
    BY <1>4 DEF SkipDeepest, ReadAdjacent, HandleRelation, NextNode, Walking
  <2> QED
    BY <2>1 DEF WalksInv, Walking, ValidLimits
<1>5. CASE FinishWalk
  <2> DEFINE w == [direction |-> walks[1], nodes |-> nodes, edges |-> edges,
                   cycles |-> cycles, limitReached |-> limitReached]
  <2>1. /\ walkPhase = "walking" /\ finished' = Append(finished, w) /\ walks' = Tail(walks)
        /\ walkPhase' = (IF Tail(walks) = <<>> THEN "answered" ELSE "resolved")
        /\ UNCHANGED <<graph, query, seed>>
    BY <1>5 DEF FinishWalk, walk
  <2>2. walks \in Seq(Directions) /\ walks # <<>> /\ DOMAIN finished = 1..Len(finished) /\ Len(finished) \in Nat
        /\ ValidLimits(query) /\ seed \in Symbols /\ \A k \in 1..Len(finished) : finished[k].direction \in Directions
    BY <2>1 DEF WalksInv, Walking
  <2>3. w.direction \in Directions
    BY <2>2
  <2> HIDE DEF w
  <2>4. /\ DOMAIN finished' = 1..Len(finished') /\ Len(finished') \in Nat
        /\ \A k \in 1..Len(finished') : finished'[k].direction \in Directions
    BY <2>1, <2>2, <2>3
  <2>5. walks' \in Seq(Directions)
    BY <2>1, <2>2
  <2> QED
    BY <2>1, <2>2, <2>4, <2>5 DEF WalksInv, Walking, ValidLimits
<1>6. CASE WalkDisturbed \/ UNCHANGED <<graph, walkVars>>
  <2>1. UNCHANGED walkVars
    BY <1>6 DEF WalkDisturbed
  <2> QED
    BY <2>1 DEF walkVars, WalksInv, Walking, ValidLimits
<1> QED
  BY <1>1, <1>2, <1>3, <1>4, <1>5, <1>6 DEF WalkNext, WalkStep

LEMMA FinishedWhole ==
    ASSUME WalkInv, WalksInv, WholeInv, edits = 0, FinishWalk
    PROVE  \A k \in 1..Len(finished') : \A w : w = finished'[k] => Whole(w)'
<1> DEFINE new == [direction |-> walks[1], nodes |-> nodes, edges |-> edges,
                   cycles |-> cycles, limitReached |-> limitReached]
<1>1. /\ walkPhase = "walking" /\ queue = <<>> /\ finished' = Append(finished, new)
      /\ UNCHANGED <<graph, query, seed>>
  BY DEF FinishWalk, walk
<1>2. /\ DOMAIN finished = 1..Len(finished) /\ Len(finished) \in Nat /\ ValidLimits(query) /\ seed \in Symbols
  BY <1>1 DEF WalksInv, Walking
<1>3. NodesInv(Ball(walks[1])) /\ QueueInv /\ \A k \in 1..Len(finished) : Whole(finished[k])
  BY <1>1 DEF WholeInv, Walking
<1>4. UNCHANGED <<relations, live, seed, query>>
  BY <1>1 DEF graph
<1>5. new.direction = walks[1] /\ new.nodes = nodes /\ new.limitReached = limitReached
  OBVIOUS
<1> HIDE DEF new
<1>6. Whole(new)
  <2>1. CASE limitReached
    BY <1>3, <1>5, <2>1 DEF Whole, NodesInv
  <2>2. CASE ~limitReached
    <3>1. /\ DOMAIN nodes = Ball(walks[1])[query.depth]
          /\ \A s \in DOMAIN nodes : \A n \in 0..5 : s \in Ball(walks[1])[n] <=> nodes[s] <= n
      BY <1>1, <1>2, <1>3, <2>2, UncutIsWhole
    <3> QED
      BY <1>3, <1>5, <2>2, <3>1 DEF Whole, NodesInv
  <2> QED
    BY <2>1, <2>2
<1>7. \A w : Whole(w) => Whole(w)'
  BY <1>4, WholeStill
<1>8. Len(finished') = Len(finished) + 1 /\ finished'[Len(finished')] = new
      /\ \A k \in 1..Len(finished) : finished'[k] = finished[k]
  BY <1>1, <1>2
<1>9. ASSUME NEW k \in 1..Len(finished'), NEW w, w = finished'[k] PROVE Whole(w)
  <2>1. CASE k \in 1..Len(finished)
    BY <1>3, <1>8, <1>9, <2>1
  <2>2. CASE k \notin 1..Len(finished)
    BY <1>2, <1>6, <1>8, <1>9, <2>2
  <2> QED
    BY <2>1, <2>2
<1> QED
  BY <1>7, <1>9

LEMMA WholeKeeps ==
    WalkInv /\ WalkInv' /\ WalksInv /\ WholeInv /\ [WalkNext]_<<graph, walkVars>> => WholeInv'
<1> SUFFICES ASSUME WalkInv, WalkInv', WalksInv, WholeInv, [WalkNext]_<<graph, walkVars>>, edits' = 0
             PROVE  /\ Walking' => NodesInv(Ball(walks[1]))' /\ QueueInv'
                    /\ walkPhase' = "expanding" => HeadInv'
                    /\ \A k \in 1..Len(finished') : \A w : w = finished'[k] => Whole(w)'
  BY DEF WholeInv, Whole
<1>1. CASE WalkDisturbed
  <2>1. edits' = edits + 1
    BY <1>1 DEF WalkDisturbed, OtherProcess, UpsertRelation, StaleSymbol, DropSymbol, Edit
  <2>2. edits \in Nat
    BY GraphData DEF WalkInv, WalkTypeOK, GraphTypeOK
  <2> QED
    BY <2>1, <2>2
<1>2. CASE WalkStep \/ UNCHANGED <<graph, walkVars>>
  <2>1. UNCHANGED graph
    BY <1>2 DEF WalkStep, ResolveObject, RejectWalk, StartWalk, SkipDeepest, ReadAdjacent, HandleRelation,
                NextNode, FinishWalk
  <2>2. edits = 0 /\ UNCHANGED <<relations, live, query>>
    BY <1>2, <2>1 DEF graph, WalkStep, ResolveObject, RejectWalk, StartWalk, SkipDeepest, ReadAdjacent,
                HandleRelation, NextNode, FinishWalk, walkVars
  <2>3. /\ Walking => NodesInv(Ball(walks[1])) /\ QueueInv
        /\ walkPhase = "expanding" => HeadInv
        /\ \A k \in 1..Len(finished) : Whole(finished[k])
    BY <2>2 DEF WholeInv
  <2>4. UNCHANGED <<seed, finished>> => \A k \in 1..Len(finished') : \A w : w = finished'[k] => Whole(w)'
    BY <2>2, <2>3, WholeStill
  <2>5. CASE ResolveObject
    <3>1. finished' = <<>> /\ walkPhase' \in {"not_found", "ambiguous", "resolved"}
      BY <2>5 DEF ResolveObject, WalksInv
    <3>2. Len(finished') = 0
      BY <3>1
    <3> QED
      BY <3>1, <3>2 DEF Walking
  <2>6. CASE RejectWalk
    BY <2>4, <2>6 DEF RejectWalk, Walking, walk
  <2>7. CASE StartWalk
    BY <2>4, <2>7, StartedWhole DEF StartWalk
  <2>8. CASE SkipDeepest \/ NextNode
    <3>1. /\ Walking /\ walkPhase' = "walking" /\ queue # <<>> /\ queue' = Tail(queue)
          /\ UNCHANGED <<walks, seed, nodes, limitReached, finished>>
      BY <2>8 DEF SkipDeepest, NextNode, Walking, WalkInv
    <3>2. NodesInv(Ball(walks[1]))'
      BY <2>2, <2>3, <3>1, NodesStill
    <3>3. LET s == Head(queue).symbol IN limitReached \/ nodes[s] >= query.depth \/ Handled(s)
      <4>1. CASE SkipDeepest
        BY <3>1, <4>1, HeadFacts DEF SkipDeepest
      <4>2. CASE NextNode
        <5>1. walkPhase = "expanding" /\ DOMAIN adjacent = {}
          BY <4>2 DEF NextNode
        <5>2. nodes[Head(queue).symbol] = Depth(Head(queue))
          BY <3>1, HeadFacts
        <5>3. CASE ~limitReached
          <6>1. \A y \in Neighbours(Head(queue).symbol, walks[1]) : Known(y, Depth(Head(queue)) + 1)
            BY <2>3, <5>1, <5>3 DEF HeadInv
          <6> QED
            BY <5>2, <6>1 DEF Handled
        <5>4. CASE limitReached
          BY <5>4
        <5> QED
          BY <5>3, <5>4
      <4> QED
        BY <2>8, <4>1, <4>2
    <3>4. QueueInv'
      BY <2>2, <2>3, <3>1, <3>3, QueueDequeues
    <3> QED
      BY <2>4, <3>1, <3>2, <3>4
  <2>9. CASE ReadAdjacent
    <3>1. Walking /\ UNCHANGED <<walks, seed, nodes, limitReached, queue, finished>>
      BY <2>9 DEF ReadAdjacent, Walking
    <3> QED
      BY <2>2, <2>3, <2>4, <2>9, <3>1, NodesStill, QueueStill, ReadWhole
  <2>10. CASE HandleRelation
    <3>1. walkPhase = "expanding" /\ UNCHANGED <<seed, finished>>
      BY <2>10 DEF HandleRelation
    <3>2. ValidLimits(query) /\ seed \in Symbols /\ Walking
      BY <3>1 DEF WalksInv, Walking
    <3> QED
      BY <2>3, <2>4, <2>10, <3>1, <3>2, HandledNodes, HandledQueue
  <2>11. CASE FinishWalk
    <3>1. ~Walking'
      BY <2>11 DEF FinishWalk, Walking
    <3> QED
      BY <2>2, <2>11, <3>1, FinishedWhole DEF Walking
  <2>12. CASE UNCHANGED <<graph, walkVars>>
    <3>1. UNCHANGED <<walkPhase, walks, seed, nodes, limitReached, queue, adjacent, finished>>
      BY <2>12 DEF walkVars
    <3>2. HeadInv => HeadInv'
      <4>1. Neighbours(Head(queue).symbol, walks[1])' = Neighbours(Head(queue).symbol, walks[1])
        BY <2>2, <3>1 DEF Neighbours, Adjacent, Passes, OtherEnd
      <4> QED
        BY <2>2, <3>1, <4>1 DEF HeadInv, Known, Depth, OtherEnd
    <3> QED
      BY <2>2, <2>3, <2>4, <3>1, <3>2, NodesStill, QueueStill DEF Walking
  <2> QED
    BY <1>2, <2>5, <2>6, <2>7, <2>8, <2>9, <2>10, <2>11, <2>12 DEF WalkStep
<1> QED
  BY <1>1, <1>2 DEF WalkNext

LEMMA WholeStarts == GraphInit /\ WalkInit => WholeInv
<1> SUFFICES ASSUME GraphInit, WalkInit PROVE WholeInv
  OBVIOUS
<1>1. walkPhase = "idle" /\ finished = <<>> /\ Len(finished) = 0
  BY DEF WalkInit, NoWalk
<1> QED
  BY <1>1 DEF WholeInv, Walking

\* Other processes commit nothing: describe and impact show every symbol within the depth
\* asked for, each at its true distance, or say that something is missing, and then something
\* is; no walk holds more symbols than its limit.  A symbol is entered when it is first seen,
\* so the queue must hand the symbols out nearest first.
THEOREM WalksAreComplete == WalkSpec => []WalkIsComplete
<1>1. WalkInv /\ WalksInv /\ WholeInv => WalkIsComplete
  <2> SUFFICES ASSUME WalkInv, WalksInv, WholeInv, edits = 0
               PROVE  /\ \A k \in DOMAIN finished :
                            LET w == finished[k] ball == Ball(w.direction) IN
                                ~w.limitReached =>
                                    /\ DOMAIN w.nodes = ball[query.depth]
                                    /\ \A s \in DOMAIN w.nodes :
                                        \A n \in 0..5 : s \in ball[n] <=> w.nodes[s] <= n
                      /\ \A k \in DOMAIN finished : Cardinality(DOMAIN finished[k].nodes) <= query.limit
                      /\ "truncated" \in Risks <=>
                            \E k \in DOMAIN finished :
                                Ball(finished[k].direction)[query.depth] \ DOMAIN finished[k].nodes # {}
    BY DEF WalkIsComplete, UncutWalkIsWhole, TruncationIsReported
  <2>1. \A k \in DOMAIN finished : Whole(finished[k])
    BY DEF WholeInv, WalksInv
  <2>2. "truncated" \in Risks <=> Truncated
    BY DEF Risks
  <2>3. Truncated <=> \E k \in DOMAIN finished :
                        Ball(finished[k].direction)[query.depth] \ DOMAIN finished[k].nodes # {}
    BY <2>1 DEF Truncated, Whole
  <2> QED
    BY <2>1, <2>2, <2>3 DEF Whole
<1>2. /\ WalkInv /\ WalksInv /\ WholeInv /\ [WalkNext]_<<graph, walkVars>>
      => (WalkInv /\ WalksInv /\ WholeInv)'
  BY WalkStepKeeps, WalksKeep, WholeKeeps
<1> QED
  BY <1>1, <1>2, WalkStarts, WalksStart, WholeStarts, PTL DEF WalkSpec

======
