--------------------------- MODULE TechnicalGraph ---------------------------
(***************************************************************************)
(* The symbols and active relations that `analyze` published, as the graph  *)
(* readers see them (SQLiteReverseEngineeringRepository,                    *)
(* infrastructure/sqlite.py).  Every query opens a connection of its own,   *)
(* so ingestion and analysis in other processes commit between two of them. *)
(***************************************************************************)
EXTENDS Naturals, Sequences, FiniteSets

CONSTANTS
    Symbols,        \* symbol ids
    NoSymbol,       \* NULL
    RelationIds,    \* relation ids: numbers, in the order queries return them
    InitialGraphs,  \* [RelationIds -> Relation] that an analysis may have left
    Published,      \* rows that another analysis may publish meanwhile
    InDomain,       \* symbols whose file belongs to the configured domain
    MaxEdits        \* bound: commits of other processes

SymbolOrNull == Symbols \cup {NoSymbol}

\* A row of relations with status 'active'.  Its resolution does not follow
\* from its target: ON DELETE SET NULL leaves a resolved row without one.
Relation == [source : SymbolOrNull, target : SymbolOrNull, resolved : BOOLEAN]

\* A relation that is stale or absent: adjacent to no symbol.
Gone == [source |-> NoSymbol, target |-> NoSymbol, resolved |-> FALSE]

ASSUME GraphData ==
    /\ RelationIds \subseteq Nat /\ IsFiniteSet(RelationIds)
    /\ NoSymbol \notin Symbols /\ IsFiniteSet(Symbols)
    /\ InitialGraphs \subseteq [RelationIds -> Relation] /\ Published \subseteq Relation
    /\ InDomain \subseteq Symbols
    /\ MaxEdits \in Nat

Directions == {"outgoing", "incoming", "both"}

VARIABLES
    live,       \* symbols with status 'active'
    relations,  \* [RelationIds -> Relation]
    edits       \* commits of other processes since the reader started

graph == <<live, relations, edits>>

GraphTypeOK ==
    /\ live \subseteq Symbols
    /\ relations \in [RelationIds -> Relation]
    /\ edits \in 0..MaxEdits

GraphInit ==
    /\ live \in {Symbols} \cup {Symbols \ {s} : s \in Symbols}
    /\ relations \in InitialGraphs
    /\ edits = 0

\* active_relations_for_symbol: the rows of one snapshot.
Adjacent(s, direction) ==
    {i \in RelationIds :
        \/ direction # "incoming" /\ relations[i].source = s
        \/ direction # "outgoing" /\ relations[i].target = s}

\* The other end of a row that is adjacent to s; s itself for a loop.
OtherEnd(s, r) == IF r.source = s THEN r.target ELSE r.source

(* Commits of other processes. *)
Edit == edits < MaxEdits /\ edits' = edits + 1

\* An analysis publishes, replaces or supersedes a relation.
UpsertRelation ==
    /\ Edit
    /\ \E i \in RelationIds, r \in Published : relations' = [relations EXCEPT ![i] = r]
    /\ UNCHANGED live

\* An analysis marks a symbol stale; the relations keep pointing at it.
StaleSymbol ==
    /\ Edit
    /\ \E s \in live : live' = live \ {s}
    /\ UNCHANGED relations

\* Ingestion deletes the symbol's file: ON DELETE SET NULL.
DropSymbol ==
    /\ Edit
    /\ \E s \in live :
        /\ live' = live \ {s}
        /\ relations' = [i \in RelationIds |->
                [relations[i] EXCEPT !.source = IF @ = s THEN NoSymbol ELSE @,
                                     !.target = IF @ = s THEN NoSymbol ELSE @]]

OtherProcess == UpsertRelation \/ StaleSymbol \/ DropSymbol
==============================================================================
