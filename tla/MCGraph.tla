------------------------------- MODULE MCGraph -------------------------------
(* The three commands over one graph, one of them at a time.                 *)
EXTENDS DependencyWalk, GraphExpansion

CONSTANTS s1, s2, s3, n1, n2, c1, c2

Row(from, to) == [source |-> from, target |-> to, resolved |-> TRUE]
Open(from) == [source |-> from, target |-> NoSymbol, resolved |-> FALSE]
Four(a, b, c, d) == <<a, b, c, d>>

\* A chain with a loop, a diamond with a cycle of equals, a triangle, parallel
\* rows, a star that meets again, and rows that lead nowhere.
MCGraphs ==
    {Four(Row(s1, s2), Row(s2, s3), Row(s3, s3), Gone),
     Four(Row(s1, s2), Row(s1, s3), Row(s2, s3), Row(s3, s2)),
     Four(Row(s1, s2), Row(s2, s3), Row(s3, s1), Open(s1)),
     Four(Row(s1, s2), Row(s1, s2), Row(s2, s1), Row(s3, s2)),
     Four(Open(s2), Row(s2, NoSymbol), Row(NoSymbol, s1), Row(s1, s3))}
MCPublished == {Row(s1, s3), Open(s3)}
MCNamed == [n \in {n1, n2} |-> IF n = n1 THEN {s1} ELSE {s2, s3}]
MCChunkOf == [s \in Symbols |-> IF s = s2 THEN c1 ELSE IF s = s3 THEN c2 ELSE NoChunk]
MCEvidenceOf == [i \in RelationIds |-> IF i = 1 THEN c2 ELSE IF i = 2 THEN c1 ELSE NoChunk]
MCRetrieved == {<<{s1}>>, <<{s2, s3}, {s1}>>, <<{s1, s2}, {s1, s3}>>}

vars == <<graph, walkVars, expandVars>>

\* A process that runs describe or impact, or one that retrieves evidence.
Walks == WalkInit /\ NoExpansion /\ phase = "done" /\ current = {} /\ stored = {}
         /\ candidates = <<>>
Retrieves == (query = CHOOSE q \in Query : TRUE) /\ NoWalk /\ walkPhase = "not_found"
             /\ ExpandInit
Init == GraphInit /\ (Walks \/ Retrieves)

Next ==
    \/ WalkNext /\ UNCHANGED expandVars
    \/ ExpandNext /\ UNCHANGED walkVars

\* A command is a loop without waits: the process that runs it is scheduled.
FairSpec ==
    Init /\ [][Next]_vars /\ WF_vars(WalkStep /\ UNCHANGED expandVars) /\ WF_vars(ExpandStep /\ UNCHANGED walkVars)

\* No cycle keeps a walk or an expansion going.
CommandsEnd == QueryEnds /\ RetrievalEnds
=============================================================================
