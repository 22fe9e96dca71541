----------------------------- MODULE MCIngestion -----------------------------
(* Instances of Ingestion for TLC. *)
EXTENDS Ingestion

KindOf(c) == CASE c = "pbl" -> "pbl" [] c = "corrupt" -> "corrupt"
               [] c = "large" -> "large" [] OTHER -> "text"
MCKind == [c \in Contents |-> KindOf(c)]

MCDistinctNames == [r \in Roots |-> r]

MCOneRoot == {<<1>>}
MCAnyRoots == {<<1>>, <<2>>, <<2, 1>>}
==============================================================================
