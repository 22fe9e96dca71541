--------------------------- MODULE MCSemanticIndex ---------------------------
(* Instances of SemanticIndex for TLC: chunk ids 10 * file + n.              *)
EXTENDS SemanticIndex

MCOwner == [c \in Chunks |-> c \div 10]

\* The documents a version of a file may have; versions of one file share no id.
MCVersions == {{}, {11}, {12}}
MCTwoFiles == {{}, {11}, {21, 22}}

\* A file, a document or a chunk.
MCScopes == {{11}, {21}}
==============================================================================
