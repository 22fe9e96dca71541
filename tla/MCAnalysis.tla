----------------------------- MODULE MCAnalysis -----------------------------
(* Instances of Analysis for TLC.                                            *)
EXTENDS Analysis

\* "call" defines 1 and names it or 2; "copy" defines 1 as well; "impl" defines 2.
MCDefines == [t \in Texts |-> CASE t = "call" -> 1 [] t = "copy" -> 1 [] t = "impl" -> 2
                                [] OTHER -> NoSymbol]
MCRefers == [t \in Texts |-> IF t = "call" THEN Refs ELSE {}]
MCCompatible == [r \in Refs |-> {1, 2}]
MCKind == [r \in Refs |-> CASE r = 1 -> "plain" [] r = 2 -> "qualified" [] OTHER -> "dynamic"]
MCContainer == [s \in Symbols |-> IF s = 1 THEN "k" ELSE NoContainer]

MCPrefixes == {{2}}
==============================================================================
