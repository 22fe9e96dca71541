------------------------------- MODULE MCAsk -------------------------------
(* Three documents: chunks 1, 2 and 3 overlap in the first; 4 and 5 hold the *)
(* same text; 6 is a configuration chunk and 7 the block of its symbol.      *)
EXTENDS Answering

Shows(doc, stream, from, to, digest, header) ==
    [doc |-> doc, stream |-> stream, first |-> from, last |-> to, lines |-> TRUE,
     configuration |-> stream \in {4, 5}, digest |-> digest, header |-> header]
MCText ==
    <<Shows(1, 1, 1, 4, 1, 2), Shows(1, 1, 3, 6, 2, 2), Shows(1, 1, 6, 9, 3, 5),
      Shows(2, 2, 1, 3, 4, 2), Shows(3, 2, 1, 3, 4, 3), Shows(4, 4, 1, 2, 6, 1),
      Shows(4, 5, 1, 2, 7, 2)>>
MCVectorScore == <<4, 3, 2, 1, 2, 3, 0>>
MCKeywordScore == <<0, 3, 1, 2, 2, 1, 0>>
MCStructuredOf == <<[block |-> 7, related |-> <<4, 3>>, score |-> 2]>>
MCGraphOf == <<3, 5>>

Run(mode, policy, budget, topK, noLlm, remote, graphs) ==
    [mode |-> mode, policy |-> policy, budget |-> budget, topK |-> topK, noLlm |-> noLlm,
     remote |-> remote, graph |-> graphs]
MCScenarios ==
    {Run("hybrid", "baseline_v1", 0, 3, FALSE, TRUE, FALSE),
     Run("keyword", "baseline_v1", 0, 3, TRUE, FALSE, TRUE),
     Run("semantic", "baseline_v1", 0, 5, FALSE, FALSE, FALSE),
     Run("semantic", "baseline_v1", 18, 3, FALSE, FALSE, TRUE),
     Run("hybrid", "optimized_v1", 14, 2, FALSE, TRUE, TRUE)}
    \cup {Run(mode, "optimized_v1", budget, topK, FALSE, FALSE, TRUE) :
            mode \in {"semantic", "hybrid"}, budget \in 10..28, topK \in 2..5}

All == 1..6
MCDatabases ==
    {[vectors |-> All, current |-> All, stored |-> All, indexed |-> TRUE],
     [vectors |-> All, current |-> {2, 3, 4}, stored |-> {1, 2, 3, 4}, indexed |-> TRUE],
     [vectors |-> {}, current |-> {1, 5}, stored |-> All, indexed |-> FALSE]}

Says(cites, terms, absent, denies, insufficient) ==
    [cites |-> cites, terms |-> terms, absent |-> absent, denies |-> denies,
     insufficient |-> insufficient]
t1 == <<1, 4>>
t2 == <<2, 2>>
MCAnswers ==
    {{{Says({1}, {t1}, {}, {}, FALSE)}, {Says({2}, {t2}, {}, {}, FALSE)}},
     {{Says({1, 2}, {t1, t2}, {}, {}, FALSE), Says({}, {t2}, {}, {}, FALSE)}},
     {{Says({1, 4}, {t1}, {}, {}, FALSE)}},
     {{Says({2}, {<<1, 9>>}, {<<1, 9>>}, {}, FALSE)}},
     {{Says({1}, {t1}, {}, {}, TRUE)}},
     {{Says({1}, {t1}, {}, {t2}, FALSE)}, {Says({}, {t1}, {}, {}, FALSE)}}}
MCQuestion == {<<1, 1>>, <<1, 9>>, <<2, 2>>}
\* The path of the second document has a word of the question.
MCHeaderTerms == [i \in 1..7 |-> IF i = 4 THEN {<<1, 9>>} ELSE {}]
MCLong == {<<1, 4>>, <<1, 9>>}
=============================================================================
