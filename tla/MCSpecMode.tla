----------------------------- MODULE MCSpecMode -----------------------------
EXTENDS SpecMode, TLC

CreatorsAlike == Permutations(Creators)

Foreign == <<"chunk", "k9", 1>>
Text(marked, cites) == [marked |-> marked, cites |-> cites]
Asks(actions, entities, terms, words, title) ==
    [actions |-> actions, entities |-> entities, terms |-> terms, marked |-> words.marked,
     cites |-> words.cites, title |-> title]
\* With an action and three entities; vague, and called by the forbidden word; with the
\* word and a citation of the corpus in its name; with a citation of another time.
MCRequirements ==
    {Asks({"validar"}, <<"pago", "pkg_a", "pkg_b">>, <<>>, Text(FALSE, {}), Text(FALSE, {})),
     Asks({}, <<>>, <<"pago">>, Text(FALSE, {}), Text(TRUE, {})),
     Asks({"validar"}, <<"saldo">>, <<>>, Text(FALSE, {}), Text(TRUE, {<<"chunk", "k1", 1>>})),
     Asks({"validar"}, <<"saldo">>, <<>>, Text(TRUE, {Foreign}), Text(FALSE, {}))}

Chunk(id, words, marked, cites) == [id |-> id, words |-> words, marked |-> marked, cites |-> cites]
MCCorpora ==
    {<<>>,
     <<Chunk("k1", {"validar", "pago", "pkg_a"}, TRUE, {}), Chunk("k2", {"validar", "saldo"}, FALSE, {Foreign})>>}

Relation(source, target, status, key) ==
    [source |-> source, target |-> target, status |-> status, key |-> key]
Names2(a, b, pago) ==
    [e \in {"pkg_a", "pkg_b", "pago", "saldo"} |->
        CASE e = "pkg_a" -> a [] e = "pkg_b" -> b [] e = "pago" -> pago [] OTHER -> {}]
\* A chain with a consumer, an open end and a loop; then a symbol is retired, a name is
\* ambiguous, and ends are external, deleted or unresolved.
MCCatalogs ==
    {[symbols |-> {"s1", "s2", "s3"}, named |-> Names2({"s1"}, {"s2"}, {"s3"}),
      relations |-> <<Relation("s1", "s2", "resolved", "s2"),
                      Relation("s3", "s1", "resolved", "s1"),
                      Relation("s2", "none", "ambiguous", "x"),
                      Relation("s2", "s2", "resolved", "s2")>>],
     [symbols |-> {"s2", "s3"}, named |-> Names2({"s2", "s3"}, {"s2"}, {"s3"}),
      relations |-> <<Relation("s2", "none", "external", "z"),
                      Relation("s2", "none", "resolved", "s4"),
                      Relation("none", "s2", "unresolved", "w")>>]}
=============================================================================
