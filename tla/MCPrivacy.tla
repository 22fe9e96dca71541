----------------------------- MODULE MCPrivacy -----------------------------
EXTENDS Privacy, TLC

RefresherSymmetry == Permutations(Refreshers)

Cell(value, high, verified) == [value |-> value, high |-> high, verified |-> verified]
Offering(id, developer, platform, training, zdr, exceptions) ==
    [id |-> id, developer |-> developer, platform |-> platform,
     cells |-> [training |-> training, zdr |-> zdr], exceptions |-> exceptions]
Payload(valid, expires, offerings) ==
    [valid |-> valid, expires |-> expires, offerings |-> offerings]

Yes(at) == Cell("yes_public", TRUE, at)
Gated(at) == Cell("yes_sales_gated", TRUE, at)
Guess(at) == Cell("yes_public", FALSE, at)
For(model, cell) == [model |-> model, cells |-> [training |-> cell]]
Api(training, exceptions) ==
    Offering("anthropic-api", "anthropic", "direct_api", training, Yes(0), exceptions)
Cloud == Offering("ollama-cloud", "ollama", "ollama_cloud", Gated(1), Gated(1), {})

MCPublications ==
    {Payload(TRUE, 4, {Api(Yes(1), {For("m2", Gated(1))})}),
     Payload(TRUE, 0, {Api(Guess(1), {For("m2", Yes(2))}), Cloud}),
     Payload(TRUE, 0, {Api(Yes(4), {})}),
     Payload(TRUE, 2, {Api(Yes(1), {For("m1", Yes(1)), For("m1", Gated(1))})}),
     Payload(FALSE, 0, {Api(Yes(1), {})})}

Llm(provider, direct, declared, model) ==
    [provider |-> provider, direct |-> direct, declared |-> declared, model |-> model]
MCConfigurations ==
    {Llm("anthropic", FALSE, "auto", "m1"), Llm("anthropic", FALSE, "auto", "m2"),
     Llm("ollama", FALSE, "auto", "m1"), Llm("ollama", TRUE, "auto", "m1"),
     Llm("ollama", TRUE, "local", "m1"), Llm("ollama", FALSE, "local", "m1")}
=============================================================================
