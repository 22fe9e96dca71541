------------------------------- MODULE MCSetup -------------------------------
(* Instances of Setup for TLC. *)
EXTENDS Setup, TLC

\* Ollama gives a tag to the name that has none.
MCReportedAs == [m \in Models |-> IF m = "llama" THEN "llama:latest" ELSE m]

Content(provider, model, editable) == [provider |-> provider, model |-> model, editable |-> editable]
\* The user changes the model, or the provider and later its model, or writes the model
\* in two places.
MCConfigurations ==
    {Content("ollama", "qwen:7b", TRUE), Content("ollama", "llama", TRUE),
     Content("anthropic", "qwen:7b", TRUE), Content("ollama", "qwen:7b", FALSE)}

Alike == Permutations(Processes) \cup Permutations(Clients)
=============================================================================
