------------------------------- MODULE Catalog -------------------------------
(***************************************************************************)
(* What ingestion promises to the readers of the catalogue (index, search,  *)
(* analyze, ask): the text they see under a file is always one complete     *)
(* text that file really had; it is replaced one file at a time, and it may *)
(* be withdrawn from several files at once.                                 *)
(***************************************************************************)
CONSTANTS File, Contents, NoContent

VARIABLES
    history,    \* [File -> the contents the file has had so far]
    published   \* [File -> the text readers see, or NoContent]

vars == <<history, published>>

Init ==
    /\ history \in [File -> SUBSET Contents]
    /\ published = [f \in File |-> NoContent]

\* The user writes a file.
Write(f) ==
    /\ \E c \in Contents : history' = [history EXCEPT ![f] = @ \cup {c}]
    /\ UNCHANGED published

\* One file's text is published or replaced.
Publish(f) ==
    /\ \E c \in history[f] : published' = [published EXCEPT ![f] = c]
    /\ UNCHANGED history

\* The texts of some files stop being visible: errors, skips, reconciliation.
Withdraw(S) ==
    /\ published' = [f \in File |-> IF f \in S THEN NoContent ELSE published[f]]
    /\ UNCHANGED history

Next ==
    \/ \E f \in File : Write(f) \/ Publish(f)
    \/ \E S \in SUBSET File : Withdraw(S)

Spec == Init /\ [][Next]_vars
==============================================================================
