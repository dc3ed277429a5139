----------------------------- MODULE MCSession -----------------------------
(* Instances of Session for TLC. *)
EXTENDS Session, TLC

\* Handlers and processes are interchangeable in every property.
Interchangeable ==
    Permutations(Handler) \cup Permutations(Node)
=============================================================================
