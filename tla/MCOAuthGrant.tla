---------------------------- MODULE MCOAuthGrant ----------------------------
(* Instances of OAuthGrant for TLC. *)
EXTENDS OAuthGrant, TLC

\* Ids of the same kind are interchangeable in every safety property.
Interchangeable ==
    Permutations(Token) \cup Permutations(Handler) \cup Permutations(Request)
      \cup Permutations(Admin) \cup Permutations(Scope)
      \cup Permutations(Client)
=============================================================================
