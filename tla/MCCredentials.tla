----------------------------- MODULE MCCredentials -----------------------------
(* One account, for TLC. *)
EXTENDS Credentials, TLC

Symmetric ==
    Permutations(Request) \cup Permutations(Token) \cup Permutations(Assertion)
    \cup Permutations(Package) \cup Permutations(Code)
=============================================================================
