----------------------------- MODULE MCGovernance -----------------------------
(* Instances of Governance for TLC.                                        *)
EXTENDS Governance, TLC

CONSTANTS ann, bob, acme, umbrella, builders, testers

TeamOrg == builders :> acme @@ testers :> umbrella
SmallGrants == [package |-> {{"publish"}}, repository |-> {{"admin"}, {"read_private"}},
                namespace |-> {{"transfer_ownership"}}]
Symmetric == Permutations(Request)
=============================================================================
