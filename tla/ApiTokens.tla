------------------------------- MODULE ApiTokens -------------------------------
(***************************************************************************)
(* API tokens (api/src/routes/tokens.rs), trusted publishers               *)
(* (trusted_publishers.rs), the exchange of an external assertion for a    *)
(* short-lived token (pypi_oidc.rs), and what every endpoint that takes a  *)
(* token asks of it (request_auth.rs and the adapters' authenticate).  The *)
(* assertions all come from one pipeline, so that the same publishers      *)
(* match them; whether a request may touch a package is Governance's.      *)
(***************************************************************************)
EXTENDS Naturals, FiniteSets

CONSTANTS
    Token,      \* rows that may come to exist
    Assertion,  \* external JWTs, by issuer and jti
    Package,
    Request,
    None

ASSUME TokensAssumption == None \notin Assertion \cup Package

VARIABLES
    tokens,     \* table tokens
    spent,      \* table oidc_token_replays: assertions that have been exchanged
    publishers, \* packages with a trusted publisher that matches; an archived one has none
    request     \* the requests under way

tokenVars == <<tokens, spent, publishers>>

Kind == {"personal", "oidc_derived"}
Row == [state: {"live", "dead"}, kind: Kind,     \* dead: is_revoked, or past expires_at
        package: Package \cup {None}, from: Assertion \cup {None}]
NoToken == [state |-> "none"]

Idle == [pc |-> "idle"]
Start(q, op) == request[q] = Idle /\ request' = [request EXCEPT ![q] = op]
End(q) == request' = [request EXCEPT ![q] = Idle]
OneStep(q) == request[q] = Idle /\ UNCHANGED request

-----------------------------------------------------------------------------
(* What each endpoint asks of a token that begins with pub_.               *)

Live(t) == tokens[t].state = "live"
Personal(t) == Live(t) /\ tokens[t].kind # "oidc_derived"

ControlPlaneTakes(t) == Personal(t)
NpmTakes(t) == Personal(t)
CargoTakes(t) == Personal(t)
NugetTakes(t) == Personal(t)
ComposerTakes(t) == Personal(t)
RubygemsTakes(t) == Personal(t)
MavenTakes(t) == Personal(t)
OciTakes(t) == Personal(t)
PypiReadTakes(t) == Personal(t)
\* Of the derived tokens, those the exchange has bound to a package
PypiUploadTakes(t) ==
    Live(t) /\ (tokens[t].kind = "oidc_derived" => tokens[t].package # None)

-----------------------------------------------------------------------------
(* Tokens and publishers; a handler's statements are one transaction, or   *)
(* one statement.  The kind is whatever the request says.                  *)

CreateToken(q) ==
    /\ OneStep(q)
    /\ \E t \in Token, k \in Kind :
          /\ tokens[t] = NoToken
          /\ tokens' = [tokens EXCEPT ![t] =
                          [state |-> "live", kind |-> k, package |-> None, from |-> None]]
    /\ UNCHANGED <<spent, publishers>>

RevokeToken(q) ==
    /\ OneStep(q)
    /\ \E t \in Token : Live(t) /\ tokens' = [tokens EXCEPT ![t].state = "dead"]
    /\ UNCHANGED <<spent, publishers>>

TokenExpires ==
    /\ \E t \in Token : Live(t) /\ tokens' = [tokens EXCEPT ![t].state = "dead"]
    /\ UNCHANGED <<spent, publishers, request>>

AddPublisher(q) ==
    /\ OneStep(q)
    /\ \E p \in Package \ publishers : publishers' = publishers \cup {p}
    /\ UNCHANGED <<tokens, spent>>

DropPublisher(q) ==
    /\ OneStep(q)
    /\ \E p \in publishers : publishers' = publishers \ {p}
    /\ UNCHANGED <<tokens, spent>>

-----------------------------------------------------------------------------
(* The exchange.                                                           *)

\* load_matching_trusted_publishers, select_single_trusted_publisher
MintMatch(q) ==
    /\ Cardinality(publishers) = 1
    /\ \E a \in Assertion, p \in publishers :
          Start(q, [pc |-> "mint", assertion |-> a, package |-> p])
    /\ UNCHANGED tokenVars

\* The row of a minted token
Derived(m) ==
    [state |-> "live", kind |-> "oidc_derived", package |-> m.package, from |-> m.assertion]

\* Mutant: the number of replay rows inserted is not looked at.
MintReplayed(q) ==
    /\ request[q].pc = "mint"
    /\ spent' = spent \cup {request[q].assertion}
    /\ \E t \in Token : tokens[t] = NoToken /\ tokens' = [tokens EXCEPT ![t] = Derived(request[q])]
    /\ End(q)
    /\ UNCHANGED publishers

\* The transaction inserts the replay row and the token, or, if the replay row is
\* there, neither.
Mint(q) ==
    /\ request[q].pc = "mint"
    /\ IF request[q].assertion \in spent
       THEN UNCHANGED <<tokens, spent>>
       ELSE /\ spent' = spent \cup {request[q].assertion}
            /\ \E t \in Token :
                  tokens[t] = NoToken /\ tokens' = [tokens EXCEPT ![t] = Derived(request[q])]
    /\ End(q)
    /\ UNCHANGED publishers

\* Any statement of it fails, or the commit does.
MintFails(q) ==
    /\ request[q].pc = "mint"
    /\ End(q)
    /\ UNCHANGED tokenVars
=============================================================================
