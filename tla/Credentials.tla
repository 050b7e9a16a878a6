------------------------------ MODULE Credentials ------------------------------
(***************************************************************************)
(* Logging in and the second factor of one account (api/src/routes/auth.rs *)
(* with auth/src/mfa.rs), next to the tokens.  Each handler reads the      *)
(* account in one statement and writes it in another, without a            *)
(* transaction.  A set-up is a secret with its recovery codes; set-ups are *)
(* numbered.                                                               *)
(***************************************************************************)
EXTENDS ApiTokens

CONSTANTS
    MaxSetups,  \* bound: calls of mfa_setup that write
    Code        \* the recovery codes of a set-up

ASSUME CredentialsAssumption == MaxSetups \in Nat /\ None \notin 1..MaxSetups

VARIABLES
    account,    \* the MFA columns of the row in users
    setups,     \* calls of mfa_setup that have written
    jwts,       \* JWTs: "pending" opens the challenge, "session" everything.  They
                \* do not expire here: whatever is possible without one is with it
    used,       \* history: recovery codes that have opened a session
    twice,      \* history: one of them has opened two
    disturbed   \* history: a write was lost or rested on an outdated reading

vars == <<tokenVars, request, account, setups, jwts, used, twice, disturbed>>
history == <<used, twice, disturbed>>

Setup == 1..MaxSetups
RecoveryCode == Setup \X Code
Account == [mfa_enabled: BOOLEAN, secret: Setup \cup {None}, pending: Setup \cup {None},
            codes: SUBSET RecoveryCode]
NoFactor == [mfa_enabled |-> FALSE, secret |-> None, pending |-> None, codes |-> {}]

Init ==
    /\ tokens = [t \in Token |-> NoToken]
    /\ spent = {}
    /\ publishers = {}
    /\ request = [q \in Request |-> Idle]
    /\ account = NoFactor
    /\ setups = 0
    /\ jwts = {}
    /\ used = {} /\ twice = FALSE /\ disturbed = FALSE

\* AuthenticatedIdentity: any JWT, or a token; the handlers of the second factor ask
\* for no scope.  The others do, and a pending JWT has none of theirs.
Identified == jwts # {} \/ \E t \in Token : ControlPlaneTakes(t)
Scoped == "session" \in jwts \/ \E t \in Token : ControlPlaneTakes(t)

-----------------------------------------------------------------------------

\* login, with the right password
Login(q) ==
    /\ OneStep(q)
    /\ jwts' = jwts \cup {IF account.mfa_enabled THEN "pending" ELSE "session"}
    /\ UNCHANGED <<tokenVars, account, setups, history>>

Read(q, pc, given) ==
    /\ Start(q, [pc |-> pc, seen |-> account, given |-> given])
    /\ UNCHANGED <<tokenVars, account, setups, jwts, history>>

Write(q, row) ==
    /\ account' = row
    /\ disturbed' = (disturbed \/ account # request[q].seen)
    /\ End(q)
    /\ UNCHANGED tokenVars

SetupRead(q) ==
    Identified /\ ~account.mfa_enabled /\ setups < MaxSetups /\ Read(q, "setup", None)

SetupWrite(q) ==
    /\ request[q].pc = "setup"
    /\ setups < MaxSetups
    /\ setups' = setups + 1
    /\ Write(q, [account EXCEPT !.pending = setups', !.codes = {setups'} \X Code])
    /\ UNCHANGED <<jwts, used, twice>>

\* A TOTP code of the pending secret is given.
VerifyRead(q) ==
    /\ Identified
    /\ ~account.mfa_enabled
    /\ account.pending # None
    /\ Read(q, "enable", account.pending)

VerifyWrite(q) ==
    /\ request[q].pc = "enable"
    /\ Write(q, [account EXCEPT !.mfa_enabled = TRUE, !.secret = request[q].given, !.pending = None])
    /\ UNCHANGED <<setups, jwts, used, twice>>

DisableRead(q) ==
    Identified /\ account.mfa_enabled /\ account.secret # None /\ Read(q, "disable", None)

\* Mutant: the secret is cleared, the flag is not.
DisableHalf(q) ==
    /\ request[q].pc = "disable"
    /\ Write(q, [account EXCEPT !.secret = None, !.codes = {}])
    /\ UNCHANGED <<setups, jwts, used, twice>>

DisableWrite(q) ==
    /\ request[q].pc = "disable"
    /\ Write(q, NoFactor)
    /\ UNCHANGED <<setups, jwts, used, twice>>

\* mfa_challenge with a TOTP code writes nothing; it does not ask whether the factor
\* is still enabled, only for its secret.
ChallengeTotp(q) ==
    /\ OneStep(q)
    /\ "pending" \in jwts
    /\ account.secret # None
    /\ jwts' = jwts \cup {"session"}
    /\ UNCHANGED <<tokenVars, account, setups, history>>

ChallengeRead(q) ==
    /\ "pending" \in jwts
    /\ account.secret # None
    /\ \E c \in account.codes : Read(q, "spend", c)

\* The list without the code.  Mutant: the whole list.
RemainingAll(q) == request[q].seen.codes
Remaining(q) == request[q].seen.codes \ {request[q].given}

Opened(q) ==
    /\ jwts' = jwts \cup {"session"}
    /\ used' = used \cup {request[q].given}
    /\ twice' = (twice \/ request[q].given \in used)
    /\ UNCHANGED setups

ChallengeWrite(q) ==
    /\ request[q].pc = "spend"
    /\ Write(q, [account EXCEPT !.codes = Remaining(q)])
    /\ Opened(q)

\* An error of the UPDATE is ignored, and the session opens all the same.
ChallengeWriteLost(q) ==
    /\ request[q].pc = "spend"
    /\ disturbed' = TRUE
    /\ Opened(q)
    /\ End(q)
    /\ UNCHANGED <<tokenVars, account>>

\* The connection is lost before another handler's write.
RequestFails(q) ==
    /\ request[q].pc \in {"setup", "enable", "disable"}
    /\ End(q)
    /\ UNCHANGED <<tokenVars, account, setups, jwts, history>>

Managing(q) == Scoped /\ (CreateToken(q) \/ RevokeToken(q) \/ AddPublisher(q) \/ DropPublisher(q))
Exchanging(q) == MintMatch(q) \/ Mint(q) \/ MintFails(q)

Next ==
    \/ \E q \in Request :
          \/ Login(q)
          \/ SetupRead(q) \/ SetupWrite(q) \/ VerifyRead(q) \/ VerifyWrite(q)
          \/ DisableRead(q) \/ DisableWrite(q) \/ RequestFails(q)
          \/ ChallengeTotp(q) \/ ChallengeRead(q) \/ ChallengeWrite(q) \/ ChallengeWriteLost(q)
          \/ (Managing(q) \/ Exchanging(q)) /\ UNCHANGED <<account, setups, jwts, history>>
    \/ TokenExpires /\ UNCHANGED <<account, setups, jwts, history>>

Spec == Init /\ [][Next]_vars

-----------------------------------------------------------------------------
(* The type invariant.  An account that asks for a second factor has the   *)
(* secret to check it against, or its owner could never log in again       *)
(* (mfa_challenge: MFA secret missing).                                    *)
TypeOK ==
    /\ tokens \in [Token -> Row \cup {NoToken}]
    /\ spent \subseteq Assertion
    /\ publishers \subseteq Package
    /\ DOMAIN request = Request
    /\ account \in Account
    /\ account.mfa_enabled <=> account.secret # None
    /\ setups \in 0..MaxSetups
    /\ jwts \subseteq {"pending", "session"}

(* Recovery codes are for single use and belong to the secret they were    *)
(* shown with (auth/src/mfa.rs: TotpSetup), as long as no handler has      *)
(* written over a change it had not seen and no write was lost.            *)
CodesOnce == ~twice /\ account.codes \cap used = {}
OneSetup ==
    LET present == IF account.mfa_enabled THEN account.secret ELSE account.pending
    IN  account.codes \subseteq {present} \X Code
SecondFactorIsSound == disturbed \/ (CodesOnce /\ OneSetup)

(* An assertion buys one token, however many exchanges of it overlap or    *)
(* fail, and is spent with it; nothing takes a token that was revoked or   *)
(* has expired, and a derived one is good for uploads to PyPI alone, and   *)
(* only if an exchange made it, not create_token with that kind            *)
(* (docs/adr/0015-pypi-trusted-publishing.md, Replay protection and        *)
(* Surface confinement).                                                   *)
Bought(a) == {t \in Token : tokens[t] # NoToken /\ tokens[t].from = a}
TokensAreBound ==
    /\ \A a \in Assertion : Cardinality(Bought(a)) = IF a \in spent THEN 1 ELSE 0
    /\ \A t \in Token :
          /\ PypiUploadTakes(t) =>
                tokens[t].state = "live" /\ (tokens[t].kind = "personal" \/ tokens[t].from \in spent)
          /\ (\/ ControlPlaneTakes(t) \/ NpmTakes(t) \/ CargoTakes(t) \/ NugetTakes(t)
              \/ ComposerTakes(t) \/ RubygemsTakes(t) \/ MavenTakes(t) \/ OciTakes(t)
              \/ PypiReadTakes(t))
             => tokens[t].state = "live" /\ tokens[t].kind = "personal"
=============================================================================
