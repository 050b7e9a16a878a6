--------------------------- MODULE CredentialsProofs ---------------------------
(***************************************************************************)
(* What holds of one account and its tokens for every number of requests,  *)
(* tokens, assertions, packages and set-ups.                               *)
(***************************************************************************)
EXTENDS Credentials, FiniteSetTheorems, TLAPS

\* What a request under way carries.  It read the account before; what it was
\* given fits the account as it was then.
Minting == [pc : {"mint"}, assertion : Assertion, package : Package]
Changing == [pc : {"setup", "enable", "disable", "spend"}, seen : Account,
             given : RecoveryCode \cup Setup \cup {None}]
GivenFits(r) ==
    /\ r.pc = "setup" => ~r.seen.mfa_enabled
    /\ r.pc = "enable" => ~r.seen.mfa_enabled /\ r.given \in Setup /\ r.given = r.seen.pending
    /\ r.pc = "spend" => r.given \in r.seen.codes
RequestsFit ==
    /\ request \in [Request -> {Idle} \cup Minting \cup Changing]
    /\ \A q \in Request : GivenFits(request[q])

\* Codes, in the account or used, are those of set-ups that have been written, so
\* that the codes of the next one are new.
CodesAreOfSetups ==
    /\ account.codes \subseteq (1..setups) \X Code
    /\ used \subseteq (1..setups) \X Code
    /\ \A q \in Request : request[q].pc = "spend" => request[q].seen.codes \subseteq (1..setups) \X Code

\* A spent assertion has bought exactly one token, and derived tokens that work
\* were bought.
BoughtOnce ==
    /\ \A a \in Assertion :
          /\ a \notin spent => Bought(a) = {}
          /\ a \in spent => \E t \in Token : Bought(a) = {t}
    /\ \A t \in Token : tokens[t] # NoToken /\ tokens[t].package # None => tokens[t].from \in spent

IInv == TypeOK /\ RequestsFit /\ CodesAreOfSetups /\ SecondFactorIsSound /\ BoughtOnce

USE TokensAssumption, CredentialsAssumption

-----------------------------------------------------------------------------

\* Where nothing is under way, nothing has been exchanged and no code exists, all
\* of it holds.
LEMMA InitEstablishes == Init => IInv
<1> SUFFICES ASSUME Init PROVE IInv
    OBVIOUS
<1>1. TypeOK
    BY DEF Init, TypeOK, Account, NoFactor
<1>2. RequestsFit
    BY DEF Init, RequestsFit, GivenFits, Idle
<1>3. CodesAreOfSetups
    BY DEF Init, CodesAreOfSetups, NoFactor, Idle
<1>4. SecondFactorIsSound
    BY DEF Init, SecondFactorIsSound, CodesOnce, OneSetup, NoFactor
<1>5. BoughtOnce
    BY DEF Init, BoughtOnce, Bought
<1> QED
    BY <1>1, <1>2, <1>3, <1>4, <1>5 DEF IInv

-----------------------------------------------------------------------------
(* Tokens and assertions.  The account is left alone.                      *)

\* A request that ends, or begins an exchange, leaves what the others carry.
LEMMA RequestEnds ==
    ASSUME IInv, NEW q \in Request, End(q), UNCHANGED <<account, setups, used>>
    PROVE  RequestsFit' /\ CodesAreOfSetups'
<1>1. request' = [request EXCEPT ![q] = Idle] /\ request \in [Request -> {Idle} \cup Minting \cup Changing]
    BY DEF IInv, RequestsFit, End
<1>2. \A r \in Request : request'[r] = Idle \/ request'[r] = request[r]
    BY <1>1
<1>3. RequestsFit'
    BY <1>1, <1>2 DEF IInv, RequestsFit, GivenFits, Idle
<1> QED
    BY <1>2, <1>3 DEF IInv, CodesAreOfSetups, Idle

\* The same of one that begins an exchange.
LEMMA RequestStarts ==
    ASSUME IInv, NEW q \in Request, NEW op \in Minting, Start(q, op),
           UNCHANGED <<account, setups, used>>
    PROVE  RequestsFit' /\ CodesAreOfSetups'
<1>1. request' = [request EXCEPT ![q] = op] /\ request \in [Request -> {Idle} \cup Minting \cup Changing]
    BY DEF IInv, RequestsFit, Start
<1>2. \A r \in Request : request'[r] = op \/ request'[r] = request[r]
    BY <1>1
<1>3. op.pc = "mint"
    BY DEF Minting
<1>4. RequestsFit'
    BY <1>1, <1>2, <1>3 DEF IInv, RequestsFit, GivenFits
<1> QED
    BY <1>2, <1>3, <1>4 DEF IInv, CodesAreOfSetups

\* Without a change of requests and account there is nothing to show.
LEMMA RequestsStay ==
    ASSUME IInv, UNCHANGED <<request, account, setups, used>>
    PROVE  RequestsFit' /\ CodesAreOfSetups'
BY DEF IInv, RequestsFit, CodesAreOfSetups, GivenFits

\* A token that was not there, for no assertion, or for one that is spent with it.
LEMMA CreateStep ==
    ASSUME IInv, NEW q \in Request, CreateToken(q), UNCHANGED <<account, setups, jwts, history>>
    PROVE  IInv'
<1>1. PICK t \in Token, k \in Kind :
            /\ tokens[t] = NoToken
            /\ tokens' = [tokens EXCEPT ![t] =
                            [state |-> "live", kind |-> k, package |-> None, from |-> None]]
    BY DEF CreateToken
<1>2. UNCHANGED <<spent, publishers, request, account, setups, jwts, used, twice, disturbed>>
    BY DEF CreateToken, OneStep, history
<1>3. tokens \in [Token -> Row \cup {NoToken}]
    BY DEF IInv, TypeOK
<1> DEFINE new == [state |-> "live", kind |-> k, package |-> None, from |-> None]
<1>4. new \in Row /\ new.package = None /\ new.from = None
    BY DEF Row
<1>5. tokens' \in [Token -> Row \cup {NoToken}]
    BY <1>1, <1>3, <1>4
<1>6. tokens'[t] = new /\ \A s \in Token \ {t} : tokens'[s] = tokens[s]
    BY <1>1, <1>3
<1>7. TypeOK'
    BY <1>2, <1>5 DEF IInv, TypeOK, Account
<1>8. \A a \in Assertion : Bought(a)' = Bought(a)
    BY <1>1, <1>4, <1>6 DEF Bought
<1>9. BoughtOnce'
    BY <1>2, <1>4, <1>6, <1>8 DEF IInv, BoughtOnce
<1>10. SecondFactorIsSound'
    BY <1>2 DEF IInv, SecondFactorIsSound, CodesOnce, OneSetup
<1> QED
    BY <1>2, <1>7, <1>9, <1>10, RequestsStay DEF IInv

\* A token is revoked or expires: it keeps what it was made for.
LEMMA TokenDies ==
    ASSUME IInv, NEW t \in Token, Live(t), tokens' = [tokens EXCEPT ![t].state = "dead"],
           UNCHANGED <<spent, publishers, request, account, setups, jwts, history>>
    PROVE  IInv'
<1>1. tokens \in [Token -> Row \cup {NoToken}]
    BY DEF IInv, TypeOK
<1>2. tokens[t] \in Row
    BY <1>1 DEF Live, NoToken
<1>3. tokens'[t] = [tokens[t] EXCEPT !.state = "dead"]
    BY <1>1
<1>4. /\ tokens'[t] \in Row /\ tokens'[t].kind = tokens[t].kind
      /\ tokens'[t].package = tokens[t].package /\ tokens'[t].from = tokens[t].from
    BY <1>2, <1>3 DEF Row
<1>5. \A s \in Token \ {t} : tokens'[s] = tokens[s]
    BY <1>1
<1>6. tokens' \in [Token -> Row \cup {NoToken}]
    BY <1>1, <1>4, <1>5
<1>7. UNCHANGED <<used, twice, disturbed>>
    BY DEF history
<1>8. TypeOK'
    BY <1>6, <1>7 DEF IInv, TypeOK, Account
<1>9. tokens[t] # NoToken /\ tokens'[t] # NoToken
    BY <1>2, <1>4 DEF Row, NoToken
<1>10. \A a \in Assertion : Bought(a)' = Bought(a)
    BY <1>4, <1>5, <1>9 DEF Bought
<1>11. BoughtOnce'
    BY <1>4, <1>5, <1>9, <1>10 DEF IInv, BoughtOnce
<1>12. SecondFactorIsSound'
    BY <1>7 DEF IInv, SecondFactorIsSound, CodesOnce, OneSetup
<1> QED
    BY <1>7, <1>8, <1>11, <1>12, RequestsStay DEF IInv

\* Publishers come and go; what was bought stays bought.
LEMMA PublisherStep ==
    ASSUME IInv, NEW q \in Request, AddPublisher(q) \/ DropPublisher(q),
           UNCHANGED <<account, setups, jwts, history>>
    PROVE  IInv'
<1>1. UNCHANGED <<tokens, spent, request, account, setups, jwts, used, twice, disturbed>>
    BY DEF AddPublisher, DropPublisher, OneStep, history
<1>2. publishers' \subseteq Package
    BY DEF AddPublisher, DropPublisher, IInv, TypeOK
<1>3. TypeOK'
    BY <1>1, <1>2 DEF IInv, TypeOK, Account
<1>4. BoughtOnce'
    BY <1>1 DEF IInv, BoughtOnce, Bought
<1>5. SecondFactorIsSound'
    BY <1>1 DEF IInv, SecondFactorIsSound, CodesOnce, OneSetup
<1> QED
    BY <1>1, <1>3, <1>4, <1>5, RequestsStay DEF IInv

\* The exchange begins, or fails: nothing is bought.
LEMMA ExchangeStep ==
    ASSUME IInv, NEW q \in Request, MintMatch(q) \/ MintFails(q),
           UNCHANGED <<account, setups, jwts, history>>
    PROVE  IInv'
<1>1. UNCHANGED <<tokens, spent, publishers, account, setups, jwts, used, twice, disturbed>>
    BY DEF MintMatch, MintFails, history, tokenVars
<1>2. RequestsFit' /\ CodesAreOfSetups'
    <2>1. CASE MintFails(q)
        BY <2>1, <1>1, RequestEnds DEF MintFails
    <2>2. CASE MintMatch(q)
        <3>1. PICK a \in Assertion, p \in publishers :
                    Start(q, [pc |-> "mint", assertion |-> a, package |-> p])
            BY <2>2 DEF MintMatch
        <3>2. [pc |-> "mint", assertion |-> a, package |-> p] \in Minting
            BY <3>1 DEF Minting, IInv, TypeOK
        <3> QED
            BY <3>1, <3>2, <1>1, RequestStarts
    <2> QED
        BY <2>1, <2>2
<1>3. TypeOK'
    <2>1. DOMAIN request' = Request
        BY <1>2 DEF RequestsFit
    <2> QED
        BY <1>1, <2>1 DEF IInv, TypeOK, Account
<1>4. BoughtOnce'
    BY <1>1 DEF IInv, BoughtOnce, Bought
<1>5. SecondFactorIsSound'
    BY <1>1 DEF IInv, SecondFactorIsSound, CodesOnce, OneSetup
<1> QED
    BY <1>2, <1>3, <1>4, <1>5 DEF IInv

\* The exchange commits: the assertion is spent with the token it buys, or was
\* spent before and buys none.
LEMMA MintStep ==
    ASSUME IInv, NEW q \in Request, Mint(q), UNCHANGED <<account, setups, jwts, history>>
    PROVE  IInv'
<1> DEFINE m == request[q]
           new == Derived(m)
<1>1. UNCHANGED <<publishers, account, setups, jwts, used, twice, disturbed>>
    BY DEF Mint, history
<1>2. RequestsFit' /\ CodesAreOfSetups'
    BY <1>1, RequestEnds DEF Mint
<1>3. m.assertion \in Assertion /\ m.package \in Package
    <2>1. m \in {Idle} \cup Minting \cup Changing /\ m.pc = "mint"
        BY DEF IInv, RequestsFit, Mint
    <2>2. m \in Minting
        BY <2>1 DEF Idle, Changing
    <2> QED
        BY <2>2 DEF Minting
<1>4. tokens \in [Token -> Row \cup {NoToken}]
    BY DEF IInv, TypeOK
<1>5. SecondFactorIsSound'
    BY <1>1 DEF IInv, SecondFactorIsSound, CodesOnce, OneSetup
<1>6. DOMAIN request' = Request
    BY <1>2 DEF RequestsFit
<1>7. CASE m.assertion \in spent
    <2>1. UNCHANGED <<tokens, spent>>
        BY <1>7 DEF Mint
    <2> QED
        BY <2>1, <1>1, <1>2, <1>5, <1>6 DEF IInv, TypeOK, Account, BoughtOnce, Bought
<1>8. CASE m.assertion \notin spent
    <2> PICK a \in Assertion : a = m.assertion
        BY <1>3
    <2>1. PICK t \in Token : tokens[t] = NoToken /\ tokens' = [tokens EXCEPT ![t] = new]
        BY <1>8 DEF Mint
    <2>2. spent' = spent \cup {a}
        BY <1>8 DEF Mint
    <2>3. new \in Row /\ new.from = a
        BY <1>3 DEF Derived, Row, Kind
    <2>4. tokens'[t] = new /\ \A s \in Token \ {t} : tokens'[s] = tokens[s]
        BY <2>1, <1>4
    <2>5. tokens' \in [Token -> Row \cup {NoToken}]
        BY <2>1, <2>3, <1>4
    <2>6. TypeOK'
        BY <2>2, <2>5, <1>1, <1>3, <1>6 DEF IInv, TypeOK, Account
    <2>7. new # NoToken
        BY <2>3 DEF Row, NoToken
    <2>8. Bought(a)' = {t}
        <3>1. Bought(a) = {}
            BY <1>8 DEF IInv, BoughtOnce
        <3> QED
            BY <3>1, <2>3, <2>4, <2>7 DEF Bought
    <2>9. \A b \in Assertion \ {a} : Bought(b)' = Bought(b)
        BY <2>1, <2>3, <2>4, <2>7 DEF Bought
    <2>10. BoughtOnce'
        BY <2>2, <2>3, <2>4, <2>8, <2>9 DEF IInv, BoughtOnce
    <2> QED
        BY <2>6, <2>10, <1>2, <1>5 DEF IInv
<1> QED
    BY <1>7, <1>8

-----------------------------------------------------------------------------
(* The account.  Tokens, assertions and publishers are left alone.         *)

\* Without a change of tokens and assertions nothing was bought.
LEMMA TokensStay ==
    ASSUME IInv, UNCHANGED tokenVars
    PROVE  BoughtOnce'
BY DEF IInv, BoughtOnce, Bought, tokenVars

\* Logging in, and the challenge with a TOTP code, open a session and no more.
LEMMA SessionStep ==
    ASSUME IInv, NEW q \in Request, Login(q) \/ ChallengeTotp(q)
    PROVE  IInv'
<1>1. UNCHANGED <<tokens, spent, publishers, request, account, setups, used, twice, disturbed>>
    BY DEF Login, ChallengeTotp, OneStep, history, tokenVars
<1>2. jwts' \subseteq {"pending", "session"}
    BY DEF Login, ChallengeTotp, IInv, TypeOK
<1>3. TypeOK'
    BY <1>1, <1>2 DEF IInv, TypeOK, Account
<1>4. SecondFactorIsSound'
    BY <1>1 DEF IInv, SecondFactorIsSound, CodesOnce, OneSetup
<1> QED
    BY <1>1, <1>3, <1>4, RequestsStay, TokensStay DEF IInv, tokenVars

\* A handler reads the account.
LEMMA ReadStep ==
    ASSUME IInv, NEW q \in Request,
           SetupRead(q) \/ VerifyRead(q) \/ DisableRead(q) \/ ChallengeRead(q)
    PROVE  IInv'
<1>1. UNCHANGED <<tokens, spent, publishers, account, setups, jwts, used, twice, disturbed>>
    BY DEF SetupRead, VerifyRead, DisableRead, ChallengeRead, Read, history, tokenVars
<1>2. PICK op : /\ Start(q, op) /\ op \in Changing /\ GivenFits(op)
                /\ op.pc = "spend" => op.seen = account
    <2>1. account \in Account
        BY DEF IInv, TypeOK
    <2>2. CASE SetupRead(q)
        <3>1. [pc |-> "setup", seen |-> account, given |-> None] \in Changing
            BY <2>1 DEF Changing
        <3> QED
            BY <2>2, <3>1 DEF SetupRead, Read, GivenFits
    <2>3. CASE VerifyRead(q)
        <3>1. account.pending \in Setup
            BY <2>1, <2>3 DEF VerifyRead, Account
        <3>2. [pc |-> "enable", seen |-> account, given |-> account.pending] \in Changing
            BY <2>1, <3>1 DEF Changing
        <3> QED
            BY <2>3, <3>1, <3>2 DEF VerifyRead, Read, GivenFits
    <2>4. CASE DisableRead(q)
        <3>1. [pc |-> "disable", seen |-> account, given |-> None] \in Changing
            BY <2>1 DEF Changing
        <3> QED
            BY <2>4, <3>1 DEF DisableRead, Read, GivenFits
    <2>5. CASE ChallengeRead(q)
        <3>1. PICK c \in account.codes : Read(q, "spend", c)
            BY <2>5 DEF ChallengeRead
        <3>2. [pc |-> "spend", seen |-> account, given |-> c] \in Changing
            BY <2>1 DEF Changing, Account
        <3> QED
            BY <3>1, <3>2 DEF Read, GivenFits
    <2> QED
        BY <2>2, <2>3, <2>4, <2>5
<1>3. request' = [request EXCEPT ![q] = op] /\ request \in [Request -> {Idle} \cup Minting \cup Changing]
    BY <1>2 DEF IInv, RequestsFit, Start
<1>4. \A r \in Request : request'[r] = op \/ request'[r] = request[r]
    BY <1>3
<1>5. RequestsFit'
    BY <1>2, <1>3, <1>4 DEF IInv, RequestsFit, GivenFits
<1>6. CodesAreOfSetups'
    BY <1>1, <1>2, <1>4 DEF IInv, CodesAreOfSetups
<1>7. TypeOK'
    BY <1>1, <1>3 DEF IInv, TypeOK, Account
<1>8. SecondFactorIsSound'
    BY <1>1 DEF IInv, SecondFactorIsSound, CodesOnce, OneSetup
<1> QED
    BY <1>1, <1>5, <1>6, <1>7, <1>8, TokensStay DEF IInv, tokenVars

\* A handler that breaks off has changed nothing.
LEMMA FailureStep ==
    ASSUME IInv, NEW q \in Request, RequestFails(q)
    PROVE  IInv'
<1>1. UNCHANGED <<tokens, spent, publishers, account, setups, jwts, used, twice, disturbed>> /\ End(q)
    BY DEF RequestFails, history, tokenVars
<1>2. RequestsFit' /\ CodesAreOfSetups'
    BY <1>1, RequestEnds
<1>3. TypeOK'
    BY <1>1, <1>2 DEF IInv, TypeOK, Account, RequestsFit
<1>4. SecondFactorIsSound'
    BY <1>1 DEF IInv, SecondFactorIsSound, CodesOnce, OneSetup
<1> QED
    BY <1>1, <1>2, <1>3, <1>4, TokensStay DEF IInv, tokenVars

\* A handler that writes ends, and whatever it writes fits if the codes it leaves
\* and the codes it has used are of set-ups that have been written.
LEMMA WriteEnds ==
    ASSUME IInv, NEW q \in Request, End(q), setups' \in Nat, setups <= setups',
           account'.codes \subseteq (1..setups') \X Code, used' \subseteq (1..setups') \X Code
    PROVE  RequestsFit' /\ CodesAreOfSetups'
<1>1. request' = [request EXCEPT ![q] = Idle] /\ request \in [Request -> {Idle} \cup Minting \cup Changing]
    BY DEF IInv, RequestsFit, End
<1>2. \A r \in Request : request'[r] = Idle \/ request'[r] = request[r]
    BY <1>1
<1>3. RequestsFit'
    BY <1>1, <1>2 DEF IInv, RequestsFit, GivenFits, Idle
<1>4. setups \in Nat
    BY DEF IInv, TypeOK
<1>5. (1..setups) \X Code \subseteq (1..setups') \X Code
    BY <1>4
<1> QED
    BY <1>2, <1>3, <1>5 DEF IInv, CodesAreOfSetups, Idle

\* A request under way, by what it is doing.
LEMMA InHand ==
    ASSUME IInv, NEW q \in Request, request[q].pc \in {"setup", "enable", "disable", "spend"}
    PROVE  request[q] \in Changing /\ GivenFits(request[q])
BY DEF IInv, RequestsFit, Idle, Minting

\* mfa_setup writes a new secret with its codes, next to what it has not read again.
LEMMA SetupStep ==
    ASSUME IInv, NEW q \in Request, SetupWrite(q)
    PROVE  IInv'
<1>1. /\ UNCHANGED <<tokens, spent, publishers, jwts, used, twice>> /\ End(q)
      /\ setups < MaxSetups /\ setups' = setups + 1
      /\ account' = [account EXCEPT !.pending = setups', !.codes = {setups'} \X Code]
      /\ disturbed' = (disturbed \/ account # request[q].seen)
    BY DEF SetupWrite, Write, tokenVars
<1>2. setups \in Nat /\ setups' \in Setup /\ account \in Account /\ disturbed' \in BOOLEAN
    BY <1>1 DEF IInv, TypeOK, Setup
<1>3. {setups'} \X Code \subseteq RecoveryCode /\ {setups'} \X Code \subseteq (1..setups') \X Code
    BY <1>1, <1>2 DEF RecoveryCode
<1>4. account' = [mfa_enabled |-> account.mfa_enabled, secret |-> account.secret,
                  pending |-> setups', codes |-> {setups'} \X Code]
    BY <1>1, <1>2 DEF Account
<1>5. account' \in Account
    BY <1>2, <1>3, <1>4 DEF Account
<1>6. used \subseteq (1..setups') \X Code /\ used \cap ({setups'} \X Code) = {}
    BY <1>1, <1>2 DEF IInv, CodesAreOfSetups
<1>7. RequestsFit' /\ CodesAreOfSetups'
    BY <1>1, <1>2, <1>3, <1>4, <1>6, WriteEnds
<1>8. TypeOK'
    <2>1. account'.mfa_enabled <=> account'.secret # None
        BY <1>4 DEF IInv, TypeOK
    <2>2. setups' \in 0..MaxSetups
        BY <1>1, <1>2
    <2> QED
        BY <2>1, <2>2, <1>1, <1>5, <1>7 DEF IInv, TypeOK, RequestsFit
<1>9. SecondFactorIsSound'
    <2>1. CASE disturbed \/ account # request[q].seen
        BY <2>1, <1>1 DEF SecondFactorIsSound
    <2>2. CASE ~disturbed /\ account = request[q].seen
        <3>1. ~account.mfa_enabled
            BY <2>2, InHand DEF GivenFits, SetupWrite
        <3>2. CodesOnce'
            BY <2>2, <1>1, <1>4, <1>6 DEF IInv, SecondFactorIsSound, CodesOnce
        <3>3. OneSetup'
            BY <3>1, <1>4 DEF OneSetup
        <3> QED
            BY <3>2, <3>3 DEF SecondFactorIsSound
    <2> QED
        BY <2>1, <2>2
<1> QED
    BY <1>1, <1>7, <1>8, <1>9, TokensStay DEF IInv, tokenVars

\* mfa_verify_setup makes the pending secret it has read the secret.
LEMMA VerifyStep ==
    ASSUME IInv, NEW q \in Request, VerifyWrite(q)
    PROVE  IInv'
<1> DEFINE r == request[q]
<1>1. /\ UNCHANGED <<tokens, spent, publishers, setups, jwts, used, twice>> /\ End(q)
      /\ account' = [account EXCEPT !.mfa_enabled = TRUE, !.secret = r.given, !.pending = None]
      /\ disturbed' = (disturbed \/ account # r.seen)
    BY DEF VerifyWrite, Write, tokenVars
<1>2. r \in Changing /\ r.given \in Setup /\ ~r.seen.mfa_enabled /\ r.given = r.seen.pending
    BY InHand DEF GivenFits, VerifyWrite
<1>3. account \in Account /\ setups \in Nat
    BY DEF IInv, TypeOK
<1>4. account' = [mfa_enabled |-> TRUE, secret |-> r.given, pending |-> None,
                  codes |-> account.codes]
    BY <1>1, <1>3 DEF Account
<1>5. account' \in Account
    BY <1>2, <1>3, <1>4 DEF Account
<1>6. RequestsFit' /\ CodesAreOfSetups'
    BY <1>1, <1>3, <1>4, WriteEnds DEF IInv, CodesAreOfSetups
<1>7. SecondFactorIsSound'
    <2>1. CASE disturbed \/ account # r.seen
        BY <2>1, <1>1 DEF SecondFactorIsSound
    <2>2. CASE ~disturbed /\ account = r.seen
        <3>1. ~account.mfa_enabled /\ r.given = account.pending
            BY <2>2, <1>2
        <3>2. CodesOnce'
            BY <2>2, <1>1, <1>4 DEF IInv, SecondFactorIsSound, CodesOnce
        <3>3. account.codes \subseteq {account.pending} \X Code
            BY <2>2, <3>1 DEF IInv, SecondFactorIsSound, OneSetup
        <3>4. OneSetup'
            BY <3>1, <3>3, <1>4 DEF OneSetup
        <3> QED
            BY <3>2, <3>4 DEF SecondFactorIsSound
    <2> QED
        BY <2>1, <2>2
<1>8. r.given # None
    BY <1>2 DEF Setup
<1>9. TypeOK'
    BY <1>1, <1>4, <1>5, <1>6, <1>8 DEF IInv, TypeOK, RequestsFit
<1> QED
    BY <1>1, <1>6, <1>7, <1>9, TokensStay DEF IInv, tokenVars

\* mfa_disable clears all that belongs to the second factor.
LEMMA DisableStep ==
    ASSUME IInv, NEW q \in Request, DisableWrite(q)
    PROVE  IInv'
<1>1. /\ UNCHANGED <<tokens, spent, publishers, setups, jwts, used, twice>> /\ End(q)
      /\ account' = NoFactor
      /\ disturbed' = (disturbed \/ account # request[q].seen)
    BY DEF DisableWrite, Write, tokenVars
<1>2. RequestsFit' /\ CodesAreOfSetups'
    BY <1>1, WriteEnds DEF IInv, TypeOK, CodesAreOfSetups, NoFactor
<1>3. TypeOK'
    BY <1>1, <1>2 DEF IInv, TypeOK, RequestsFit, NoFactor, Account
<1>4. SecondFactorIsSound'
    BY <1>1 DEF IInv, SecondFactorIsSound, CodesOnce, OneSetup, NoFactor
<1> QED
    BY <1>1, <1>2, <1>3, <1>4, TokensStay DEF IInv, tokenVars

\* A recovery code opens a session, and is taken off the list or not.
LEMMA SpendStep ==
    ASSUME IInv, NEW q \in Request, ChallengeWrite(q) \/ ChallengeWriteLost(q)
    PROVE  IInv'
<1> DEFINE r == request[q]
<1>1. /\ UNCHANGED <<tokens, spent, publishers, setups>> /\ End(q)
      /\ jwts' = jwts \cup {"session"} /\ used' = used \cup {r.given}
      /\ twice' = (twice \/ r.given \in used)
    BY DEF ChallengeWrite, ChallengeWriteLost, Write, Opened, tokenVars
<1>2. /\ r \in Changing /\ r.given \in r.seen.codes
      /\ r.seen.codes \subseteq (1..setups) \X Code
    BY InHand DEF GivenFits, ChallengeWrite, ChallengeWriteLost, IInv, CodesAreOfSetups
<1>3. account \in Account /\ setups \in Nat
    BY DEF IInv, TypeOK
<1>4. jwts' \subseteq {"pending", "session"}
    BY <1>1 DEF IInv, TypeOK
<1>5. CASE ChallengeWriteLost(q)
    <2>1. account' = account /\ disturbed' = TRUE
        BY <1>5 DEF ChallengeWriteLost
    <2>2. RequestsFit' /\ CodesAreOfSetups'
        BY <2>1, <1>1, <1>2, <1>3, WriteEnds DEF IInv, CodesAreOfSetups
    <2>3. TypeOK'
        BY <2>1, <2>2, <1>1, <1>4 DEF IInv, TypeOK, RequestsFit, Account
    <2> QED
        BY <2>1, <2>2, <2>3, <1>1, TokensStay DEF IInv, tokenVars, SecondFactorIsSound
<1>6. CASE ChallengeWrite(q)
    <2> DEFINE left == r.seen.codes \ {r.given}
    <2>1. /\ account' = [account EXCEPT !.codes = left]
          /\ disturbed' = (disturbed \/ account # r.seen)
        BY <1>6 DEF ChallengeWrite, Write, Remaining
    <2>2. account' = [mfa_enabled |-> account.mfa_enabled, secret |-> account.secret,
                      pending |-> account.pending, codes |-> left]
        BY <2>1, <1>3 DEF Account
    <2>3. left \subseteq RecoveryCode
        BY <1>2 DEF Changing, Account
    <2>4. account' \in Account
        BY <2>2, <2>3, <1>3 DEF Account
    <2>5. left \subseteq (1..setups) \X Code
        BY <1>2 DEF IInv, CodesAreOfSetups
    <2>6. RequestsFit' /\ CodesAreOfSetups'
        BY <2>2, <2>5, <1>1, <1>2, <1>3, WriteEnds DEF IInv, CodesAreOfSetups
    <2>7. TypeOK'
        BY <2>2, <2>4, <2>6, <1>1, <1>4 DEF IInv, TypeOK, RequestsFit
    <2>8. SecondFactorIsSound'
        <3>1. CASE disturbed \/ account # r.seen
            BY <3>1, <2>1 DEF SecondFactorIsSound
        <3>2. CASE ~disturbed /\ account = r.seen
            <4>1. CodesOnce /\ OneSetup
                BY <3>2 DEF IInv, SecondFactorIsSound
            <4>2. CodesOnce'
                BY <3>2, <4>1, <1>1, <1>2, <2>2 DEF CodesOnce
            <4>3. OneSetup'
                BY <3>2, <4>1, <2>2 DEF OneSetup
            <4> QED
                BY <4>2, <4>3 DEF SecondFactorIsSound
        <3> QED
            BY <3>1, <3>2
    <2> QED
        BY <2>6, <2>7, <2>8, <1>1, TokensStay DEF IInv, tokenVars
<1> QED
    BY <1>5, <1>6

\* A stuttering step.
LEMMA Unchanged ==
    ASSUME IInv, UNCHANGED vars
    PROVE  IInv'
<1>1. UNCHANGED <<tokens, spent, publishers, request, account, setups, jwts, used, twice, disturbed>>
    BY DEF vars, tokenVars
<1>2. TypeOK'
    BY <1>1 DEF IInv, TypeOK, Account
<1>3. SecondFactorIsSound'
    BY <1>1 DEF IInv, SecondFactorIsSound, CodesOnce, OneSetup
<1> QED
    BY <1>1, <1>2, <1>3, RequestsStay, TokensStay DEF IInv, tokenVars

-----------------------------------------------------------------------------

\* Every step preserves IInv.
LEMMA StepPreserves == IInv /\ [Next]_vars => IInv'
<1> SUFFICES ASSUME IInv, [Next]_vars PROVE IInv'
    OBVIOUS
<1>1. CASE UNCHANGED vars
    BY <1>1, Unchanged
<1>2. CASE TokenExpires /\ UNCHANGED <<account, setups, jwts, history>>
    BY <1>2, TokenDies DEF TokenExpires
<1>3. ASSUME NEW q \in Request, Login(q) \/ ChallengeTotp(q) PROVE IInv'
    BY <1>3, SessionStep
<1>4. ASSUME NEW q \in Request, SetupRead(q) \/ VerifyRead(q) \/ DisableRead(q) \/ ChallengeRead(q)
      PROVE IInv'
    BY <1>4, ReadStep
<1>5. ASSUME NEW q \in Request, SetupWrite(q) PROVE IInv'
    BY <1>5, SetupStep
<1>6. ASSUME NEW q \in Request, VerifyWrite(q) PROVE IInv'
    BY <1>6, VerifyStep
<1>7. ASSUME NEW q \in Request, DisableWrite(q) PROVE IInv'
    BY <1>7, DisableStep
<1>8. ASSUME NEW q \in Request, ChallengeWrite(q) \/ ChallengeWriteLost(q) PROVE IInv'
    BY <1>8, SpendStep
<1>9. ASSUME NEW q \in Request, RequestFails(q) PROVE IInv'
    BY <1>9, FailureStep
<1>10. ASSUME NEW q \in Request, (Managing(q) \/ Exchanging(q)) /\ UNCHANGED <<account, setups, jwts, history>>
       PROVE IInv'
    <2>1. CASE CreateToken(q)
        BY <2>1, <1>10, CreateStep
    <2>2. CASE RevokeToken(q)
        BY <2>2, <1>10, TokenDies DEF RevokeToken, OneStep
    <2>3. CASE AddPublisher(q) \/ DropPublisher(q)
        BY <2>3, <1>10, PublisherStep
    <2>4. CASE MintMatch(q) \/ MintFails(q)
        BY <2>4, <1>10, ExchangeStep
    <2>5. CASE Mint(q)
        BY <2>5, <1>10, MintStep
    <2> QED
        BY <2>1, <2>2, <2>3, <2>4, <2>5, <1>10 DEF Managing, Exchanging
<1> QED
    BY <1>1, <1>2, <1>3, <1>4, <1>5, <1>6, <1>7, <1>8, <1>9, <1>10 DEF Next

\* IInv says of a token that works what it was made for.
LEMMA WorkingTokensAreBound == IInv => TokensAreBound
<1> SUFFICES ASSUME IInv PROVE TokensAreBound
    OBVIOUS
<1>1. ASSUME NEW a \in Assertion PROVE Cardinality(Bought(a)) = IF a \in spent THEN 1 ELSE 0
    <2>1. CASE a \in spent
        <3>1. PICK t \in Token : Bought(a) = {t}
            BY <2>1 DEF IInv, BoughtOnce
        <3> QED
            BY <2>1, <3>1, FS_Singleton
    <2>2. CASE a \notin spent
        BY <2>2, FS_EmptySet DEF IInv, BoughtOnce
    <2> QED
        BY <2>1, <2>2
<1>2. ASSUME NEW t \in Token, Live(t)
      PROVE /\ tokens[t].kind \in Kind
            /\ tokens[t].package # None => tokens[t].from \in spent
    <2>1. tokens[t] \in Row /\ tokens[t] # NoToken
        BY <1>2 DEF Live, NoToken, IInv, TypeOK
    <2> QED
        BY <2>1 DEF Row, IInv, BoughtOnce
<1> QED
    BY <1>1, <1>2 DEF TokensAreBound, PypiUploadTakes, Personal, Live, Kind, ControlPlaneTakes,
        NpmTakes, CargoTakes, NugetTakes, ComposerTakes, RubygemsTakes, MavenTakes, OciTakes, PypiReadTakes

\* The account is always of its type, and one that asks for a second factor has the
\* secret to check it against (auth.rs: mfa_verify_setup, mfa_disable).
THEOREM TypeCorrect == Spec => []TypeOK
<1>1. IInv => TypeOK
    BY DEF IInv
<1> QED
    BY <1>1, InitEstablishes, StepPreserves, PTL DEF Spec

\* Unless a handler has written over a change it had not read or lost a write, a
\* recovery code opens one session, and the codes are those of the secret (auth.rs).
THEOREM SecondFactor == Spec => []SecondFactorIsSound
<1>1. IInv => SecondFactorIsSound
    BY DEF IInv
<1> QED
    BY <1>1, InitEstablishes, StepPreserves, PTL DEF Spec

\* An assertion buys one token, and a derived token is good for what an exchange
\* has bound it to, for uploads to PyPI alone (pypi_oidc.rs, request_auth.rs).
THEOREM AssertionsBuyOnce == Spec => []TokensAreBound
BY InitEstablishes, StepPreserves, WorkingTokensAreBound, PTL DEF Spec
=============================================================================
