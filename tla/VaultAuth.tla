------------------------------ MODULE VaultAuth ------------------------------
(***************************************************************************)
(* How one process authenticates to Vault (vault.go): the login cache that *)
(* outlives a call, the client that lives for one call, and what Vault     *)
(* itself knows of the tokens it has issued.  The three disagree: Vault    *)
(* counts a lease from the moment it issues a token, the cache from the    *)
(* moment the answer arrives, and nobody tells the cache of a revocation.  *)
(*                                                                         *)
(* A turn is one call of syncOnce from newVaultClient to its return.  What *)
(* the requests of a turn ask for is the subject of Synchronize; here a    *)
(* request is accepted or refused.                                         *)
(***************************************************************************)
EXTENDS Integers, FiniteSetsExt

CONSTANTS
    Section,        \* the vault sections a configuration may have
    StaticSection,  \* those with the auth method "token"
    IdentityOf,     \* authIdentity: address, namespace, method, mount and user
    NoSection, NoIdentity,
    Token,          \* what a login returns; two are enough, see Fresh
    NoToken,
    FileToken,      \* the token of a static section: from a file or variable
    Lease,          \* lease_duration of a login, 0 for a token without a lease
    Timeout         \* -timeout, the deadline of a turn

Identity == {IdentityOf[s] : s \in Section}

ASSUME VaultAuthAssumption ==
    /\ StaticSection \subseteq Section
    /\ NoIdentity \notin Identity
    /\ NoSection \notin Section
    /\ NoToken \notin Token /\ FileToken \notin Token /\ NoToken # FileToken
    /\ Lease \subseteq Nat
    /\ Timeout \in 1..60

VARIABLES
    cache,          \* vaultAuth; left is the time until expiry
    client,         \* vaultClient: its token and tokenFromCache
    issued,         \* issued[t]: what Vault knows of t
    phase,          \* what the turn does next
    section,        \* cfg.Vault of the turn
    answer,         \* the token in the answer of a login that is under way
    logins,         \* the tokens issued to the turn
    spent,          \* the time the turn has taken
    outcome         \* how the last turn ended

authVars == <<cache, client, issued, phase, section, answer, logins, spent, outcome>>

Phase == {"closed", "connect", "login", "answer", "request", "retry"}
Outcome == {"none", "ok", "denied", "failed"}

Unissued == [identity |-> NoIdentity, lease |-> 0, left |-> 0, revoked |-> FALSE]
EmptyCache == [token |-> NoToken, identity |-> NoIdentity, left |-> 0]
NoClient == [token |-> NoToken, cached |-> FALSE]

AuthTypeOK ==
    /\ cache \in [token : Token \cup {NoToken},
                  identity : Identity \cup {NoIdentity}, left : Nat]
    /\ client \in [token : Token \cup {NoToken, FileToken}, cached : BOOLEAN]
    /\ issued \in [Token -> [identity : Identity \cup {NoIdentity}, lease : Lease \cup {0},
                             left : Nat, revoked : BOOLEAN]]
    /\ phase \in Phase
    /\ section \in Section \cup {NoSection}
    /\ answer \in Token \cup {NoToken}
    /\ logins \in 0..2
    /\ spent \in 0..Timeout
    /\ outcome \in Outcome

AuthInit ==
    /\ cache = EmptyCache
    /\ client = NoClient
    /\ issued = [t \in Token |-> Unissued]
    /\ phase = "closed"
    /\ section = NoSection
    /\ answer = NoToken
    /\ logins = 0
    /\ spent = 0
    /\ outcome = "none"

-----------------------------------------------------------------------------
(* Vault.                                                                  *)

\* A token that neither the process nor an answer holds is forgotten, and its
\* name stands for the next token that Vault issues.
Fresh(t) == issued[t] = Unissued

Expired(t) == issued[t].lease # 0 /\ issued[t].left = 0

Valid(t) == t \in Token => ~issued[t].revoked /\ ~Expired(t)

\* An operator, or Vault itself, revokes a token.
Revoke(t) ==
    /\ ~Fresh(t)
    /\ ~issued[t].revoked
    /\ issued' = [issued EXCEPT ![t].revoked = TRUE]
    /\ UNCHANGED <<cache, client, phase, section, answer, logins, spent, outcome>>

\* Variant of Older: an expiry in the past is not noticed.
OlderForever(n) == n - 1

Older(n) == IF n = 0 THEN 0 ELSE n - 1

\* One unit of time, for Vault, for the cache and for the turn, whose clock stops
\* at the deadline.
AuthTick ==
    /\ spent' = IF phase = "closed" THEN spent ELSE Min({spent + 1, Timeout})
    /\ cache' = [cache EXCEPT !.left = Older(@)]
    /\ issued' = [t \in Token |-> [issued[t] EXCEPT !.left = Older(@)]]
    /\ UNCHANGED <<client, phase, section, answer, logins, outcome>>

-----------------------------------------------------------------------------
(* The turn.                                                               *)

\* syncOnce has loaded the configuration; the deadline of the turn starts.
BeginTurn(s) ==
    /\ phase = "closed"
    /\ phase' = "connect"
    /\ section' = s
    /\ outcome' = "none"
    /\ UNCHANGED <<cache, client, issued, answer, logins, spent>>

\* The client is gone, the cache stays; an answer under way is not received.
EndTurn(result) ==
    /\ phase' = "closed"
    /\ outcome' = result
    /\ client' = NoClient
    /\ section' = NoSection
    /\ answer' = NoToken
    /\ logins' = 0
    /\ spent' = 0
    /\ issued' = [t \in Token |-> IF t = cache.token THEN issued[t] ELSE Unissued]
    /\ UNCHANGED cache

\* newVaultClient with a static token: the cache is not looked at.
UseFileToken ==
    /\ phase = "connect"
    /\ section \in StaticSection
    /\ client' = [token |-> FileToken, cached |-> FALSE]
    /\ phase' = "request"
    /\ UNCHANGED <<cache, issued, section, answer, logins, spent, outcome>>

\* Variant of CacheFits: the identity is not compared.
CacheFitsAnybody ==
    cache.token # NoToken /\ cache.left > 0

CacheFits ==
    /\ cache.token # NoToken
    /\ cache.identity = IdentityOf[section]
    /\ cache.left > 0

\* login without force: the cached token, whatever became of it at Vault.
UseCache ==
    /\ phase = "connect"
    /\ section \notin StaticSection
    /\ CacheFits
    /\ client' = [token |-> cache.token, cached |-> TRUE]
    /\ phase' = "request"
    /\ UNCHANGED <<cache, issued, section, answer, logins, spent, outcome>>

\* The password or secret id is read anew for every login.
LogIn ==
    /\ phase = "connect"
    /\ section \notin StaticSection
    /\ ~CacheFits
    /\ phase' = "login"
    /\ UNCHANGED <<cache, client, issued, section, answer, logins, spent, outcome>>

\* Vault answers a login; the lease runs from here.
IssueToken(t, lease) ==
    /\ phase = "login"
    /\ Fresh(t)
    /\ issued' = [issued EXCEPT ![t] =
           [identity |-> IdentityOf[section], lease |-> lease, left |-> lease, revoked |-> FALSE]]
    /\ answer' = t
    /\ logins' = logins + 1
    /\ phase' = "answer"
    /\ UNCHANGED <<cache, client, section, spent, outcome>>

\* Variant of Guard: the whole lease is used.
NoGuard(lease) == 0

\* The cache gives a token up early, because Vault has been counting longer.
Guard(lease) == Min({lease \div 5, 60})

\* A login during a request is a forced one: there is a client already.
Forced == client.token # NoToken

\* Variant of TakeToken: a client that has logged in counts as served by the cache.
TakeTokenAsCached ==
    /\ phase = "answer"
    /\ LET lease == issued[answer].lease
       IN  cache' = [token |-> answer, identity |-> IdentityOf[section],
                     left |-> lease - Guard(lease)]
    /\ client' = [token |-> answer, cached |-> TRUE]
    /\ issued' = [t \in Token |-> IF t = answer THEN issued[t] ELSE Unissued]
    /\ answer' = NoToken
    /\ phase' = IF Forced THEN "retry" ELSE "request"
    /\ UNCHANGED <<section, logins, spent, outcome>>

\* The answer arrives: the cache and the client have a new token.  After a
\* forced login the refused request is sent once more.
TakeToken ==
    /\ phase = "answer"
    /\ LET lease == issued[answer].lease
       IN  cache' = [token |-> answer, identity |-> IdentityOf[section],
                     left |-> lease - Guard(lease)]
    /\ client' = [token |-> answer, cached |-> FALSE]
    /\ issued' = [t \in Token |-> IF t = answer THEN issued[t] ELSE Unissued]
    /\ answer' = NoToken
    /\ phase' = IF Forced THEN "retry" ELSE "request"
    /\ UNCHANGED <<section, logins, spent, outcome>>

\* The login is refused or fails.  A forced one leaves the caller of do with
\* the refusal that made it necessary.
LoginFails ==
    /\ phase \in {"login", "answer"}
    /\ EndTurn(IF Forced THEN "denied" ELSE "failed")

\* Vault takes the token and answers the request.
Accepted ==
    /\ phase \in {"request", "retry"}
    /\ Valid(client.token)
    /\ phase' = "request"
    /\ UNCHANGED <<cache, client, issued, section, answer, logins, spent, outcome>>

\* 401 or 403, for an invalid token or by a policy.  A token from the cache
\* is given up for a new one.
Refused ==
    /\ phase = "request"
    /\ client.cached
    /\ phase' = "login"
    /\ UNCHANGED <<cache, client, issued, section, answer, logins, spent, outcome>>

\* Variant of Denied: do returns the first answer, also to a cached token.
DeniedAtOnce ==
    /\ phase \in {"request", "retry"}
    /\ EndTurn("denied")

\* Any other refusal, and the second one of a request, ends the turn.
Denied ==
    /\ phase = "retry" \/ (phase = "request" /\ ~client.cached)
    /\ EndTurn("denied")

\* synchronize returns: it has done its work, or this host is a standby.
TurnDone ==
    /\ phase = "request"
    /\ EndTurn("ok")

\* A file cannot be read, a request gets no answer, synchronize fails.
TurnFails ==
    /\ phase \in {"connect", "request", "retry"}
    /\ EndTurn("failed")

\* What the process does without waiting for anybody.
ConnectStep == UseFileToken \/ UseCache \/ LogIn

\* Vault answers.
VaultStep ==
    \/ \E t \in Token, lease \in Lease : IssueToken(t, lease)
    \/ TakeToken \/ Accepted \/ Refused

TurnEnds == LoginFails \/ Denied \/ TurnDone \/ TurnFails

-----------------------------------------------------------------------------
(* Properties.                                                             *)

\* A request carries the token of the configuration of its own turn: one that
\* was issued to its identity, or the static one of its section, although the
\* cache outlives configurations that name other users, methods or servers.
\* (authIdentity and the comparison in login; newVaultClient.)
TokenBelongsToSection ==
    phase \in {"request", "retry"} =>
        IF section \in StaticSection
        THEN client.token = FileToken
        ELSE /\ client.token \in Token
             /\ issued[client.token].identity = IdentityOf[section]

\* However often Vault refuses, a turn logs in once: a token it has obtained
\* itself is not exchanged for another one.  (README "a revoked cached token
\* triggers one immediate re-login and retry"; do, tokenFromCache.)
OneLoginPerTurn == logins <= 1

\* A token that expired or was revoked before the turn had it never makes the
\* turn fail: when a turn ends in a refusal, the token was valid (a policy
\* refuses the request), the new login failed too, or the token was obtained
\* in this turn and then revoked, or its whole lease is shorter than a turn.
\* (README "reused until shortly before their lease expires, then re-obtained
\* automatically"; do and login.)
DeniedForAReason ==
    [][(outcome' = "denied" /\ outcome # "denied" /\ section \notin StaticSection) =>
            \/ Valid(client.token)
            \/ phase \in {"login", "answer"}
            \/ /\ logins = 1
               /\ issued[client.token].revoked \/ issued[client.token].lease <= Timeout
      ]_authVars

\* What the cache holds to be alive has not expired at Vault, however long
\* the answer was under way, when a fifth of the lease covers a turn (and a turn
\* takes at most the 60 units of the largest guard).  (the guard in login; a
\* lease below five units has no guard.)
CacheIsLive ==
    (cache.left > 0 /\ issued[cache.token].lease >= 5 * Timeout) => ~Expired(cache.token)
=============================================================================
