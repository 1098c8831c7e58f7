--------------------------- MODULE Resident_proofs ---------------------------
(***************************************************************************)
(* The safety properties of Resident and VaultAuth, for any number of      *)
(* sections, identities and tokens, any leases and any deadline up to the  *)
(* largest guard.  They follow from AuthInv, which every step of a turn,   *)
(* of Vault and of time keeps.                                             *)
(***************************************************************************)
EXTENDS Resident, TLAPS

\* The cache knows whose token it holds, and gives it up before Vault does.
CacheHolds ==
    IF cache.token = NoToken
    THEN cache.left = 0
    ELSE /\ cache.token \in Token /\ cache.identity \in Identity
         /\ issued[cache.token].identity = cache.identity
         /\ issued[cache.token].lease >= 5 * Timeout => cache.left <= issued[cache.token].left

\* t was issued in this turn: no more of its lease is gone than of the turn, but
\* while the process waits for an orphan, after which the turn ends.
Recent(t) == at # "orphan" => issued[t].lease <= issued[t].left + spent

\* What the client of a turn holds at each of its phases.
TurnHolds ==
    /\ phase = "closed" => spent = 0
    /\ phase \in {"closed", "connect"} => client = NoClient /\ logins = 0
    /\ phase # "closed" => section \in Section
    /\ phase = "login" => section \notin StaticSection /\ logins = 0
    /\ phase = "answer" =>
        /\ section \notin StaticSection /\ logins = 1
        /\ answer \in Token /\ issued[answer].identity = IdentityOf[section] /\ Recent(answer)
    /\ phase \in {"request", "retry"} =>
        IF section \in StaticSection
        THEN client.token = FileToken /\ ~client.cached /\ logins = 0
        ELSE /\ client.token \in Token
             /\ issued[client.token].identity = IdentityOf[section]
             /\ IF client.cached THEN logins = 0 ELSE logins = 1 /\ Recent(client.token)
    /\ phase = "retry" => ~client.cached

AuthInv == AuthTypeOK /\ CacheHolds /\ TurnHolds

WatchTypeOK ==
    /\ at \in Place
    /\ waited \in 0..Interval
    /\ trigger \in 0..1
    /\ owed \in BOOLEAN
    /\ stopping \in BOOLEAN

Inv == AuthInv /\ WatchTypeOK /\ SignalIsKept

USE VaultAuthAssumption, ResidentAssumption

\* A guard covers a turn when a fifth of the lease does.
LEMMA GuardCovers ==
    ASSUME NEW lease \in Nat
    PROVE  /\ Guard(lease) \in 0..lease
           /\ lease >= 5 * Timeout => Guard(lease) >= Timeout
<1>1. lease \div 5 \in 0..lease /\ (lease >= 5 * Timeout => lease \div 5 >= Timeout)
  OBVIOUS
<1>2. Min({lease \div 5, 60}) = IF lease \div 5 <= 60 THEN lease \div 5 ELSE 60
  BY <1>1 DEF Min
<1> QED
  BY <1>1, <1>2 DEF Guard

TokenRecord ==
    [identity : Identity \cup {NoIdentity}, lease : Lease \cup {0}, left : Nat, revoked : BOOLEAN]

LEMMA UnissuedType == Unissued \in TokenRecord
BY DEF Unissued, TokenRecord

LEMMA IssuedType ==
    ASSUME AuthTypeOK, NEW t \in Token
    PROVE  /\ issued \in [Token -> TokenRecord]
           /\ issued[t].identity \in Identity \cup {NoIdentity}
           /\ issued[t].lease \in Nat /\ issued[t].left \in Nat
<1>1. issued \in [Token -> TokenRecord]
  BY DEF AuthTypeOK, TokenRecord
<1>2. issued[t] \in TokenRecord
  BY <1>1
<1>3. \A r \in TokenRecord :
        r.identity \in Identity \cup {NoIdentity} /\ r.lease \in Lease \cup {0} /\ r.left \in Nat
  BY DEF TokenRecord
<1>4. issued[t].identity \in Identity \cup {NoIdentity} /\ issued[t].lease \in Lease \cup {0}
      /\ issued[t].left \in Nat
  BY <1>2, <1>3, Zenon
<1>5. Lease \cup {0} \subseteq Nat
  OBVIOUS
<1> QED
  BY <1>1, <1>4, <1>5

\* The state in which a process starts, and starts again.
LEMMA StartHolds ==
    ASSUME cache = EmptyCache, client = NoClient, issued = [t \in Token |-> Unissued],
           phase = "closed", section = NoSection, answer = NoToken, logins = 0, spent = 0,
           outcome = "none"
    PROVE  AuthInv
<1>1. cache \in [token : Token \cup {NoToken}, identity : Identity \cup {NoIdentity}, left : Nat]
  BY DEF EmptyCache
<1>2. client \in [token : Token \cup {NoToken, FileToken}, cached : BOOLEAN]
  BY DEF NoClient
<1>3. AuthTypeOK
  BY <1>1, <1>2, UnissuedType DEF AuthTypeOK, Phase, Outcome, TokenRecord
<1>4. CacheHolds /\ TurnHolds
  BY DEF CacheHolds, TurnHolds, EmptyCache
<1> QED
  BY <1>3, <1>4 DEF AuthInv

LEMMA InitHolds == Init => Inv
<1> SUFFICES ASSUME Init
             PROVE  Inv
  OBVIOUS
<1>1. AuthInv
  BY StartHolds DEF Init, AuthInit
<1>2. SignalIsKept
  BY DEF Init, SignalIsKept
<1>3. at \in Place /\ waited \in 0..Interval /\ trigger \in 0..1
  BY DEF Init, Place
<1>4. owed \in BOOLEAN /\ stopping \in BOOLEAN
  BY DEF Init
<1> QED
  BY <1>1, <1>2, <1>3, <1>4 DEF Inv, WatchTypeOK

-----------------------------------------------------------------------------
(* The turn.                                                               *)

LEMMA RevokeKeeps ==
    ASSUME AuthInv, NEW t \in Token, Revoke(t), at' = at
    PROVE  AuthInv'
<1>1. /\ issued' = [issued EXCEPT ![t].revoked = TRUE]
      /\ UNCHANGED <<cache, client, phase, section, answer, logins, spent, outcome>>
  BY DEF Revoke
<1>2. \A u \in Token : /\ issued'[u].identity = issued[u].identity
                       /\ issued'[u].lease = issued[u].lease
                       /\ issued'[u].left = issued[u].left
  BY <1>1 DEF AuthInv, AuthTypeOK
<1>3. AuthTypeOK'
  <2>1. issued[t] \in TokenRecord /\ issued \in [Token -> TokenRecord]
    BY IssuedType DEF AuthInv
  <2>2. [issued[t] EXCEPT !.revoked = TRUE] \in TokenRecord
    BY <2>1 DEF TokenRecord
  <2>3. issued' \in [Token -> TokenRecord]
    BY <1>1, <2>1, <2>2
  <2> QED
    BY <1>1, <2>3 DEF AuthInv, AuthTypeOK, TokenRecord
<1>4. CacheHolds'
  BY <1>1, <1>2 DEF AuthInv, CacheHolds
<1>5. TurnHolds'
  BY <1>1, <1>2 DEF AuthInv, TurnHolds, Recent
<1> QED
  BY <1>3, <1>4, <1>5 DEF AuthInv

LEMMA TickKeeps == AuthInv /\ Tick => AuthInv'
<1> SUFFICES ASSUME AuthInv, Tick
             PROVE  AuthInv'
  OBVIOUS
<1>0. \A n \in 0..Timeout : Min({n + 1, Timeout}) = IF n < Timeout THEN n + 1 ELSE n
  BY DEF Min
<1>1. /\ phase # "closed" => spent' = IF spent < Timeout THEN spent + 1 ELSE spent
      /\ phase = "closed" => spent' = spent
      /\ spent \in 0..Timeout
      /\ at' = at /\ (at = "orphan" \/ spent # Timeout)
      /\ cache' = [cache EXCEPT !.left = Older(@)]
      /\ issued' = [t \in Token |-> [issued[t] EXCEPT !.left = Older(@)]]
      /\ UNCHANGED <<client, phase, section, answer, logins, outcome>>
  BY <1>0 DEF Tick, Ready, AuthTick, AuthInv, AuthTypeOK
<1>2. \A n \in Nat : Older(n) \in Nat /\ n <= Older(n) + 1 /\ (n = 0 => Older(n) = 0)
  BY DEF Older
<1>3. \A m, n \in Nat : m <= n => Older(m) <= Older(n)
  BY DEF Older
<1>4. \A u \in Token : /\ issued'[u].identity = issued[u].identity
                       /\ issued'[u].lease = issued[u].lease
                       /\ issued'[u].left = Older(issued[u].left)
                       /\ issued[u].left \in Nat /\ issued[u].lease \in Nat
  BY <1>1 DEF AuthInv, AuthTypeOK
<1>5. cache'.token = cache.token /\ cache'.identity = cache.identity
      /\ cache'.left = Older(cache.left) /\ cache.left \in Nat
  BY <1>1 DEF AuthInv, AuthTypeOK
<1>6. AuthTypeOK'
  <2>1. spent' \in 0..Timeout
    BY <1>1 DEF AuthInv, AuthTypeOK, TurnHolds
  <2>2. cache' \in [token : Token \cup {NoToken}, identity : Identity \cup {NoIdentity}, left : Nat]
    BY <1>1, <1>2, <1>5 DEF AuthInv, AuthTypeOK
  <2>3. \A r \in TokenRecord : [r EXCEPT !.left = Older(@)] \in TokenRecord
    BY <1>2 DEF TokenRecord
  <2>4. \A t \in Token : issued[t] \in TokenRecord
    BY DEF AuthInv, AuthTypeOK, TokenRecord
  <2>5. issued' \in [Token -> TokenRecord]
    BY <1>1, <2>3, <2>4
  <2> QED
    BY <1>1, <2>1, <2>2, <2>5 DEF AuthInv, AuthTypeOK, TokenRecord
<1>7. CacheHolds'
  BY <1>2, <1>3, <1>4, <1>5 DEF AuthInv, CacheHolds
<1>8. TurnHolds'
  <2>1. \A u \in Token : phase # "closed" /\ Recent(u) => Recent(u)'
    <3> SUFFICES ASSUME NEW u \in Token, phase # "closed", Recent(u), at # "orphan"
                 PROVE  Recent(u)'
      BY <1>1 DEF Recent
    <3>1. /\ issued'[u].lease = issued[u].lease /\ issued[u].lease \in Nat
          /\ issued[u].left <= issued'[u].left + 1
          /\ issued[u].left \in Nat /\ issued'[u].left \in Nat
      BY <1>2, <1>4
    <3>2. spent' = spent + 1 /\ spent \in Nat
      BY <1>1
    <3> QED
      BY <3>1, <3>2 DEF Recent
  <2> QED
    BY <1>1, <1>4, <2>1 DEF AuthInv, TurnHolds
<1> QED
  BY <1>6, <1>7, <1>8 DEF AuthInv

LEMMA BeginTurnKeeps ==
    ASSUME AuthInv, NEW s \in Section, BeginTurn(s)
    PROVE  AuthInv'
BY DEF BeginTurn, AuthInv, AuthTypeOK, CacheHolds, TurnHolds, Phase, Outcome

LEMMA EndTurnKeeps ==
    ASSUME AuthInv, NEW result \in Outcome, EndTurn(result)
    PROVE  AuthInv'
<1>1. /\ phase' = "closed" /\ outcome' = result /\ client' = NoClient /\ section' = NoSection
      /\ answer' = NoToken /\ logins' = 0 /\ spent' = 0 /\ cache' = cache
      /\ issued' = [t \in Token |-> IF t = cache.token THEN issued[t] ELSE Unissued]
  BY DEF EndTurn
<1>2. AuthTypeOK'
  BY <1>1 DEF AuthInv, AuthTypeOK, NoClient, Unissued, Phase
<1>3. CacheHolds'
  BY <1>1 DEF AuthInv, CacheHolds
<1>4. TurnHolds'
  BY <1>1 DEF TurnHolds
<1> QED
  BY <1>2, <1>3, <1>4 DEF AuthInv

LEMMA ConnectKeeps == AuthInv /\ at # "orphan" /\ ConnectStep => AuthInv'
<1> SUFFICES ASSUME AuthInv, at # "orphan", ConnectStep
             PROVE  AuthInv'
  OBVIOUS
<1> USE DEF AuthInv, AuthTypeOK, CacheHolds, TurnHolds, Recent, Phase, NoClient
<1>1. CASE UseFileToken
  BY <1>1 DEF UseFileToken
<1>2. CASE UseCache
  BY <1>2 DEF UseCache, CacheFits
<1>3. CASE LogIn
  BY <1>3 DEF LogIn
<1> QED
  BY <1>1, <1>2, <1>3 DEF ConnectStep

LEMMA IssueTokenKeeps ==
    ASSUME AuthInv, at # "orphan", NEW t \in Token, NEW lease \in Lease,
           IssueToken(t, lease)
    PROVE  AuthInv'
<1>1. /\ phase = "login" /\ issued[t] = Unissued
      /\ issued' = [issued EXCEPT ![t] =
            [identity |-> IdentityOf[section], lease |-> lease, left |-> lease, revoked |-> FALSE]]
      /\ answer' = t /\ logins' = logins + 1 /\ phase' = "answer"
      /\ UNCHANGED <<cache, client, section, spent, outcome>>
  BY DEF IssueToken, Fresh
<1>2. section \in Section /\ section \notin StaticSection /\ logins = 0 /\ IdentityOf[section] \in Identity
  BY <1>1 DEF AuthInv, TurnHolds, Identity
<1>3. AuthTypeOK'
  BY <1>1, <1>2 DEF AuthInv, AuthTypeOK, Phase
<1>4. cache.token # t
  BY <1>1 DEF AuthInv, CacheHolds, Unissued
<1>5. CacheHolds'
  BY <1>1, <1>4 DEF AuthInv, AuthTypeOK, CacheHolds
<1>6. Recent(t)' /\ issued'[t].identity = IdentityOf[section]
  <2>1. /\ issued'[t].lease = lease /\ issued'[t].left = lease
        /\ issued'[t].identity = IdentityOf[section]
    BY <1>1 DEF AuthInv, AuthTypeOK
  <2>2. lease \in Nat /\ spent' \in Nat
    BY <1>1 DEF AuthInv, AuthTypeOK
  <2>3. lease <= lease + spent'
    <3>1. \A m, n \in Nat : m <= m + n
      OBVIOUS
    <3> QED
      BY <2>2, <3>1, Zenon
  <2>4. issued'[t].lease <= issued'[t].left + spent'
    BY <2>1, <2>3
  <2> QED
    BY <2>1, <2>4 DEF Recent
<1>7. TurnHolds'
  BY <1>1, <1>2, <1>6 DEF TurnHolds
<1> QED
  BY <1>3, <1>5, <1>7 DEF AuthInv

LEMMA TakeTokenKeeps == AuthInv /\ at # "orphan" /\ TakeToken => AuthInv'
<1> SUFFICES ASSUME AuthInv, at # "orphan", TakeToken
             PROVE  AuthInv'
  OBVIOUS
<1> DEFINE lease == issued[answer].lease
<1>1. /\ phase = "answer"
      /\ cache' = [token |-> answer, identity |-> IdentityOf[section], left |-> lease - Guard(lease)]
      /\ client' = [token |-> answer, cached |-> FALSE]
      /\ issued' = [t \in Token |-> IF t = answer THEN issued[t] ELSE Unissued]
      /\ answer' = NoToken /\ phase' \in {"retry", "request"}
      /\ UNCHANGED <<section, logins, spent, outcome>>
  BY DEF TakeToken
<1>2. /\ section \in Section /\ section \notin StaticSection /\ logins = 1
      /\ answer \in Token /\ issued[answer].identity = IdentityOf[section] /\ Recent(answer)
      /\ IdentityOf[section] \in Identity /\ answer # NoToken
  BY <1>1 DEF AuthInv, TurnHolds, Identity
<1>3. lease \in Nat /\ issued[answer].left \in Nat /\ spent \in 0..Timeout
  BY <1>2, IssuedType DEF AuthInv, AuthTypeOK
<1>4. Guard(lease) \in 0..lease /\ (lease >= 5 * Timeout => Guard(lease) >= Timeout)
  BY <1>3, GuardCovers
<1>5. issued'[answer] = issued[answer]
  BY <1>1, <1>2
<1> HIDE DEF lease
<1>6. lease - Guard(lease) \in Nat
      /\ (lease >= 5 * Timeout => lease - Guard(lease) <= issued[answer].left)
  BY <1>2, <1>3, <1>4 DEF Recent, lease
<1>7. AuthTypeOK'
  <2>1. cache' \in [token : Token \cup {NoToken}, identity : Identity \cup {NoIdentity}, left : Nat]
    BY <1>1, <1>2, <1>6
  <2>2. client' \in [token : Token \cup {NoToken, FileToken}, cached : BOOLEAN]
    BY <1>1, <1>2
  <2> QED
    BY <1>1, <1>2, <2>1, <2>2, UnissuedType DEF AuthInv, AuthTypeOK, Phase, TokenRecord
<1>8. CacheHolds'
  BY <1>1, <1>2, <1>5, <1>6 DEF CacheHolds, lease
<1>9. TurnHolds'
  BY <1>1, <1>2, <1>5 DEF TurnHolds, Recent
<1> QED
  BY <1>7, <1>8, <1>9 DEF AuthInv

LEMMA VaultKeeps == AuthInv /\ at # "orphan" /\ VaultStep => AuthInv'
<1> SUFFICES ASSUME AuthInv, at # "orphan", VaultStep
             PROVE  AuthInv'
  OBVIOUS
<1> USE DEF AuthInv, AuthTypeOK, CacheHolds, TurnHolds, Recent, Phase
<1>1. CASE Accepted
  BY <1>1 DEF Accepted
<1>2. CASE Refused
  BY <1>2 DEF Refused
<1> QED
  BY <1>1, <1>2, IssueTokenKeeps, TakeTokenKeeps DEF VaultStep

LEMMA EndsKeeps == AuthInv /\ TurnEnds => AuthInv'
BY EndTurnKeeps DEF TurnEnds, LoginFails, Denied, TurnDone, TurnFails, Outcome

-----------------------------------------------------------------------------
(* The loop of watch around it.                                            *)

\* Everything but a step of the turn leaves the login alone.
LEMMA AuthStutters ==
    ASSUME AuthInv, UNCHANGED authVars, at = "orphan" => at' = "orphan"
    PROVE  AuthInv'
BY DEF authVars, AuthInv, AuthTypeOK, CacheHolds, TurnHolds, Recent

LEMMA RestartHolds == AuthInv /\ Restart => AuthInv'
<1> SUFFICES ASSUME Restart
             PROVE  AuthInv'
  OBVIOUS
<1>1. cache' \in [token : Token \cup {NoToken}, identity : Identity \cup {NoIdentity}, left : Nat]
  BY DEF Restart, EmptyCache
<1>2. client' \in [token : Token \cup {NoToken, FileToken}, cached : BOOLEAN]
  BY DEF Restart, NoClient
<1>3. AuthTypeOK'
  BY <1>1, <1>2, UnissuedType DEF Restart, AuthTypeOK, Phase, Outcome, TokenRecord
<1>4. CacheHolds' /\ TurnHolds'
  BY DEF Restart, CacheHolds, TurnHolds, EmptyCache
<1> QED
  BY <1>3, <1>4 DEF AuthInv

LEMMA NextKeepsAuth == AuthInv /\ [Next]_vars => AuthInv'
<1> SUFFICES ASSUME AuthInv, [Next]_vars
             PROVE  AuthInv'
  OBVIOUS
<1>1. ASSUME NEW s \in Section, LoadConfig(s)
      PROVE  AuthInv'
  BY <1>1, BeginTurnKeeps DEF LoadConfig
<1>2. CASE UNCHANGED authVars /\ (at = "orphan" => at' = "orphan")
  BY <1>2, AuthStutters
<1>3. CASE Work
  <2>1. CASE Turn(ConnectStep) \/ (~Cancelled /\ Turn(VaultStep)) \/ Turn(TurnEnds)
    BY <2>1, ConnectKeeps, VaultKeeps, EndsKeeps DEF Turn
  <2>2. CASE RunCommand \/ CommandEnds
    BY <1>2, <2>2 DEF RunCommand, CommandEnds
  <2> QED
    BY <1>3, <2>1, <2>2 DEF Work
<1>4. CASE GiveUp
  <2>1. CASE Turn(LoginFails \/ TurnFails)
    BY <2>1, EndsKeeps DEF Turn, TurnEnds
  <2>2. CASE CommandKilled
    BY <1>2, <2>2 DEF CommandKilled
  <2> QED
    BY <1>4, <2>1, <2>2 DEF GiveUp
<1>5. CASE LoadFails \/ Woken \/ TimerFires \/ Stops \/ Signal \/ Terminate
  BY <1>2, <1>5 DEF LoadFails, Woken, TimerFires, Stops, Signal, Terminate
<1>10. CASE OrphanEnds
  BY <1>10, EndTurnKeeps DEF OrphanEnds, Outcome
<1>6. CASE Restart
  BY <1>6, RestartHolds
<1>7. ASSUME NEW t \in Token, Revoke(t), UNCHANGED watchVars
      PROVE  AuthInv'
  BY <1>7, RevokeKeeps DEF watchVars
<1>8. CASE Tick
  BY <1>8, TickKeeps
<1>9. CASE UNCHANGED vars
  BY <1>2, <1>9 DEF vars, authVars
<1> QED
  BY <1>1, <1>3, <1>4, <1>5, <1>6, <1>7, <1>8, <1>9, <1>10 DEF Next

LEMMA NextKeepsSignal == WatchTypeOK /\ SignalIsKept /\ [Next]_vars => SignalIsKept'
<1> SUFFICES ASSUME WatchTypeOK, SignalIsKept, [Next]_vars
             PROVE  SignalIsKept'
  OBVIOUS
<1> USE DEF WatchTypeOK, SignalIsKept
<1>1. ASSUME NEW s \in Section, LoadConfig(s)
      PROVE  SignalIsKept'
  BY <1>1 DEF LoadConfig
<1>2. CASE LoadFails \/ Woken \/ TimerFires \/ Stops
  BY <1>2 DEF LoadFails, Woken, TimerFires, Stops
<1>3. CASE at \in {"turn", "command", "orphan"} /\ UNCHANGED <<trigger, owed>>
  BY <1>3
<1>4. CASE Signal \/ Terminate \/ Restart
  BY <1>4 DEF Signal, Terminate, Restart, Started
<1>5. CASE UNCHANGED <<at, trigger, owed>>
  BY <1>5
<1>6. CASE Work \/ GiveUp \/ OrphanEnds
  BY <1>3, <1>6 DEF Work, GiveUp, Turn, RunCommand, CommandEnds, CommandKilled, OrphanEnds
<1> QED
  BY <1>1, <1>2, <1>4, <1>5, <1>6 DEF Next, Tick, vars, watchVars

LEMMA NextKeepsWatchType == WatchTypeOK /\ [Next]_vars => WatchTypeOK'
<1> SUFFICES ASSUME WatchTypeOK, [Next]_vars
             PROVE  WatchTypeOK'
  OBVIOUS
<1> USE DEF Next, LoadConfig, LoadFails, Woken, TimerFires, Stops, Signal, Terminate, Restart,
            Started, Work, GiveUp, Turn, RunCommand, CommandEnds, CommandKilled, OrphanEnds,
            Tick, vars, watchVars
<1>1. at' \in Place
  BY DEF WatchTypeOK, Place
<1>2. waited' \in 0..Interval
  <2>1. waited' \in {waited, 0} \/ (~Ready /\ at = "select" /\ waited' = waited + 1)
    OBVIOUS
  <2> QED
    BY <2>1 DEF WatchTypeOK, Ready
<1>3. trigger' \in 0..1
  <2>1. trigger' \in {trigger, 0, 1}
    OBVIOUS
  <2> QED
    BY <2>1 DEF WatchTypeOK
<1>4. owed' \in BOOLEAN /\ stopping' \in BOOLEAN
  <2>1. owed' = owed \/ owed' = TRUE \/ owed' = FALSE
    OBVIOUS
  <2>2. stopping' = stopping \/ stopping' = TRUE \/ stopping' = FALSE
    OBVIOUS
  <2> QED
    BY <2>1, <2>2 DEF WatchTypeOK
<1> QED
  BY <1>1, <1>2, <1>3, <1>4 DEF WatchTypeOK

\* Inv holds in every reachable state: every step keeps it.
THEOREM Invariance == Spec => []Inv
<1>1. Inv /\ [Next]_vars => Inv'
  BY NextKeepsAuth, NextKeepsSignal, NextKeepsWatchType DEF Inv
<1> QED
  BY <1>1, InitHolds, PTL DEF Spec

-----------------------------------------------------------------------------
(* The properties of the runs.                                             *)

\* Every variable has its type in every reachable state.
THEOREM TypeCorrect == Spec => []TypeOK
<1>1. Inv => TypeOK
  BY DEF Inv, AuthInv, WatchTypeOK, TypeOK
<1> QED
  BY <1>1, Invariance, PTL

\* No request carries the token of another identity, for any sequence of
\* configurations, logins and revocations.
THEOREM TokenOfTheSection == Spec => []TokenBelongsToSection
<1>1. Inv => TokenBelongsToSection
  BY DEF Inv, AuthInv, TurnHolds, TokenBelongsToSection
<1> QED
  BY <1>1, Invariance, PTL

\* However often Vault refuses, a turn logs in once.
THEOREM LogsInOnce == Spec => []OneLoginPerTurn
<1>1. Inv => OneLoginPerTurn
  BY DEF Inv, AuthInv, AuthTypeOK, TurnHolds, OneLoginPerTurn, Phase
<1> QED
  BY <1>1, Invariance, PTL

\* The guard covers the time the answer of a login was under way, for any lease
\* a fifth of which covers a turn and any deadline up to the largest guard.
THEOREM CacheEndsBeforeTheLease == Spec => []CacheIsLive
<1>1. Inv => CacheIsLive
  BY DEF Inv, AuthInv, AuthTypeOK, CacheHolds, CacheIsLive, Expired
<1> QED
  BY <1>1, Invariance, PTL

\* No signal is lost, wherever the loop is and however many come.
THEOREM SignalsAreKept == Spec => []SignalIsKept
<1>1. Inv => SignalIsKept
  BY DEF Inv
<1> QED
  BY <1>1, Invariance, PTL

\* A turn that ends in a refusal had a token that was valid, tried to get
\* another one, or lost the one it had just obtained: for any leases.
THEOREM RefusedForAReason == Spec => DeniedForAReason
<1> DEFINE Reasons ==
        (outcome' = "denied" /\ outcome # "denied" /\ section \notin StaticSection) =>
            \/ Valid(client.token)
            \/ phase \in {"login", "answer"}
            \/ /\ logins = 1
               /\ issued[client.token].revoked \/ issued[client.token].lease <= Timeout
<1>1. AuthInv /\ at = "turn" /\ Denied => Reasons
  <2> SUFFICES ASSUME AuthInv, at = "turn", Denied, section \notin StaticSection, ~Valid(client.token)
               PROVE  /\ logins = 1
                      /\ issued[client.token].revoked \/ issued[client.token].lease <= Timeout
    OBVIOUS
  <2>1. /\ client.token \in Token /\ logins = 1 /\ Recent(client.token)
    BY DEF Denied, AuthInv, TurnHolds
  <2>2. issued[client.token].lease \in Nat /\ issued[client.token].left \in Nat /\ spent \in 0..Timeout
    BY <2>1, IssuedType DEF AuthInv, AuthTypeOK
  <2> QED
    BY <2>1, <2>2 DEF Valid, Expired, Recent
<1>2. AuthInv /\ Turn(LoginFails) => Reasons
  BY DEF Turn, LoginFails
<1>3. Turn(ConnectStep) \/ Turn(VaultStep) \/ Turn(TurnDone) \/ Turn(TurnFails) => outcome' # "denied" \/ outcome' = outcome
  BY DEF Turn, ConnectStep, VaultStep, UseFileToken, UseCache, LogIn, IssueToken, TakeToken,
         Accepted, Refused, TurnDone, TurnFails, EndTurn
<1>4. Work \/ GiveUp => Turn(ConnectStep) \/ Turn(VaultStep) \/ Turn(TurnDone) \/ Turn(TurnFails)
                       \/ Turn(LoginFails) \/ (at = "turn" /\ Denied) \/ UNCHANGED outcome
  BY DEF Work, GiveUp, Turn, TurnEnds, RunCommand, CommandEnds, CommandKilled, authVars
<1>5. Inv /\ [Next]_vars => Reasons \/ UNCHANGED outcome
  <2> SUFFICES ASSUME Inv, [Next]_vars, outcome' # outcome, outcome' = "denied"
               PROVE  Reasons
    OBVIOUS
  <2>1. Work \/ GiveUp
    BY DEF Next, LoadConfig, BeginTurn, LoadFails, OrphanEnds, EndTurn, Woken, TimerFires, Stops, Signal,
           Terminate, Restart, Revoke, Tick, AuthTick, authVars, vars
  <2> QED
    BY <1>1, <1>2, <1>3, <1>4, <2>1 DEF Inv
<1>6. Inv /\ [Next]_vars => [Reasons]_authVars
  BY <1>5 DEF authVars
<1> QED
  BY <1>6, Invariance, PTL DEF Spec, DeniedForAReason
=============================================================================
