------------------------------- MODULE Migration -------------------------------
(***************************************************************************)
(* "migrate" (migrate.go): a run has the helper replace the keys of the    *)
(* cluster, takes one inventory of all keys, gives every RGW daemon a      *)
(* secure key (stage, install, restart, await the promotion), one daemon   *)
(* after the other, and at the end rotates the Rook credentials if their   *)
(* keys are not secure.  Runs are started again after they failed, may run *)
(* at once, and daemons restart and authenticate when they please.         *)
(*                                                                         *)
(* The rotation at the end is "rotate" without its first steps; what the   *)
(* three calls of synchronize in it do is the subject of Rotation, and one *)
(* step here.                                                              *)
(***************************************************************************)
EXTENDS Integers, Sequences

CONSTANTS
    Migrator,           \* processes that run "migrate"
    Daemons,            \* the RGW daemons, in the order they are migrated in; one
                        \* that is discovered may be listed more than once
    RookEntity,         \* the standard Rook entities of the configuration
    Polls,              \* how often the promotion of a key is asked for
    SessionsCut,        \* an ssh session may end before the script got its input
    MaxRuns,            \* bound on the runs started
    MaxFaults           \* bound on what goes wrong

ASSUME MigrationAssumption ==
    /\ Daemons \in Seq(STRING)
    /\ Polls \in Nat \ {0}
    /\ SessionsCut \in BOOLEAN
    /\ MaxRuns \in Nat
    /\ MaxFaults \in Nat

VARIABLES
    current, pending,   \* current[d], pending[d]: the keys the monitors accept
    keyring,            \* keyring[d]: the key in the keyring file of d
    running,            \* running[d]: the key the process of d has loaded
    promotes,           \* mon_auth_client_pending_key_auto_promote
    rook,               \* rook[e][g]: type of the key of e in generation g
    config,             \* cephx_generation in the configuration file
    stage, outcome,     \* stage[x], outcome[x]: where the run of x is, how it ended
    serial,             \* serial[x]: the number of the run of x, among all runs
    gen,                \* gen[x]: the generation of the configuration x works on
    states,             \* states[x]: the inventory x has taken
    next, key, polls,   \* of x: daemon of the loop, key staged, attempts
    missing,            \* missing[x]: Rook entities x has still to create
    runs, faults        \* what MaxRuns and MaxFaults bound

monitors == <<current, pending, promotes, rook>>
hosts == <<keyring, running>>
locals == <<stage, outcome, serial, gen, states, next, key, polls, missing>>
vars == <<current, pending, promotes, rook, keyring, running, config,
          stage, outcome, serial, gen, states, next, key, polls, missing, runs, faults>>

Daemon == {Daemons[i] : i \in DOMAIN Daemons}
Generation == 0..MaxRuns        \* a run advances the generation at most once

Secure == "aes256k"
Absent == ""
KeyType == {"aes", Secure, Absent}

\* A key is its type and what tells it from the others of the entity: 0 for the
\* first, 1 for one staged by hand, then one for each run, and in a run the place
\* in its loop.
Key == [type : KeyType, n : 0..MaxRuns + 1, at : 0..Len(Daemons)]
NoKey == [type |-> Absent, n |-> 0, at |-> 0]

IsSecure(k) == k.type = Secure

KeyState == [current : KeyType, pending : KeyType]
Inventory == [rgw : [Daemon -> KeyState], rook : [RookEntity -> [Generation -> KeyType]]]

NoInventory ==
    [rgw  |-> [d \in Daemon |-> [current |-> Absent, pending |-> Absent]],
     rook |-> [e \in RookEntity |-> [g \in Generation |-> Absent]]]

Stage == {"idle", "helper", "inventory", "check", "daemon", "stage", "install",
          "restart", "await", "create", "save"}

TypeOK ==
    /\ current \in [Daemon -> Key] /\ pending \in [Daemon -> Key]
    /\ keyring \in [Daemon -> Key] /\ running \in [Daemon -> Key]
    /\ promotes \in BOOLEAN
    /\ rook \in [RookEntity -> [Generation -> KeyType]]
    /\ config \in Generation
    /\ stage \in [Migrator -> Stage]
    /\ outcome \in [Migrator -> {"none", "done", "failed"}]
    /\ serial \in [Migrator -> 0..runs] /\ gen \in [Migrator -> Generation]
    /\ states \in [Migrator -> Inventory]
    /\ next \in [Migrator -> 1..Len(Daemons) + 1]
    /\ key \in [Migrator -> Key]
    /\ polls \in [Migrator -> 0..Polls - 1]
    /\ missing \in [Migrator -> SUBSET RookEntity]
    /\ runs \in 0..MaxRuns /\ faults \in 0..MaxFaults

\* Some keys are secure already, a daemon of the configuration may have no key,
\* and somebody may have staged a key by hand.
Init ==
    /\ current \in [Daemon -> {[type |-> t, n |-> 0, at |-> 0] : t \in KeyType}]
    /\ pending \in [Daemon -> {NoKey, [type |-> "aes", n |-> 1, at |-> 0]}]
    /\ keyring = current /\ running = current
    /\ promotes \in BOOLEAN
    /\ \E types \in [RookEntity -> {"aes", Secure}] :
        rook = [e \in RookEntity |->
                    [g \in Generation |-> IF g = 0 THEN types[e] ELSE Absent]]
    /\ config = 0
    /\ stage = [x \in Migrator |-> "idle"]
    /\ outcome = [x \in Migrator |-> "none"]
    /\ serial = [x \in Migrator |-> 0] /\ gen = [x \in Migrator |-> 0]
    /\ states = [x \in Migrator |-> NoInventory]
    /\ next = [x \in Migrator |-> 1]
    /\ key = [x \in Migrator |-> NoKey]
    /\ polls = [x \in Migrator |-> 0]
    /\ missing = [x \in Migrator |-> {}]
    /\ runs = 0 /\ faults = 0

-----------------------------------------------------------------------------
(* A run.                                                                  *)

Goto(x, s) == stage' = [stage EXCEPT ![x] = s]

\* The run ends; what it knew is gone.
End(x, result) ==
    /\ Goto(x, "idle")
    /\ outcome' = [outcome EXCEPT ![x] = result]
    /\ states' = [states EXCEPT ![x] = NoInventory]
    /\ next' = [next EXCEPT ![x] = 1]
    /\ key' = [key EXCEPT ![x] = NoKey]
    /\ polls' = [polls EXCEPT ![x] = 0]
    /\ missing' = [missing EXCEPT ![x] = {}]

\* runMigrate, CanSynchronize and Version: nothing happens in between.
LoadConfig(x) ==
    /\ stage[x] = "idle" /\ runs < MaxRuns
    /\ runs' = runs + 1
    /\ serial' = [serial EXCEPT ![x] = runs + 1]
    /\ gen' = [gen EXCEPT ![x] = config]
    /\ outcome' = [outcome EXCEPT ![x] = "none"]
    /\ Goto(x, "helper")
    /\ UNCHANGED <<monitors, hosts, config, states, next, key, polls, missing>>

\* The helper turns automatic promotion off while a client key of its own waits
\* for an explicit commit, and on again when nothing is staged.
RunMigrationHelper(x) ==
    /\ stage[x] = "helper"
    /\ promotes' \in BOOLEAN
    /\ Goto(x, "inventory")
    /\ UNCHANGED <<current, pending, rook, hosts, config, outcome, gen, states,
                   next, key, polls, missing, serial, runs>>

\* AuthKeyStates: the one inventory of the run.
TakeInventory(x) ==
    /\ stage[x] = "inventory"
    /\ states' = [states EXCEPT ![x] =
                    [rgw  |-> [d \in Daemon |-> [current |-> current[d].type,
                                                 pending |-> pending[d].type]],
                     rook |-> rook]]
    /\ Goto(x, "check")
    /\ UNCHANGED <<monitors, hosts, config, outcome, gen, next, key, polls, missing,
                   serial, runs>>

\* PendingKeyAutoPromote: a command that fails, as it does where the option is
\* unknown, counts as a yes.
CheckPendingKeyPromotion(x) ==
    /\ stage[x] = "check"
    /\ LET staging == \E d \in Daemon : states[x].rgw[d].current # Secure
       IN  \E answer \in {promotes, TRUE} :
            IF staging /\ ~answer
            THEN End(x, "failed")
            ELSE /\ Goto(x, "daemon")
                 /\ UNCHANGED <<outcome, states, next, key, polls, missing>>
    /\ UNCHANGED <<monitors, hosts, config, gen, serial, runs>>

\* The daemon the loop of x is at.
This(x) == Daemons[next[x]]

\* The switch at the head of migrateRGWDaemon.
InspectDaemon(x) ==
    /\ stage[x] = "daemon" /\ next[x] <= Len(Daemons)
    /\ LET state == states[x].rgw[This(x)]
       IN  CASE state.current = Secure ->
                    /\ next' = [next EXCEPT ![x] = @ + 1]
                    /\ UNCHANGED <<stage, outcome, states, key, polls, missing>>
             [] state.current = Absent \/ state.pending \notin {Absent, Secure} ->
                    End(x, "failed")
             [] OTHER ->
                    /\ Goto(x, "stage")
                    /\ UNCHANGED <<outcome, states, next, key, polls, missing>>
    /\ UNCHANGED <<monitors, hosts, config, gen, serial, runs>>

\* Each visit of a run to a daemon is given at most one new key.
NewKey(x) == [type |-> Secure, n |-> serial[x] + 1, at |-> next[x]]

\* Variants of StagePendingKey: the key is made the current one at once; a key
\* that is pending already is replaced.
StageAsCurrent(x) ==
    /\ stage[x] = "stage"
    /\ current' = [current EXCEPT ![This(x)] = NewKey(x)]
    /\ key' = [key EXCEPT ![x] = NewKey(x)]
    /\ Goto(x, "install")
    /\ UNCHANGED <<pending, promotes, rook, hosts, config, outcome, gen, states,
                   next, polls, missing, serial, runs>>

StageAnew(x) ==
    /\ stage[x] = "stage"
    /\ pending' = [pending EXCEPT ![This(x)] = NewKey(x)]
    /\ key' = [key EXCEPT ![x] = NewKey(x)]
    /\ Goto(x, "install")
    /\ UNCHANGED <<current, promotes, rook, hosts, config, outcome, gen, states,
                   next, polls, missing, serial, runs>>

\* auth_preferred_cipher is set to aes256k, then get-or-create-pending answers
\* with the pending key if there is one, and with a new one otherwise.
StagePendingKey(x) ==
    /\ stage[x] = "stage"
    /\ LET d == This(x)
           k == IF pending[d] = NoKey THEN NewKey(x) ELSE pending[d]
       IN  /\ pending' = [pending EXCEPT ![d] = k]
           /\ key' = [key EXCEPT ![x] = k]
    /\ Goto(x, "install")
    /\ UNCHANGED <<current, promotes, rook, hosts, config, outcome, gen, states,
                   next, polls, missing, serial, runs>>

\* The script writes a temporary file and moves it over the keyring.
InstallRGWKey(x) ==
    /\ stage[x] = "install"
    /\ keyring' = [keyring EXCEPT ![This(x)] = key[x]]
    /\ Goto(x, "restart")
    /\ UNCHANGED <<monitors, running, config, outcome, gen, states, next, key,
                   polls, missing, serial, runs>>

\* The session is cut when the script runs but has read nothing: its "cat" ends
\* without an error, and the empty file is moved over the keyring.
InstallNothing(x) ==
    /\ SessionsCut
    /\ stage[x] = "install"
    /\ keyring' = [keyring EXCEPT ![This(x)] = NoKey]
    /\ End(x, "failed")
    /\ UNCHANGED <<monitors, running, config, gen, serial, runs>>

\* systemctl restart, is-active: the process is up, it need not have authenticated.
RestartRGW(x) ==
    /\ stage[x] = "restart"
    /\ running' = [running EXCEPT ![This(x)] = keyring[This(x)]]
    /\ Goto(x, "await")
    /\ UNCHANGED <<monitors, keyring, config, outcome, gen, states, next, key,
                   polls, missing, serial, runs>>

Promoted(x) ==
    /\ Goto(x, "daemon")
    /\ next' = [next EXCEPT ![x] = @ + 1]
    /\ key' = [key EXCEPT ![x] = NoKey]
    /\ polls' = [polls EXCEPT ![x] = 0]
    /\ UNCHANGED <<outcome, states, missing>>

\* Variants of AwaitKeyPromotion: the result is not looked at; the attempts are
\* not counted; one attempt too many.
AwaitNothing(x) ==
    /\ stage[x] = "await"
    /\ Promoted(x)
    /\ UNCHANGED <<monitors, hosts, config, gen, serial, runs>>

AwaitForever(x) ==
    /\ stage[x] = "await" /\ IsSecure(current[This(x)])
    /\ Promoted(x)
    /\ UNCHANGED <<monitors, hosts, config, gen, serial, runs>>

AwaitOnceMore(x) ==
    /\ stage[x] = "await"
    /\ IF polls[x] < Polls
       THEN /\ polls' = [polls EXCEPT ![x] = @ + 1]
            /\ UNCHANGED <<stage, outcome, states, next, key, missing>>
       ELSE End(x, "failed")
    /\ UNCHANGED <<monitors, hosts, config, gen, serial, runs>>

\* An attempt of awaitKeyPromotion; after the last one the run fails.
AwaitKeyPromotion(x) ==
    /\ stage[x] = "await"
    /\ \/ IsSecure(current[This(x)]) /\ Promoted(x)
       \/ /\ ~IsSecure(current[This(x)]) /\ polls[x] + 1 < Polls
          /\ polls' = [polls EXCEPT ![x] = @ + 1]
          /\ UNCHANGED <<stage, outcome, states, next, key, missing>>
       \/ /\ ~IsSecure(current[This(x)]) /\ polls[x] + 1 = Polls
          /\ End(x, "failed")
    /\ UNCHANGED <<monitors, hosts, config, gen, serial, runs>>

\* Variant of RookNeedsSecureKeys: one secure key is taken for all.
RookHasNoSecureKey(x) ==
    \A e \in RookEntity : states[x].rook[e][gen[x]] # Secure

RookNeedsSecureKeys(x) ==
    \E e \in RookEntity : states[x].rook[e][gen[x]] # Secure

\* After the last daemon: without standard credentials the run fails; rotate,
\* or leave it.
DecideRotation(x) ==
    /\ stage[x] = "daemon" /\ next[x] > Len(Daemons)
    /\ IF RookNeedsSecureKeys(x)
       THEN /\ Goto(x, "create")
            /\ missing' = [missing EXCEPT ![x] = RookEntity]
            /\ UNCHANGED <<outcome, states, next, key, polls>>
       ELSE End(x, IF RookEntity = {} THEN "failed" ELSE "done")
    /\ UNCHANGED <<monitors, hosts, config, gen, serial, runs>>

\* get-or-create with --key-type: an entity that exists keeps its key.
CreateKey(x) ==
    /\ stage[x] = "create"
    /\ \E e \in missing[x] :
        /\ rook' = [rook EXCEPT ![e][gen[x] + 1] = IF @ = Absent THEN Secure ELSE @]
        /\ missing' = [missing EXCEPT ![x] = @ \ {e}]
    /\ UNCHANGED <<current, pending, promotes, hosts, config, stage, outcome, gen,
                   states, next, key, polls, serial, runs>>

\* rotateCredentials returns the next configuration.
Publish(x) ==
    /\ stage[x] = "create" /\ missing[x] = {}
    /\ gen' = [gen EXCEPT ![x] = @ + 1]
    /\ Goto(x, "save")
    /\ UNCHANGED <<monitors, hosts, config, outcome, states, next, key, polls,
                   missing, serial, runs>>

SaveConfig(x) ==
    /\ stage[x] = "save"
    /\ config' = gen[x]
    /\ End(x, "done")
    /\ UNCHANGED <<monitors, hosts, gen, serial, runs>>

Migrate(x) ==
    /\ \/ RunMigrationHelper(x) \/ TakeInventory(x) \/ CheckPendingKeyPromotion(x)
       \/ InspectDaemon(x) \/ StagePendingKey(x) \/ InstallRGWKey(x)
       \/ RestartRGW(x) \/ AwaitKeyPromotion(x) \/ DecideRotation(x)
       \/ CreateKey(x) \/ Publish(x) \/ SaveConfig(x)
    /\ UNCHANGED faults

\* A command fails, -timeout passes, this host is not the active manager, or
\* the process is killed.
Fails(x) ==
    /\ stage[x] # "idle"
    /\ End(x, "failed")
    /\ UNCHANGED <<monitors, hosts, config, gen, serial, runs>>

-----------------------------------------------------------------------------
(* The daemons, and the whole.                                             *)

\* The process of d authenticates with its key; if that is the pending key and
\* promotion is on, the monitors make it the current one.
Authenticate(d) ==
    /\ promotes /\ pending[d] # NoKey /\ running[d] = pending[d]
    /\ current' = [current EXCEPT ![d] = pending[d]]
    /\ pending' = [pending EXCEPT ![d] = NoKey]
    /\ UNCHANGED <<promotes, rook, hosts, config, locals, runs, faults>>

\* The process of d restarts by itself, or its host does.
DaemonRestarts(d) ==
    /\ running[d] # keyring[d]
    /\ running' = [running EXCEPT ![d] = keyring[d]]
    /\ UNCHANGED <<monitors, keyring, config, locals, runs>>

\* Somebody runs the helper elsewhere.
PromotionChanges ==
    /\ promotes' = ~promotes
    /\ UNCHANGED <<current, pending, rook, hosts, config, locals, runs>>

Disturb ==
    /\ faults < MaxFaults
    /\ faults' = faults + 1
    /\ \/ \E x \in Migrator : Fails(x) \/ InstallNothing(x)
       \/ \E d \in Daemon : DaemonRestarts(d)
       \/ PromotionChanges

Next ==
    \/ \E x \in Migrator : LoadConfig(x) /\ UNCHANGED faults
    \/ \E x \in Migrator : Migrate(x)
    \/ \E d \in Daemon : Authenticate(d)
    \/ Disturb

\* A process that runs goes on; nobody has to start one, no daemon has to
\* authenticate.
Fairness == \A x \in Migrator : WF_vars(Migrate(x))

Spec == Init /\ [][Next]_vars /\ Fairness
-----------------------------------------------------------------------------
(* Properties.                                                             *)

Accepted(d) == {current[d]} \cup ({pending[d]} \ {NoKey})

\* Wherever a run stops, the keyring of every daemon holds a key that the
\* monitors accept.  (README.md:268 "A daemon that does not come back keeps its
\* working key"; order of the steps in migrateRGWDaemon.)  It holds for one run
\* at a time, but not when the session that installs a keyring is cut, nor when
\* runs overlap: a run that installs the key it staged long ago may undo what
\* two others have done.
DaemonKeepsAcceptedKey == \A d \in Daemon : keyring[d] \in Accepted(d)

\* The same as a history, for one run at a time: a second key is offered and
\* taken over, and only a key that is not in the keyring any more is retired.
\* (StagePendingKey, InstallRGWKey, and promotion by the monitors.)
Promise == INSTANCE KeyHandover WITH
    accepted <- [d \in Daemon |-> Accepted(d)],
    held     <- keyring

KeepsDaemonsWorking == Promise!Handover

\* Until a daemon has a secure key, no run takes a working one away, however many
\* overlap, fail or hold old inventories: its keyring and its process have keys
\* that the monitors accept, or none after a session was cut.  So what is left
\* behind can be repaired: the next run does not skip this daemon.  (README.md:268
\* "A daemon that does not come back keeps its working key"; StagePendingKey gives
\* every run the same key, and only secure keys are promoted.)
InsecureDaemonsWork ==
    \A d \in Daemon : ~IsSecure(current[d]) =>
        {keyring[d], running[d]} \subseteq Accepted(d) \cup {k \in {NoKey} : SessionsCut}

Touched(d) ==
    \/ keyring'[d] # keyring[d]
    \/ pending'[d] \notin {NoKey, pending[d]}

\* A daemon is touched only when every daemon listed before it has a secure key, and
\* Rook credentials only when all have: no failure, and no other run, makes a
\* run jump ahead.  (README.md:268 "stops the run before any later daemon or
\* Rook credential changes"; migrateToSecureKeys.)
LaterDaemonsWait ==
    [][ /\ \A d \in Daemon : Touched(d) =>
            \E i \in DOMAIN Daemons :
                /\ Daemons[i] = d
                /\ \A j \in 1..i - 1 : IsSecure(current[Daemons[j]])
        /\ rook' # rook => \A d \in Daemon : IsSecure(current[d]) ]_vars

\* A run that reports success leaves no insecure key behind: every daemon, and
\* every Rook credential of the generation it worked on or advanced to, has a
\* secure key, although the inventory it decided by was taken at its start.
\* (rookNeedsSecureKeys, migrateRGWDaemon.)
SecureWhenDone ==
    \A x \in Migrator :
        outcome[x] = "done" =>
            /\ \A d \in Daemon : IsSecure(current[d])
            /\ \A e \in RookEntity : rook[e][gen[x]] = Secure

\* Every run ends, also when a daemon never authenticates.  (The attempts of
\* awaitKeyPromotion are counted.)
EveryRunEnds == \A x \in Migrator : stage[x] # "idle" ~> stage[x] = "idle"
=============================================================================
