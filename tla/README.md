# A TLA+ model of pve-rook-secret-sync

The specifications in this directory model what `pve-rook-secret-sync` does to
Ceph, to a Vault KV v2 store and to its configuration file when several of its
processes run at once and when requests, hosts and processes fail. TLC checks
them on small instances; the safety of every part, and that rotations and
migrations implement what they promise, is proved with TLAPS for instances of any
size.

## 1. Inventory

| Component | State | Operations | Talks to |
| --- | --- | --- | --- |
| `synchronize` (`sync.go`) | none between calls; in a call the values read, the plan | one call: coordinate, read Ceph, read Vault, compare, write | Ceph client, Vault client |
| Ceph client (`ceph.go`) | none | active manager, FSID, credential of a kind, `get-or-create`, pending keys, RGW hosts | `ceph`, `radosgw-admin`, ssh |
| Vault client (`vault.go`) | token and "from cache" flag of a call | read (data, then metadata after a 404), write with `cas`, one retry after a refusal | Vault over HTTP, login |
| Vault login (`vault.go`) | cache of the process: token, identity, expiry | static token, cached login, login, forced login | Vault over HTTP |
| resident service (`main.go`) | signal channel of capacity one, context, login cache | `watch`: load configuration, call `synchronize` under a deadline, wait for timer, signal or the end | all of the above, systemd |
| `rotate` (`rotate.go`) | the configuration file | check, create keys, archive twice, publish, replace the file | `synchronize`, Ceph client |
| `migrate` (`migrate.go`) | keys and pending keys in Ceph, keyrings on RGW hosts | helper, inventory, per daemon stage/install/restart/await, then `rotate` | Ceph client, `rotate` |
| `bootstrap` (`bootstrap.go`) | CephX and RGW users in Ceph | load the configuration; per user look up, create, add a capability | Ceph client, configuration |
| `init` (`init.go`) | the configuration file | check pmxcfs, create exclusively, write, close, remove after an error | file system |
| configuration (`config.go`, `main.go`, `rotate.go`) | the shared and the local file | choose one, load, default, validate; replace by a rename | file system |
| packaging | unit files | start, restart on failure, reload by SIGHUP | systemd |

Runners share three things: the Ceph cluster (read by all, changed by `rotate`,
`migrate`, `bootstrap` and operators), the secrets in Vault (compare-and-set is
their only protection), and the configuration file, which `pmxcfs` shows to
every node (no protection but an atomic rename).

What is hard, and what makes each part correct:

* **synchronize.** A call is a long sequence of requests. Managers fail over in
  the middle of it, another host or another cluster writes the same paths,
  a write is applied and its answer lost, a call stops half-way. It is correct
  when generation identifiers stand for one snapshot, no update is lost, no
  cluster loses its secrets to another, and the stable paths converge.
* **rotate.** Three calls of `synchronize` and a file replacement must appear
  as one switch to consumers, while the service of the same cluster keeps
  publishing the generation of the file. It is correct when nothing is active
  that is not preserved, everything that is offered works, and the stable paths
  end up at the generation of the file.
* **migrate.** The inventory is read once; a daemon must keep a key the monitors
  accept at every point, and the first failure must stop the run.
* **login.** The cache outlives the configuration it was filled under, Vault
  counts leases from another moment than the process does, and nobody announces
  a revocation. A token must serve only the identity it was issued to, a token
  that expired or was revoked must cost a login and not the turn, and a refusal
  by a policy must not start a loop of logins.
* **watch.** Signals come at any time into a channel that holds one, and a turn
  waits for Vault and for processes it has started. No signal may be forgotten,
  no turn may be the last, and a service that is told to stop must.
* **init, replacement, readers.** Nobody takes a lock. What a command reported
  as installed must stay whole, a partial file must come from a command that
  could not clean up. Where pmxcfs is not mounted the shared file does not exist,
  and the program takes the local one, which may be stale; it must not do so because
  pmxcfs does not answer, nor for longer than a turn.
* **bootstrap.** Every command may fail after it has taken effect, and others
  create the same users. Users that exist must be left alone; success must mean
  that all are complete; running it again must get there.

Every hazard has an entry in `PROJECT.json`, at its line, with the properties
that would catch it.

## 2. Modules

| Module | Models | Source |
| --- | --- | --- |
| `Credentials` | pure functions: identity of a credential in a generation, path, rendered data, generation identifier | `sync.go`, `rotate.go`, `bootstrap.go`, `ceph.go` |
| `Synchronize` | state and actions of a call of `synchronize`, of Ceph and of Vault; the invariant `CallsInv` | `sync.go`, `vault.go`, `ceph.go` |
| `SecretSync` | the resident service on several hosts, for one or more clusters | `main.go` |
| `Rotation` | `rotate` beside the service and the configuration file they share | `rotate.go`, `main.go` |
| `IdentityLifecycle` | what a rotation promises, without its mechanism | implemented by `Rotation` |
| `Migration` | `migrate`: its runs, the monitors' keys, the keyrings and processes of RGW daemons | `migrate.go`, `ceph.go` |
| `KeyHandover` | what a migration promises a daemon | implemented by `Migration` |
| `VaultAuth` | the login cache of a process, the client of a turn, what Vault knows of its tokens | `vault.go` |
| `Resident` | the process of the service: `watch`, its signals, the deadline, the commands a turn runs; extends `VaultAuth` | `main.go`, `ceph.go` |
| `ConfigFile` | the shared file: `init`, replacement, choice and loading | `init.go`, `rotate.go`, `main.go`, `config.go` |
| `Configuration` | the fields of the file: `init`'s flags, the defaults from the environments of the hosts, validation, what a rotation saves | `config.go`, `init.go`, `rotate.go`, `migrate.go` |
| `Bootstrap` | `bootstrap`: users and capabilities in Ceph | `bootstrap.go`, `ceph.go` |
| `Deployment` | `init`, `bootstrap` and the readers of the shared file together; extends `ConfigFile` and `Bootstrap` | `bootstrap.go`, `main.go` |
| `MCSecretSync`, `MCRotation`, `MCMigration`, `MCResident`, `MCDeployment`, `MCConfiguration` | instances for TLC | |
| `Synchronize_proofs`, `SecretSync_proofs`, `Rotation_proofs`, `Lifecycle_proofs`, `Migration_proofs`, `Resident_proofs`, `Deployment_proofs`, `Configuration_proofs` | proofs | |

`SecretSync` and `Rotation` both extend `Synchronize`; neither repeats it.
`Migration` ends in a rotation, whose three calls of `synchronize` are one step
there: what they do to Vault is the subject of `Rotation`. `Resident` looks into
one process, where a turn is a login and some requests; `SecretSync` and
`Rotation` look at several, where a turn is what it does to Vault. They meet in
`Poll`: `Resident` shows that the next turn comes, and the other two assume it.
`ConfigFile` knows of a configuration only whether it is complete; `Configuration`
is about what is in a complete one.

### Correspondence of state

| Variable | In the program |
| --- | --- |
| `active[c]` | what `ceph mgr dump` answers |
| `ceph[c][s]` | what `ceph auth get-key`, `mon dump`, `mgr services` or `radosgw-admin user info` answers; `NoValue` when the command fails because there is nothing |
| `vault[p]` | the KV v2 entry: current version, whether the latest version exists, data |
| `pc[r]` | the place in `synchronize`: before `CanSynchronize`, in the loop of line 62, before `GET data`, before `GET metadata`, before `POST data`, or returned with `nil`, `errDrift` or another error |
| `cfg[r]`, `mode[r]` | the arguments: generation and whether `archiveConfig` was applied; `DryRun`, `Check` |
| `todo[r]` | entries the current `for` loop has still to visit, in order |
| `value[r]`, `plan[r]` | the local `values` and `plan` |
| `config` | `cephx_generation` in the shared file |
| `stage[x]`, `from[x]`, `missing[x]` | place in `rotateCredentials`, the generation it loaded, keys still to create |
| `current[d]`, `pending[d]` | the two keys of a daemon's entity in `ceph auth dump-keys` |
| `keyring[d]`, `running[d]` | the key in the keyring file on the daemon's host; the key its process loaded |
| `promotes` | `mon_auth_client_pending_key_auto_promote` |
| `cache` | `vaultAuth`: token, identity, and the time left until `expiry` |
| `client` | `vaultClient.token`, `tokenFromCache` |
| `issued[t]` | what Vault knows of token `t`: identity, lease, what is left of it, revoked |
| `phase`, `section`, `answer`, `logins`, `spent`, `outcome` | the place in `newVaultClient` and `do`; `cfg.Vault` of the turn; the token on its way; logins and time of the turn; how the last turn ended |
| `at`, `waited`, `trigger`, `owed`, `stopping` | the place in `watch` or `runCommand`; time in `select`; the channel `trigger`; a signal not yet followed by a load (history); the context is cancelled |
| `shared`, `staged`, `pmxcfs` | the shared file; the temporary file of `replaceConfig`; whether pmxcfs is mounted, mounted and failing every access, or not mounted |
| `installing[i]`, `leftBehind` | the place in `writeNewConfig`; its `os.Remove` could not run |
| `choice[r]`, `loaded[r]` | what `preferredConfigPath` and `loadConfig` returned |
| `file`, `origin` | the fields in the shared file; whether a command, a rotation or an operator has written it (history) |
| `read[r]`, `env[r]`, `worked` | what a rotation has decoded; `VAULT_ADDR`, `VAULT_NAMESPACE` and `VAULT_CACERT` of its process; `cfg` of the last rotation that saved (history) |
| `key[u]`, `caps[u]` | a CephX or RGW user and its capabilities |
| `step[b]`, `left[b]` | the place in `bootstrap`; credentials the loop has still to visit |
| `states[x]`, `key[x]`, `next[x]`, `polls[x]` | in a run of `migrate`: the inventory, the local `key`, the daemon of the loop, `attempt` |

### Abstractions

* Data is a record of what makes it differ: FSID, entity, published user, kind
  and the value read. Key material, monitor maps and links are members of `Value`.
* SHA-256 is taken as injective: a generation identifier is the set that is
  hashed. `_synced_at` is left out, as `sameCredentialData` ignores it.
* A name `client.x.2` is a record of prefix, id and generation; cutting the
  prefix and appending a suffix are operations on the record.
* `CanSynchronize` and `fsid` are two commands and one action: the FSID of a
  cluster never changes, and nothing is done between the two.
* A lost answer is applied no later than the call returns. A write that is still
  under way in the network after its caller gave up is not modelled as such: to
  Vault it is the write of a runner that has been slow since its plan, which the
  models have on other runners.
* Operators delete the latest version of a secret; they do not delete its
  metadata (which would restart versions at 1) nor undelete versions.
* In `Migration` a key is its type and what tells it from others; a daemon is its
  entity. The list of daemons is fixed, whether configured or discovered (then it may
  name a daemon twice, as nothing removes duplicates); a daemon that is not in it does
  not exist. A `config get` that fails counts as automatic promotion, as in
  `PendingKeyAutoPromote`.
  `mon set auth_preferred_cipher` and `get-or-create-pending` are one action, so
  a staged key is always `aes256k`. An operator may have staged a key before, but
  commits and clears none while a run is under way.
* A configured path is not of the form `<other path>/generations/<n>`.
* Version checks, `-dry-run` of `bootstrap`, `rotate` and `migrate`, output and flags are left
  out: they change no state that anything else sees.
* In `VaultAuth` a process has one request at a time, so the mutex of the cache is
  never contended. Policies of Vault, unreadable secret files and failed logins
  are nondeterministic. A token that neither the process nor an answer holds is
  forgotten, and its name is used again. The two kinds of login (user and
  password, AppRole) differ in the identity only.
* Time in `Resident` passes in units, for Vault, the cache and the turn alike. A
  turn takes at most `Timeout`, which is at most 60, the largest guard of the
  cache. Loading the configuration happens before the deadline starts, as in
  `syncOnce`, and is assumed to return. A turn does not work on after its deadline;
  it may wait for an orphan (`at = "orphan"`), while time passes for the leases, and
  fails when that ends.
* In `ConfigFile` a configuration is one value; its fields are in `Configuration`.
  An operator removes a partial file only when no `init` runs. `rotate` and `migrate`
  replace a complete file at any time. `pmxcfs` is the same for all nodes in question.
  `init` looks for `/etc/pve/priv` and creates the file in one step: that pmxcfs is
  unmounted between the two, so that the file lands below the mount point, is not
  modelled.
* In `Configuration` the service is no actor: it loads the file anew for every turn,
  so what it works with is a function of the file and of its environment. Checks
  that no environment can influence (port, commands, mounts, paths, daemons,
  credentials) are one flag of a configuration, fields with a constant default are
  represented by `coordination`, and an auth section says only whether it has what
  its method needs. Operators do not write `cephx_generation`. Losing an edit to a
  rotation that loaded the file before is allowed; `rotate_two` shows what follows
  from it for the generation.
* In `Bootstrap` capabilities are the profile, what a creation gives an RGW user,
  the one that is added, and whatever somebody else has given. Overlap with other
  runs is another bootstrapper or `SomebodyCreates`.

## 3. Runs

Each run is named after its entry in `PROJECT.json`.

| Run | Instance | Shows |
| --- | --- | --- |
| `sync_one_cluster` | two hosts, one CSI key and the monitor map, two values, two disturbances | `SharedGeneration`, `UpdatesReplaceWhatTheyRead`, `Converges` |
| `sync_two_clusters` | a host of each of two clusters, all modes, one disturbance | `SharedGeneration`, `TakeoverOnlyByCreate`, `NilMeansPublished` |
| `rotate_alone` | a service and one rotation at a time, two standard credentials of different kinds, two attempts, two generations, one disturbance | `KeepsPromise`: `Rotation` implements `IdentityLifecycle`; `RotationSettles` |
| `rotate_two` | two concurrent rotations, a standard credential and the monitor map, two values, three attempts | `ArchivedBeforeActive`, `OfferedIdentitiesWork`, `NeverAheadOfArchives`, `KeepsPromise`: overlapping rotations implement `IdentityLifecycle` too |
| `migrate_alone` | one run at a time, twice, two daemons, one of them listed twice, two Rook entities, two disturbances | `KeepsDaemonsWorking`: `Migration` implements `KeyHandover`; `SecureWhenDone`, `EveryRunEnds` |
| `migrate_two` | three runs, two of them at once, cut sessions | `LaterDaemonsWait`, `SecureWhenDone`, `InsecureDaemonsWork` |
| `resident` | two users and a static token, leases 0, 5 and 10, deadline 2, interval 1 | `TokenBelongsToSection`, `OneLoginPerTurn`, `CacheIsLive`, `DeniedForAReason`, `SignalIsKept`, `KeepsPolling`, `StopsWhenTold` |
| `deploy` | two inits, a service, a bootstrap, three users of different kinds, two configurations, two disturbances | `ReportedMeansInstalled`, `PartialIsExplained`, `SharedIsFollowed`, `DoneMeansComplete`, `UsersAreLeftAlone`, `BootstrapCompletes` |
| `config_two` | two rotations at a time, nine environments, ten configurations (no server, one with slashes, plain HTTP, a host without a transport, an empty auth section, `userpass`), three rotations in all, one edit | `LoadsEverywhere`, `ServicesFollow`, `SetFieldsSurvive` |
| `sync_takeover`, `rotate_standby`, `migrate_cut` | | counterexamples, see section 5 |

The first passing run of each specification also checks its type invariant.

**Bounds.** `MaxFaults` bounds what the environment does, `MaxAttempts` the
rotations started, `MaxGeneration` the generations. Nothing else is bounded:
polling goes on forever, and the versions stay finite because a call writes
only what differs. Two credentials are the least for which a half-finished call
exists. In the `sync` runs and `rotate_two` one is an identity while the other is
metadata that is neither rotated nor archived; in `rotate_alone` both are rotated,
so that archives too are left half-finished. Two runners are the least that interfere; the properties
speak of two paths, or of a writer and a path. Two disturbances allow a failure
during the recovery from a failure. Three attempts with two rotators allow the
configured generation to go back.

In the `migrate` runs `MaxRuns` bounds the runs started, and `Polls` is 2 in
place of 10: a first attempt that fails and a last one. Two daemons are the
least for which one is later than another. The second run repeats the first,
the third lets a repetition overlap with a run that knows nothing of it. Runs
are bounded, so these instances stop and do not check deadlock.

`resident` bounds nothing but the lengths of time: signals, turns, restarts,
revocations and logins go on forever, since a token that nobody holds is
forgotten. Its three leases are the cases of the guard: 10 is five times the
deadline, so the guard covers a turn; 5 has a guard of 1, which does not; 0 is
never cached. Two tokens are enough, one in the cache and one in an answer. Three
sections are two identities, between which the cache is handed over, and one that
does not use it.

In `deploy` one key is enough, because a user that is created again loses the
capabilities that it has, which `UsersAreLeftAlone` sees as well; two inits are the
least that overlap, and the local configuration
names other users than the shared one (one CephX user and an entity that the
program refuses to create; the same CephX user and an RGW user), so it matters
which is chosen. A second bootstrap would do to the first what `SomebodyCreates`
does to it; the proofs cover any number. `MaxFaults` bounds the changes of pmxcfs,
the users others create, and what fails in a bootstrap. Failures of `init` and of
replacements, and repetitions, are not bounded.

In `config_two` the environments have each of the three variables or not, a server
that is another than the file's, or one that is no URL; the configurations leave
open, one by one, each field that has a default. Two rotations overlap with
different environments; one edit comes between loading and saving. Rotations are
bounded by the generation and may all have ended, so deadlock is not checked. They differ in nothing
but their names, so they are a symmetry set.

`rotate_two` has no service, so its commands end: it does not check deadlock.
`KeysChange` is `FALSE` in the rotation runs, since `OfferedIdentitiesWork` says
that published keys are the keys in Ceph: an operator who gives an old identity
a new key makes its archive stale until the next rotation from that generation.
Key changes are checked in the `sync` runs.

**Fairness.** `Poll` and `Work` of every service runner are weakly fair:
`watch` has no exit but the end of the process, `time.After` bounds its wait,
`-timeout` bounds a call (its expiry is `CallFails`), and systemd restarts the
unit. Nothing the environment does is fair, nor is `rotate`, which an operator
may abandon anywhere. In `sync_one_cluster` there is a runner on every host that
can become active, as the README of the program asks ("Enable the service on
every node"); in `rotate_alone` every host may synchronize (coordination `none`).

In `Migration` only the steps of a run are fair: commands are bounded by
`-timeout`, and a process that is killed has ended, as long as no process that it
has started holds its output open (`cmd.Output` would wait for it). Nobody has to start a run,
and no daemon has to authenticate.

In `Resident` the process itself is weakly fair: it loads its configuration, it
notices the end of a context, and it leaves `select`; time passes. Nothing that it
waits for has to be answered: neither Vault, nor `ceph`, nor a process left behind
by a killed command. `Stops` is strongly fair, because `select` chooses at random
among the branches that are ready, and a branch that is ready again and again is
chosen in the end; weak fairness would not exclude that a signal always wins.

In `Deployment` the service goes on to its next turn, as `Resident` shows it does
but for an orphan, and an operator runs `bootstrap` again and again and its commands
end. Nobody has to run `init`, to replace a file or to clean up, and pmxcfs need not
come back.

## 4. Proofs

`Synchronize_proofs` shows that each action of `Synchronize` keeps `CallsInv`;
`SecretSync_proofs` derives from it, for every value of the constants:

| Theorem | Property |
| --- | --- |
| `TypeCorrect` | `TypeOK` |
| `GenerationIsShared` | `SharedGeneration` |
| `NoLostUpdate` | `UpdatesReplaceWhatTheyRead` |
| `GuardHoldsUpToTheWrite` | `TakeoverOnlyByCreate` |
| `SuccessIsPublished` | `NilMeansPublished` |

None of these properties is inductive: they speak of secrets, and what makes
them true is what every call remembers. `CallsInv` adds to the types

* `LoopsInside`: the loops visit only entries of the call's configuration and
  all of them, so the values that are hashed and rendered have all been read
  (without it not even `TypeOK` is inductive: a missing value would be written);
* `PlanHolds`: the plan of a runner remembers the entry it read; versions only
  grow, so as long as the version is the remembered one the entry is the
  remembered one, or that entry deleted. This is what compare-and-set buys;
* `InItsSnapshot`: a secret is an entry of the snapshot its own identifier
  stands for.

`SuccessIsPublished` is about the outcome of a call. At its last step only one
entry is looked at or written; what is true of all others is what the loop has
left behind. `PassedInv` says so for every entry a loop has passed: it is planned,
and if nothing is left to write for it, its secret is what the call wants at the
version at which the call has seen it, or was deleted or written since. It is
inductive because nobody but a write changes a version, and a write makes it grow
(`Evolves`, from `CallsInv`); so an entry that is overtaken stays overtaken. That a
check or a call without drift has found everything, and that a call with drift has
written all of it, then differ only in the last entry.

`Rotation_proofs` is about `rotate` beside the service, for any number of
rotations that overlap, fail and are killed:

| Theorem | Property |
| --- | --- |
| `TypeCorrect` | `TypeOK` |
| `OffersWork` | `OfferedIdentitiesWork` |
| `ArchivedFirst` | `ArchivedBeforeActive`, while `AsksAsActive` holds |
| `NeverAhead` | `NeverAheadOfArchives`, while `AsksAsActive` holds |

It uses `CallsInv` for the calls, and sums up what a step can do to calls and
secrets once (`EveryStep`): keys of Ceph stay, a call starts, goes on or ends, and
a secret is written by the one runner whose turn it is. On this rest two invariants.
`KeysInv` says that the values a call holds and the secrets in Vault are keys of
the entity they name: a value travels from Ceph through a call to Vault, and the
configuration that chose the entity is that of the call all the way. `ArchivesInv`
says how far a rotation has come with the archives at each `stage`. The link
between the two ends of a call is `Visited`: what a loop has passed is in Vault or
in the plan, so a call that returns `nil` has preserved all that its configuration
includes. This needs that nothing deletes archives, and that the calls of
a rotation find its host active, as its own check did: `AsksAsActive` says so, a
hypothesis of both theorems (`Spec /\ []AsksAsActive`). It is true with coordination
`none` (`NoStandbys`); with `active-manager` it fails only if the active manager
moves away from the host of a rotation, which is what `rotate_standby` shows. The
service runners may become standbys and active again at any time. A plain call holds a generation only if it and the one
before it are preserved (`CallHolds`), because it took it from the configuration
file or from a rotation in its last stage; hence the stable paths are never ahead,
even if rotations overtake each other and the configured generation goes back.

`Lifecycle_proofs` shows that `Rotation` implements `IdentityLifecycle`
(`ImplementsLifecycle`, which states `KeepsPromise`) under `OneCluster`: one cluster,
and rotated credentials that are CephX keys; and, as above, while `AsksAsActive`
holds. Rotations may overlap in any number. A command works with the generation it loaded when it
started. By the time it creates a key or saves, another one may have changed the
configured generation, in either direction; but what it loaded was preserved then,
and archives are not taken back (`LoadedHolds`). So a key is created, and a
generation activated, only after one that is preserved, and a write maps to
`Archive` or `Offer`, which want the identity to exist (`KeysInv`) and the generation
it offers to be preserved (`ArchivesInv`); a write at a path that is not rotated,
and every other step, maps to a stutter. When rotations do not overlap
(`OneRotation`), the lifecycle promises more, and `SwitchInv` gives it: the configured
generation is the one the rotation started from (`AloneInv`), so a switch leads from
it to the next and nothing later is offered.

`Migration_proofs` is about `migrate`, for any number of runs that overlap and
fail anywhere, but for `HandsOverKeys`:

| Theorem | Property |
| --- | --- |
| `TypeCorrect` | `TypeOK` |
| `NoInsecureKeyLeft` | `SecureWhenDone` |
| `LaterWait` | `LaterDaemonsWait` |
| `WorkUntilSecure` | `InsecureDaemonsWork` |
| `HandsOverKeys` | `KeepsDaemonsWorking`, for one run at a time and whole sessions |

What a run knows is old: its inventory is taken once and used until the end, while
other runs and the monitors go on. `SecureInv` rests on secure keys staying secure
(`KeysStay`), for which a key staged by hand must never be promoted: the inventory
shows it, no run goes past it, so no keyring and no process gets it (`KeysHold`).
Then what an inventory says of secure keys stays true (`InventoryHolds`), the
daemons before the one a run is at have secure keys (`DaemonsHold`), and so have
the Rook entities already created (`RotationHolds`).

For `HandsOverKeys` every key that is staged has to be new to its daemon
(`KeysOlder`; also at the second visit to a daemon that is listed twice), the key a run has staged has to stay accepted until it is installed
(`StagedHolds`), and a process that has loaded the pending key has it in its keyring
(`HandsOver`); staging then maps to `Offer`, installing to `TakeOver`, promotion to
`Retire`, and everything else to a stutter. Two runs at a time break `StagedHolds`
(section 5).

`WorkUntilSecure` says what remains then, also with cut sessions, and it rests on
`WorkingInv`: until a daemon has a secure key, its pending key is given up by
nobody and replaced by nobody (`PendingStays`), so what one run has staged for it is
what every other run stages (`OffersPending`), and installing it late does no harm.

`Resident_proofs` is about the service process and its login:

| Theorem | Property |
| --- | --- |
| `TypeCorrect` | `TypeOK` |
| `TokenOfTheSection` | `TokenBelongsToSection` |
| `LogsInOnce` | `OneLoginPerTurn` |
| `CacheEndsBeforeTheLease` | `CacheIsLive` |
| `SignalsAreKept` | `SignalIsKept` |
| `RefusedForAReason` | `DeniedForAReason` |

Its invariant `AuthInv` adds to the types `CacheHolds`, which says that the cache
names the identity its token was issued to and that its time ends before the
lease does, and `TurnHolds`, which says for every phase what the client holds.
`CacheIsLive` is not inductive alone: when an answer arrives, it depends on how
long the answer was under way. `Recent` bounds this by the time the turn has
taken (but while it waits for an orphan, after which it fails), the deadline bounds
that, and `GuardCovers` shows that the guard covers it when a fifth of the lease does
and the deadline is at most 60.

`Deployment_proofs` is about the file and the users:

| Theorem | Property |
| --- | --- |
| `TypeCorrect` | `TypeOK` |
| `InstalledStays` | `ReportedMeansInstalled` |
| `PartialHasAReason` | `PartialIsExplained` |
| `SuccessIsComplete` | `DoneMeansComplete` |
| `ExistingUsersStay` | `UsersAreLeftAlone` |

The file needs `OneInstaller`: exclusive creation lets one `init` at a time be
between creation and closing, and none while another one's file is there; without
it a failing `init` could remove the file of another. The users need `RunHolds`
(what a run does not visit any more is complete) and `VisitHolds` (the user
visited is of the kind its step is for), and every step lets keys and
capabilities only grow (`Grows`), so what one run has completed no other run
undoes. The two parts meet in the configuration a run has loaded.

`Configuration_proofs` is about the fields:

| Theorem | Property |
| --- | --- |
| `TypeCorrect` | `TypeOK` |
| `LoadsOnEveryHost` | `LoadsEverywhere` |
| `ServicesFollowRotations` | `ServicesFollow` |
| `RotationsKeepWhatIsSet` | `SetFieldsSurvive` |

The argument is about `applyDefaults`: applied to its own result in another
environment it adds at most a namespace and a CA bundle (`LoadedAgain`), and these
make no configuration invalid (`ValidAgain`). What a rotation saves is such a result
(`Settled`, in `FileInv`). What `init` writes is not, but it names its server, and
then two environments differ in nothing that is validated (`ValidEverywhere`).

Assumptions on the constants are those named in the modules: distinct
`vault_path`s (`validate`), an FSID and a host for each runner, a deadline of at
most 60 units, credentials that are records of the fields of `credentialSpec`,
configurations that name users, servers and texts that are not empty,
and bounds that are natural numbers. The invariants were checked by TLC before they were proved.

Only model-checked: all liveness, which needs fairness and `ENABLED`.

## 5. Where code and documentation differ

* **No takeover** (README line 286): `NoTakeover` is violated by a secret that
  appears between the two requests of `Read`. `TakeoverOnlyByCreate` says this
  is the only way.
* **Archived before active** (README line 231): `ArchivedBeforeActive` is
  violated when the host of a rotation becomes a standby after the first check:
  `synchronize` returns `nil` on a standby, and `rotate` advances the generation.
  It holds for any number of concurrent rotations as long as this does not happen
  (`ArchivedFirst`), so always with coordination `none`.
* **A daemon keeps its working key** (README line 268): `DaemonKeepsAcceptedKey`
  holds for one run at a time with whole sessions (`migrate_alone` shows more).
  It is violated by a session that is cut after the installation script started
  and before its input arrived (`migrate_cut`; `cat` ends without an error on a
  closed input, and sshd does not end a command without a terminal); running
  `migrate` again repairs this. Overlapping runs violate it too, one of which
  installs a key that has become obsolete (`MigrateCut.cfg` with two migrators,
  three runs, one disturbance and `SessionsCut = FALSE` gives the trace), and then
  running it again does not help: the current key is secure and the daemon is
  skipped. Before its current key is secure a daemon is not exposed to this:
  `InsecureDaemonsWork` holds for any number of runs.

Five more differences are visible in the models and have no run of their own:

* README line 318 says that one node accesses Vault: eligibility is checked once
  per call, so after a failover two hosts write; `UpdatesReplaceWhatTheyRead` and
  `Converges` bound the consequence.
* README line 268 has the promotion of a key prove that a daemon has restarted
  with it: when the key of an earlier, failed run is promoted after the inventory,
  the run stages a second one, and its first poll finds a secure current key, the
  old one. The daemon still holds an accepted key.
* README line 68 calls `-timeout` the deadline for the whole run. When the command
  of a turn is a wrapper, as README line 112 allows, the deadline kills the wrapper;
  the process behind it lives on with the output pipe, and `cmd.Output` waits for
  it (`at = "orphan"`). `KeepsPolling` and `StopsWhenTold` hold but for such a
  process.
* README line 414 says that `rotate` updates `cephx_generation`. `replaceConfig`
  saves the configuration with its defaults, so a namespace or a CA bundle from the
  environment of the shell in which `rotate` ran is then in the shared file; every
  node works with it, and restarting a service with another environment, which
  README line 320 asks for, changes nothing any more. `ServicesFollow` says what can
  be relied on instead.

* README line 280 has the service fall back to the local file when the shared file
  does not exist. To `os.Stat` it does not exist either when pmxcfs is not mounted
  (`DoesNotExist`; `init` takes a missing `/etc/pve/priv` for that), so that a local
  file, if there still is one, is worked with although a shared one exists: no
  invariant can exclude it. What holds is `SharedIsFollowed`: an error never leads to
  the local file, and the fallback lasts for a turn, not for the life of the process.
  The unit requires `pve-cluster.service`: systemd stops the service when that is
  stopped, but not when its process dies; commands have no such tie.

## 6. Plan and limits

Every component whose state something else sees is modelled, and the safety of
every module is proved. What could be added is data: the parsers of `ceph` output as
operators over structured values, and the single-field checks of `validate`.

**Not modelled.** Flag parsing, output, the parsers of command output, ssh quoting,
and the validation of single fields: they are sequential functions of
one input, which unit tests reach. Unit files are in the environment of the
models: one service per host, restarts. A SIGHUP between the start of a process
and `signal.Notify` is not modelled either; it ends the process, and
`Restart=on-failure` leaves it ended.
