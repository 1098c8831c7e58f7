------------------------------- MODULE Rotation -------------------------------
(***************************************************************************)
(* "rotate" (rotate.go) beside the resident service of the same cluster:   *)
(* the command creates the identities of the next generation in Ceph, runs *)
(* synchronize three times (archive of the old generation, archive of the  *)
(* new one, stable paths) and only then replaces the configuration file    *)
(* that every runner of the service reads again at each turn.              *)
(***************************************************************************)
EXTENDS Synchronize

CONSTANTS
    Rotator,            \* the runners that run "rotate"; the others serve
    KeysChange,         \* keys of existing identities change (ceph auth rotate)
    MaxAttempts,        \* bound on the rotations started
    MaxFaults           \* bound on what the environment does

ASSUME RotationAssumption ==
    /\ Rotator \subseteq Runner
    /\ KeysChange \in BOOLEAN
    /\ MaxAttempts \in Nat
    /\ MaxFaults \in Nat

VARIABLES
    config,             \* cephx_generation in the shared configuration file
    stage,              \* stage[x]: how far x's command has come
    from,               \* from[x]: the generation in the configuration x loaded
    missing,            \* missing[x]: positions x has still to create a key for
    attempts, faults    \* what MaxAttempts and MaxFaults bound

rotation == <<config, stage, from, missing, attempts>>
vars == <<active, ceph, vault, pc, cfg, mode, todo, value, plan,
          config, stage, from, missing, attempts, faults>>

Service == Runner \ Rotator

Synchronizing == {"preserve old", "preserve new", "publish"}
Stage == {"idle", "loaded", "create", "save"} \cup Synchronizing

TypeOK ==
    /\ SyncTypeOK
    /\ config \in Generation
    /\ stage \in [Rotator -> Stage]
    /\ from \in [Rotator -> Generation]
    /\ missing \in [Rotator -> SUBSET Index]
    /\ attempts \in 0..MaxAttempts
    /\ faults \in 0..MaxFaults

\* The identities of generation 0 exist (bootstrap), no other does.
Exists(s) == s.kind = "auth" => s.entity \in {Credentials[i].entity : i \in Index}

Init ==
    /\ SyncInit
    /\ \E v \in Value : ceph = [c \in Cluster |->
                                  [s \in Source |-> IF Exists(s) THEN v ELSE NoValue]]
    /\ config = 0
    /\ stage = [x \in Rotator |-> "idle"]
    /\ from = [x \in Rotator |-> 0]
    /\ missing = [x \in Rotator |-> {}]
    /\ attempts = 0
    /\ faults = 0

-----------------------------------------------------------------------------
(* The command.                                                            *)

Goto(x, s) == stage' = [stage EXCEPT ![x] = s]

ArchiveConfig(g) == [gen |-> g, archive |-> TRUE]
PlainConfig(g) == [gen |-> g, archive |-> FALSE]

\* runRotate: the configuration is read; nobody locks it.
LoadConfig(x) ==
    /\ stage[x] = "idle"
    /\ config < MaxGeneration
    /\ attempts < MaxAttempts
    /\ attempts' = attempts + 1
    /\ from' = [from EXCEPT ![x] = config]
    /\ Goto(x, "loaded")
    /\ UNCHANGED <<environment, vault, locals, config, missing>>

\* CanSynchronize and Version; on a standby "rotation must run on ...".  With
\* nothing to rotate the command also ends without having done anything.
CheckEligible(x) ==
    /\ stage[x] = "loaded"
    /\ IF Eligible(x) /\ StandardIndex # {}
       THEN /\ Goto(x, "create")
            /\ missing' = [missing EXCEPT ![x] = StandardIndex]
       ELSE /\ Goto(x, "idle")
            /\ UNCHANGED missing
    /\ UNCHANGED <<environment, vault, locals, config, from, attempts>>

\* ceph auth get-or-create: an identity that exists keeps its key.
CreateKey(x) ==
    /\ stage[x] = "create"
    /\ \E i \in Index :
        /\ NextIn(missing[x], i)
        /\ LET c == ClusterOf[x]
               s == SourceOf(ActiveCredential(Credentials[i], from[x] + 1))
           IN  IF ceph[c][s] = NoValue
               THEN \E v \in Value : ceph' = [ceph EXCEPT ![c][s] = v]
               ELSE UNCHANGED ceph
        /\ missing' = [missing EXCEPT ![x] = @ \ {i}]
    /\ UNCHANGED <<active, vault, locals, config, stage, from, attempts>>

\* Variant of PreserveOld: the next generation is archived in its place.
PreserveNextForOld(x) ==
    /\ stage[x] = "create" /\ missing[x] = {}
    /\ Call(x, ArchiveConfig(from[x] + 1), "sync")
    /\ Goto(x, "preserve old")

\* Variants of PreserveNew: an error of the first call is not looked at; the
\* stable paths are published before the new generation is archived.
PreserveNewRegardless(x) ==
    /\ stage[x] = "preserve old" /\ pc[x] \in Returned
    /\ Call(x, ArchiveConfig(from[x] + 1), "sync")
    /\ Goto(x, "preserve new")

PublishBeforePreserving(x) ==
    /\ stage[x] = "preserve old" /\ pc[x] = "nil"
    /\ Call(x, PlainConfig(from[x] + 1), "sync")
    /\ Goto(x, "preserve new")

\* The three calls of synchronize, one after the other; "save" stands for
\* the replacement of the configuration file that is left to do.
PreserveOld(x) ==
    /\ stage[x] = "create" /\ missing[x] = {}
    /\ Call(x, ArchiveConfig(from[x]), "sync")
    /\ Goto(x, "preserve old")

PreserveNew(x) ==
    /\ stage[x] = "preserve old" /\ pc[x] = "nil"
    /\ Call(x, ArchiveConfig(from[x] + 1), "sync")
    /\ Goto(x, "preserve new")

Publish(x) ==
    /\ stage[x] = "preserve new" /\ pc[x] = "nil"
    /\ Call(x, PlainConfig(from[x] + 1), "sync")
    /\ Goto(x, "publish")

Published(x) ==
    /\ stage[x] = "publish" /\ pc[x] = "nil"
    /\ Goto(x, "save")
    /\ UNCHANGED locals

\* A call returned an error: so does the command.
GiveUp(x) ==
    /\ stage[x] \in Synchronizing /\ pc[x] = "error"
    /\ Goto(x, "idle")
    /\ UNCHANGED locals

\* replaceConfig: the rename puts the whole new file in place of the old one.
SaveConfig(x) ==
    /\ stage[x] = "save"
    /\ config' = from[x] + 1
    /\ Goto(x, "idle")
    /\ UNCHANGED <<environment, vault, locals, from, missing, attempts>>

Advance(x) ==
    /\ PreserveOld(x) \/ PreserveNew(x) \/ Publish(x) \/ Published(x) \/ GiveUp(x)
    /\ UNCHANGED <<environment, vault, config, from, missing, attempts>>

\* A command of x fails, its -timeout passes, the configuration file cannot
\* be written, or the process is killed.
Abort(x) ==
    /\ stage[x] # "idle"
    /\ Goto(x, "idle")
    /\ missing' = [missing EXCEPT ![x] = {}]
    /\ IF pc[x] \in Busy THEN Return(x, "error") ELSE UNCHANGED locals
    /\ UNCHANGED <<environment, vault, config, from, attempts>>

-----------------------------------------------------------------------------
(* The service, and the whole.                                             *)

\* Variant of Poll: the configuration is loaded once, when the service starts.
PollWithFirstConfig(r) ==
    /\ Call(r, PlainConfig(0), "sync")
    /\ UNCHANGED <<environment, vault, rotation, faults>>

\* A turn of watch: loadConfig, then synchronize.
Poll(r) ==
    /\ Call(r, PlainConfig(config), "sync")
    /\ UNCHANGED <<environment, vault, rotation, faults>>

Work(r) == SyncStep(r) /\ UNCHANGED <<rotation, faults>>

Rotate(x) ==
    /\ \/ LoadConfig(x) \/ CheckEligible(x) \/ CreateKey(x)
       \/ Advance(x) \/ SaveConfig(x)
    /\ UNCHANGED faults

Disturb ==
    /\ faults < MaxFaults
    /\ faults' = faults + 1
    /\ \/ /\ \/ \E c \in Cluster : Failover(c) \/ (KeysChange /\ CephChanges(c))
             \/ \E r \in Runner : CallFails(r) \/ AnswerLost(r)
          /\ UNCHANGED rotation
       \/ \E x \in Rotator : Abort(x)

Next ==
    \/ \E r \in Service : Poll(r)
    \/ \E r \in Runner : Work(r)
    \/ \E x \in Rotator : Rotate(x)
    \/ Disturb

\* Only the service is sure to go on; "rotate" may stop anywhere.
Fairness == \A r \in Service : WF_vars(Poll(r)) /\ WF_vars(Work(r))

Spec == Init /\ [][Next]_vars /\ Fairness
-----------------------------------------------------------------------------
(* Properties.                                                             *)

StableData(i) == vault[PathOf(i, PlainConfig(0))].data
ArchiveEntry(i, g) == vault[PathOf(i, ArchiveConfig(g))]

\* Whenever the configuration names generation g > 0, Vault preserves every
\* standard credential of generations g - 1 and g, each under its own
\* number.  (README.md:231 "Before changing `cephx_generation`, the command
\* writes both generations to `<vault_path>/generations/0` and
\* `<vault_path>/generations/1`"; rotateCredentials, archiveConfig.)  It is
\* not kept when an active-manager runner becomes a standby half-way:
\* synchronize then returns nil without having written anything.
ArchivedBeforeActive ==
    config > 0 =>
        \A i \in StandardIndex, g \in {config - 1, config} :
            /\ ArchiveEntry(i, g).exists
            /\ ArchiveEntry(i, g).data.fields.entity.gen = g

Key(c, entity) == ceph[c][[kind |-> "auth", entity |-> entity]]

\* What is read from Ceph for the i-th credential is the key of its entity.
CephX(i) == SourceOf(Credentials[i]).kind = "auth"

\* The user name of an identity; "user_id" overrides that of generation 0.
UserOf(i, entity) ==
    IF entity.gen = 0 /\ Credentials[i].userID # NoUser
    THEN Credentials[i].userID
    ELSE TrimClient(entity)

\* Every identity that Vault offers for a rotated credential works, at the
\* stable path and in every archive, in whatever generation and wherever the
\* rotation that made it stopped: Ceph knows the entity, under the user name
\* that is published, with the key that is published (unless somebody gave it
\* another key since).  (README "keeps every previous identity valid";
\* activeCredential at lines 63 and 136 of sync.go, CreateKey.)
OfferedIdentitiesWork ==
    \A p \in Path, i \in StandardIndex :
        (Managed(vault[p].data) /\ p.name = Credentials[i].path /\ CephX(i)) =>
            LET f == vault[p].data.fields
            IN  /\ f.kind \in CSIKinds => f.user = UserOf(i, f.entity)
                /\ Key(f.fsid, f.entity) # NoValue
                /\ ~KeysChange => f.value = Key(f.fsid, f.entity)

\* A stable path never runs ahead of what is preserved: it names a generation
\* beyond the configured one only when the archives of that generation and of
\* the one before it exist.  (order of the calls in rotateCredentials.)
NeverAheadOfArchives ==
    \A i \in StandardIndex :
        LET data == StableData(i)
            g == data.fields.entity.gen
        IN  (Managed(data) /\ g > config) =>
                \A h \in {g - 1, g} : ArchiveEntry(i, h).exists

\* What the configuration in force asks for at the stable paths.
Settled(c) ==
    LET vals == [i \in Index |-> ceph[c][SourceOf(Active(i, PlainConfig(config)))]]
    IN  \A i \in Index :
            StableData(i) = Desired(PlainConfig(config), c, vals, i)

\* However rotations interleave with the service, and wherever they stop,
\* the stable paths end up at the generation the configuration file names.
\* (runRotate saves last, watch loads the configuration at every turn.)
RotationSettles == \A c \in Cluster : <>[]Settled(c)

\* What the consumers see of it, as IdentityLifecycle describes it (for the
\* credentials of one cluster).
Offered(i) ==
    IF Managed(StableData(i)) THEN StableData(i).fields.entity.gen ELSE Stable

Identities(c) ==
    {n \in StandardIndex \X Generation :
        Key(c, ActiveCredential(Credentials[n[1]], n[2]).entity) # NoValue}

Archives ==
    {n \in StandardIndex \X Generation :
        ArchiveEntry(n[1], n[2]).exists /\ ArchiveEntry(n[1], n[2]).data.fields.entity.gen = n[2]}

TheCluster == CHOOSE c \in Cluster : TRUE

Promise == INSTANCE IdentityLifecycle WITH
    Rotatable  <- StandardIndex,
    Nobody     <- Stable,
    OneAtATime <- \A x, y \in Rotator : x = y,
    generation <- config,
    identities <- Identities(TheCluster),
    archived   <- Archives,
    offered    <- [i \in StandardIndex |-> Offered(i)]

\* Rotation keeps the promise of IdentityLifecycle: every step of the command
\* and of the service, failures included, is a step of the lifecycle or
\* changes nothing of it.
KeepsPromise == Promise!Lifecycle
=============================================================================
