--------------------------- MODULE Lifecycle_proofs ---------------------------
(***************************************************************************)
(* Rotation implements IdentityLifecycle for the credentials of one        *)
(* cluster, unless a rotation becomes a standby half-way, for any number   *)
(* of rotations that overlap, service runners, credentials, generations,   *)
(* attempts and faults.                                                    *)
(***************************************************************************)
EXTENDS Rotation_proofs

USE SynchronizeAssumption, RotationAssumption

\* One cluster, and rotated credentials that are CephX keys.
OneCluster ==
    /\ Cluster # {} /\ \A c, d \in Cluster : c = d
    /\ \A i \in StandardIndex : CephX(i)

OneRotation == \A x, y \in Rotator : x = y

LEMMA TheClusterFacts ==
    ASSUME OneCluster
    PROVE  TheCluster \in Cluster /\ \A c \in Cluster : c = TheCluster
BY DEF OneCluster, TheCluster

-----------------------------------------------------------------------------
(* What a command has loaded was preserved when it did so, and still is.   *)
(* With one rotation at a time it is also what is still configured.        *)

LoadedHolds(x) ==
    /\ missing[x] \subseteq StandardIndex
    /\ stage[x] # "idle" => PairPreserved(from[x])

AloneInv ==
    /\ \A x \in Rotator : stage[x] # "idle" => from[x] = config
    /\ \A r \in Runner : cfg[r].gen <= config + 1

SwitchInv ==
    /\ \A x \in Rotator : LoadedHolds(x)
    /\ OneRotation => AloneInv

LEMMA SwitchInit == Init => SwitchInv
BY DEF Init, SyncInit, SwitchInv, AloneInv, LoadedHolds

\* No command starts, none saves, and no call is configured.
LEMMA AloneStill ==
    ASSUME AloneInv, UNCHANGED <<config, from, cfg>>,
           \A x \in Rotator : stage'[x] # "idle" => stage[x] # "idle"
    PROVE  AloneInv'
BY DEF AloneInv

\* A call starts with a generation that is at most the next one.
LEMMA AloneCall ==
    ASSUME BaseInv, AloneInv, NEW r \in Runner, NEW c \in Config, Call(r, c, "sync"),
           c.gen <= config + 1, UNCHANGED <<config, from>>,
           \A x \in Rotator : stage'[x] # "idle" => stage[x] # "idle"
    PROVE  AloneInv'
<1>1. \A q \in Runner : cfg'[q].gen <= config' + 1
  BY DEF AloneInv, Call, BaseInv, CallsInv, SyncTypeOK
<1> QED
  BY <1>1 DEF AloneInv

LEMMA AloneNext ==
    ASSUME OneRotation
    PROVE  BaseInv /\ AloneInv /\ [Next]_vars => AloneInv'
<1> SUFFICES ASSUME BaseInv, AloneInv, [Next]_vars
             PROVE  AloneInv'
  OBVIOUS
<1>1. /\ stage \in [Rotator -> Stage] /\ from \in [Rotator -> Generation]
      /\ config \in Generation /\ config \in Nat
  BY GenerationFacts DEF BaseInv, CommandTypeOK
<1>3. ASSUME NEW r \in Service, Poll(r)
      PROVE  AloneInv'
  <2>1. PlainConfig(config) \in Config /\ PlainConfig(config).gen <= config + 1 /\ r \in Runner
    BY <1>1, GenerationFacts DEF PlainConfig, Service
  <2> QED
    BY <1>3, <2>1, AloneCall DEF Poll, rotation
<1>4. ASSUME NEW r \in Runner, Work(r)
      PROVE  AloneInv'
  BY <1>4, SyncShape, AloneStill DEF Work, rotation
<1>5. ASSUME NEW x \in Rotator, Rotate(x)
      PROVE  AloneInv'
  <2>1. \A y \in Rotator : y = x
    BY DEF OneRotation
  <2>2. CASE LoadConfig(x)
    <3>1. UNCHANGED <<config, cfg>> /\ from'[x] = config
      BY <1>1, <2>2 DEF LoadConfig, locals
    <3> QED
      BY <2>1, <3>1 DEF AloneInv
  <2>3. CASE CheckEligible(x)
    <3>1. UNCHANGED <<config, from, cfg>> /\ stage[x] # "idle"
      BY <2>3 DEF CheckEligible, locals
    <3> QED
      BY <2>1, <3>1, AloneStill
  <2>4. CASE CreateKey(x)
    <3>1. UNCHANGED <<config, from, cfg>> /\ stage[x] # "idle"
      BY <2>4 DEF CreateKey, locals
    <3> QED
      BY <2>1, <3>1, AloneStill
  <2>5. CASE SaveConfig(x)
    <3>1. stage[x] = "save" /\ stage'[x] = "idle" /\ UNCHANGED cfg /\ config' = from[x] + 1
      BY <1>1, <2>5 DEF SaveConfig, Goto, locals
    <3>2. config' = config + 1
      BY <3>1 DEF AloneInv
    <3>3. \A r \in Runner : cfg[r].gen \in Nat
      BY ConfigType, GenerationFacts
    <3>4. \A r \in Runner : cfg'[r].gen <= config' + 1
      BY <1>1, <3>1, <3>2, <3>3 DEF AloneInv
    <3> QED
      BY <2>1, <3>1, <3>4 DEF AloneInv
  <2>6. CASE Advance(x)
    <3>1. UNCHANGED <<config, from>> /\ stage[x] # "idle"
      BY <2>6 DEF Advance, PreserveOld, PreserveNew, Publish, Published, GiveUp, Synchronizing
    <3>2. from[x] = config /\ from[x] \in Generation /\ from[x] + 1 \in Generation
      BY <3>1, TwoGenerations DEF AloneInv
    <3>3. \A y \in Rotator : stage'[y] # "idle" => stage[y] # "idle"
      BY <2>1, <3>1
    <3>4. CASE PreserveOld(x) \/ PreserveNew(x) \/ Publish(x)
      <4>1. \E g \in {config, config + 1} : \E c \in {ArchiveConfig(g), PlainConfig(g)} :
              Call(x, c, "sync")
        BY <3>2, <3>4 DEF PreserveOld, PreserveNew, Publish
      <4>2. \A g \in {config, config + 1} : \A c \in {ArchiveConfig(g), PlainConfig(g)} :
              c \in Config /\ c.gen <= config + 1
        <5>1. \A g \in {config, config + 1} : g \in Generation /\ g <= config + 1
          BY <1>1, <3>2
        <5>2. \A g : ArchiveConfig(g).gen = g /\ PlainConfig(g).gen = g
          BY DEF ArchiveConfig, PlainConfig
        <5> QED
          BY <5>1, <5>2, GenerationFacts
      <4> QED
        <5>1. x \in Runner
          OBVIOUS
        <5>2. PICK g \in {config, config + 1} : \E c \in {ArchiveConfig(g), PlainConfig(g)} :
                Call(x, c, "sync")
          BY <4>1
        <5>3. PICK c \in {ArchiveConfig(g), PlainConfig(g)} : Call(x, c, "sync")
          BY <5>2
        <5>4. c \in Config /\ c.gen <= config + 1
          BY <4>2
        <5> QED
          BY <3>1, <3>3, <5>1, <5>3, <5>4, AloneCall
    <3>5. CASE Published(x) \/ GiveUp(x)
      BY <3>1, <3>3, <3>5, AloneStill DEF Published, GiveUp, locals
    <3> QED
      BY <2>6, <3>4, <3>5 DEF Advance
  <2> QED
    BY <1>5, <2>2, <2>3, <2>4, <2>5, <2>6 DEF Rotate
<1>6. CASE Disturb
  <2>1. ASSUME NEW x \in Rotator, Abort(x)
        PROVE  AloneInv'
    <3>1. UNCHANGED <<config, from, cfg>> /\ stage[x] # "idle"
      BY <2>1 DEF Abort, Return, locals
    <3>3. \A y \in Rotator : y = x
      BY DEF OneRotation
    <3> QED
      BY <3>1, <3>3, AloneStill
  <2>2. ASSUME UNCHANGED rotation,
               \/ \E c \in Cluster : Failover(c) \/ CephChanges(c)
               \/ \E r \in Runner : CallFails(r) \/ AnswerLost(r)
        PROVE  AloneInv'
    <3>1. UNCHANGED <<config, from, cfg, stage>>
      BY <2>2 DEF Failover, CephChanges, CallFails, AnswerLost, Return, locals, rotation
    <3> QED
      BY <3>1, AloneStill
  <2> QED
    BY <1>6, <2>1, <2>2 DEF Disturb
<1>7. CASE UNCHANGED vars
  BY <1>7, AloneStill DEF vars
<1> QED
  BY <1>3, <1>4, <1>5, <1>6, <1>7 DEF Next

\* What is left to show of what x has loaded.
LEMMA LoadedNext ==
    ASSUME NEW x \in Rotator, missing'[x] \subseteq StandardIndex,
           stage'[x] # "idle" => PairNext(from'[x])
    PROVE  LoadedHolds(x)'
BY DEF LoadedHolds, PairNext, PreservedNext, PairPreserved, Preserved, ArchiveEntry

\* What a command has still to create are standard credentials.
LEMMA MissingNext ==
    ASSUME BaseInv, [Next]_vars, NEW x \in Rotator, missing[x] \subseteq StandardIndex
    PROVE  missing'[x] \subseteq StandardIndex
<1>1. missing \in [Rotator -> SUBSET Index]
  BY DEF BaseInv, CommandTypeOK
<1>2. ASSUME NEW y \in Rotator, Rotate(y)
      PROVE  missing'[x] \subseteq StandardIndex
  <2>1. CASE LoadConfig(y) \/ Advance(y) \/ SaveConfig(y)
    BY <2>1 DEF LoadConfig, Advance, SaveConfig
  <2>2. CASE CheckEligible(y)
    BY <1>1, <2>2 DEF CheckEligible
  <2>3. CASE CreateKey(y)
    BY <1>1, <2>3 DEF CreateKey
  <2> QED
    BY <1>2, <2>1, <2>2, <2>3 DEF Rotate
<1>3. ASSUME NEW y \in Rotator, Abort(y)
      PROVE  missing'[x] \subseteq StandardIndex
  BY <1>1, <1>3 DEF Abort
<1>4. CASE UNCHANGED missing
  BY <1>4
<1>5. UNCHANGED missing \/ \E y \in Rotator : Rotate(y) \/ Abort(y)
  BY DEF Next, Poll, Work, Disturb, rotation, vars
<1> QED
  BY <1>2, <1>3, <1>4, <1>5

\* What a command starts from is preserved, because it was configured.
LEMMA LoadedKept ==
    ASSUME BaseInv, ArchivesInv, [Next]_vars, Remain, NEW x \in Rotator, LoadedHolds(x)
    PROVE  LoadedHolds(x)'
<1>1. missing'[x] \subseteq StandardIndex
  BY MissingNext DEF LoadedHolds
<1>2. /\ stage \in [Rotator -> Stage] /\ from \in [Rotator -> Generation]
      /\ config \in Generation /\ PairPreserved(config)
  BY DEF BaseInv, CommandTypeOK, ArchivesInv
<1>3. CASE stage'[x] = "idle"
  BY <1>1, <1>3, LoadedNext
<1>4. CASE stage[x] # "idle" /\ from'[x] = from[x]
  BY <1>1, <1>2, <1>4, PairStays, LoadedNext DEF LoadedHolds
<1>5. CASE LoadConfig(x)
  BY <1>1, <1>2, <1>5, PairStays, LoadedNext DEF LoadConfig
<1>6. ASSUME Rotate(x), ~LoadConfig(x)
      PROVE  stage[x] # "idle" /\ from'[x] = from[x]
  BY <1>6 DEF Rotate, CheckEligible, CreateKey, Advance, PreserveOld, PreserveNew, Publish,
              Published, GiveUp, SaveConfig, Synchronizing
<1> QED
  BY <1>3, <1>4, <1>5, <1>6, StageStep

LEMMA SwitchNext == BaseInv /\ ArchivesInv /\ SwitchInv /\ [Next]_vars => SwitchInv'
<1> SUFFICES ASSUME BaseInv, ArchivesInv, SwitchInv, [Next]_vars
             PROVE  SwitchInv'
  OBVIOUS
<1>1. Remain
  BY EveryStep, SecretsRemain
<1>2. \A x \in Rotator : LoadedHolds(x)'
  BY <1>1, LoadedKept DEF SwitchInv
<1>3. OneRotation => AloneInv'
  BY AloneNext DEF SwitchInv
<1> QED
  BY <1>2, <1>3 DEF SwitchInv, OneRotation

-----------------------------------------------------------------------------
(* What a step does to the variables of the lifecycle.                     *)

\* The mapping after the step.
IdentitiesNext ==
    {n \in StandardIndex \X Generation :
        ceph'[TheCluster][[kind   |-> "auth",
                           entity |-> ActiveCredential(Credentials[n[1]], n[2]).entity]] # NoValue}

ArchivesNextTo ==
    {n \in StandardIndex \X Generation :
        LET entry == vault'[PathOf(n[1], ArchiveConfig(n[2]))]
        IN  entry.exists /\ entry.data.fields.entity.gen = n[2]}

OfferedNext(i) ==
    LET data == vault'[PathOf(i, PlainConfig(0))].data
    IN  IF Managed(data) THEN data.fields.entity.gen ELSE Stable

IdentitiesNow == Identities(TheCluster)
OfferedNow == [i \in StandardIndex |-> Offered(i)]
OfferedThen == [i \in StandardIndex |-> OfferedNext(i)]

LEMMA Mapped ==
    /\ Identities(TheCluster)' = IdentitiesNext
    /\ Archives' = ArchivesNextTo
    /\ [i \in StandardIndex |-> Offered(i)]' = OfferedThen
BY DEF Identities, Key, IdentitiesNext, Archives, ArchiveEntry, ArchivesNextTo,
       Offered, StableData, OfferedNext, OfferedThen, Managed, StoredFSID

LEMMA Unseen ==
    ASSUME config' = config, vault' = vault, IdentitiesNext = IdentitiesNow
    PROVE  UNCHANGED Promise!lifecycle
<1>1. ArchivesNextTo = Archives
  BY DEF ArchivesNextTo, Archives, ArchiveEntry
<1>2. OfferedThen = OfferedNow
  BY DEF OfferedThen, OfferedNow, OfferedNext, Offered, StableData
<1> QED
  BY <1>1, <1>2, Mapped DEF Promise!lifecycle, IdentitiesNow, OfferedNow

\* No key appears where there was none, and none disappears.
LEMMA SameIdentities ==
    ASSUME OneCluster,
           \A c \in Cluster, s \in Source : (ceph'[c][s] = NoValue) <=> (ceph[c][s] = NoValue)
    PROVE  IdentitiesNext = IdentitiesNow
<1>1. \A i \in StandardIndex, g \in Generation :
        [kind |-> "auth", entity |-> ActiveCredential(Credentials[i], g).entity] \in Source
  <2> TAKE i \in StandardIndex, g \in Generation
  <2>1. CephX(i) /\ i \in Index
    BY DEF OneCluster, StandardIndex
  <2> QED
    BY <2>1, ActiveSource
<1> QED
  BY <1>1, TheClusterFacts DEF IdentitiesNext, IdentitiesNow, Identities, Key

\* What the archives need for a generation to be offered.
LEMMA PreservedMapped ==
    ASSUME ArchivesInv, NEW g \in Generation, g > 0, PairPreserved(g)
    PROVE  Promise!Preserved(g)
<1>1. g - 1 \in Generation
  BY CredentialsAssumption DEF Generation
<1>2. \A i \in StandardIndex, h \in {g - 1, g} :
        ArchiveEntry(i, h).exists /\ ArchiveEntry(i, h).data.fields.entity.gen = h
  BY <1>1 DEF ArchivesInv, ArchiveRight, PairPreserved, Preserved
<1>3. StandardIndex \X {g - 1, g} \subseteq Archives
  BY <1>1, <1>2 DEF Archives
<1> QED
  BY <1>3 DEF Promise!Preserved

LEMMA OfferableMapped ==
    ASSUME ArchivesInv, NEW g \in Generation, PairPreserved(g)
    PROVE  Promise!Offerable(g)
<1>1. g \in Nat
  BY GenerationFacts
<1> QED
  BY <1>1, PreservedMapped DEF Promise!Offerable

\* What a command starts from is what a switch may start from.
LEMMA SwitchMapped ==
    ASSUME BaseInv, SwitchInv, ArchivesInv, NEW x \in Rotator, stage[x] # "idle"
    PROVE  Promise!SwitchesFrom(from[x])
<1>1. from[x] \in Generation /\ PairPreserved(from[x])
  BY TwoGenerations DEF SwitchInv, LoadedHolds
<1>2. OneRotation => from[x] = config
  BY DEF SwitchInv, AloneInv
<1> QED
  BY <1>1, <1>2, OfferableMapped DEF Promise!SwitchesFrom, OneRotation

\* The key of the next generation of the i-th credential.
LEMMA KeyCreated ==
    ASSUME OneCluster, BaseInv, SwitchInv, ArchivesInv, NEW x \in Rotator, CreateKey(x)
    PROVE  \E C \in SUBSET StandardIndex : Promise!Create(C, from[x])
<1> DEFINE next == from[x] + 1
           entityOf(i, g) == ActiveCredential(Credentials[i], g).entity
           source(i, g) == [kind |-> "auth", entity |-> entityOf(i, g)]
           C == {j \in StandardIndex : ceph'[TheCluster][source(j, next)] # NoValue}
<1>1. stage[x] # "idle"
  BY DEF CreateKey
<1>2. next \in Generation
  BY <1>1, TwoGenerations
<1>3. PICK i \in StandardIndex :
        LET s == SourceOf(ActiveCredential(Credentials[i], next))
        IN  IF ceph[ClusterOf[x]][s] = NoValue
            THEN \E v \in Value : ceph' = [ceph EXCEPT ![ClusterOf[x]][s] = v]
            ELSE UNCHANGED ceph
  BY DEF CreateKey, NextIn, SwitchInv, LoadedHolds
<1>4. \A j \in StandardIndex, g \in Generation :
        SourceOf(ActiveCredential(Credentials[j], g)) = source(j, g) /\ source(j, g) \in Source
        /\ entityOf(j, g).gen = g
  <2> TAKE j \in StandardIndex, g \in Generation
  <2>1. CephX(j) /\ j \in Index
    BY DEF OneCluster, StandardIndex
  <2> QED
    BY <2>1, ActiveSource, ActiveFacts
<1>5. ClusterOf[x] = TheCluster /\ TheCluster \in Cluster
  <2>1. ClusterOf[x] \in Cluster
    OBVIOUS
  <2> QED
    BY <2>1, TheClusterFacts
<1>6. KeysStay
  BY CreateKeyFacts
<1>7. \A j \in StandardIndex, g \in Generation :
        ceph'[TheCluster][source(j, g)] # NoValue =>
            \/ ceph[TheCluster][source(j, g)] # NoValue
            \/ g = next
  <2> TAKE j \in StandardIndex, g \in Generation
  <2>1. CASE UNCHANGED ceph
    BY <2>1
  <2>2. CASE \E v \in Value : ceph' = [ceph EXCEPT ![TheCluster][source(i, next)] = v]
    <3>1. source(j, g) # source(i, next) =>
            ceph'[TheCluster][source(j, g)] = ceph[TheCluster][source(j, g)]
      <4> HIDE DEF source
      <4> QED
        BY <1>4, <1>5, <2>2 DEF BaseInv, CallsInv, SyncTypeOK
    <3>2. source(j, g) = source(i, next) => g = next
      <4>1. source(j, g) = source(i, next) => entityOf(j, g) = entityOf(i, next)
        OBVIOUS
      <4> QED
        BY <1>2, <1>4, <4>1
    <3> QED
      BY <3>1, <3>2
  <2> QED
    BY <1>2, <1>3, <1>4, <1>5, <2>1, <2>2
<1>8. IdentitiesNext = IdentitiesNow \cup (C \X {next})
  <2>1. \A j \in StandardIndex, g \in Generation :
          ceph[TheCluster][source(j, g)] # NoValue => ceph'[TheCluster][source(j, g)] # NoValue
    BY <1>4, <1>5, <1>6 DEF KeysStay
  <2>2. \A n \in StandardIndex \X Generation :
          n \in IdentitiesNext <=> n \in IdentitiesNow \/ n \in C \X {next}
    BY <1>2, <1>7, <2>1 DEF IdentitiesNext, IdentitiesNow, Identities, Key
  <2>3. C \X {next} \subseteq StandardIndex \X Generation
    BY <1>2
  <2> QED
    BY <2>2, <2>3 DEF IdentitiesNext, IdentitiesNow, Identities
<1>9. UNCHANGED <<config, vault>>
  BY DEF CreateKey
<1>10. ArchivesNextTo = Archives /\ OfferedThen = OfferedNow
  BY <1>9 DEF ArchivesNextTo, Archives, ArchiveEntry, OfferedThen, OfferedNow, OfferedNext,
              Offered, StableData
<1> HIDE DEF C
<1>11. Promise!Create(C, from[x])
  BY <1>1, <1>8, <1>9, <1>10, Mapped, SwitchMapped DEF Promise!Create, IdentitiesNow, OfferedNow
<1> QED
  BY <1>11 DEF C

LEMMA Activated ==
    ASSUME BaseInv, SwitchInv, ArchivesInv, NEW x \in Rotator, SaveConfig(x)
    PROVE  Promise!Activate(from[x])
<1>1. stage[x] = "save" /\ config' = from[x] + 1 /\ UNCHANGED <<ceph, vault>>
  BY DEF SaveConfig, environment
<1>2. Promise!SwitchesFrom(from[x]) /\ from[x] \in Generation /\ from[x] + 1 \in Generation
  <2>1. stage[x] # "idle"
    BY <1>1
  <2> QED
    BY <2>1, TwoGenerations, SwitchMapped
<1>3. PairPreserved(from[x] + 1) /\ from[x] + 1 > 0
  <2>1. from[x] + 1 > 0 /\ (from[x] + 1) - 1 = from[x]
    BY <1>2, GenerationFacts
  <2>2. Preserved(from[x]) /\ Preserved(from[x] + 1)
    BY <1>1 DEF ArchivesInv, StageHolds
  <2> QED
    BY <2>1, <2>2 DEF PairPreserved
<1>4. Promise!Preserved(from[x] + 1)
  BY <1>2, <1>3, PreservedMapped
<1>5. /\ ArchivesNextTo = Archives /\ OfferedThen = OfferedNow
      /\ IdentitiesNext = IdentitiesNow
  BY <1>1 DEF ArchivesNextTo, Archives, ArchiveEntry, OfferedThen, OfferedNow, OfferedNext,
              Offered, StableData, IdentitiesNext, IdentitiesNow, Identities, Key
<1> QED
  BY <1>1, <1>2, <1>4, <1>5, Mapped DEF Promise!Activate, IdentitiesNow, OfferedNow

-----------------------------------------------------------------------------
(* Writes.                                                                 *)

\* Two calls mean the same secret.
LEMMA SamePath ==
    ASSUME NEW i \in Index, NEW j \in Index, NEW c \in Config, NEW d \in Config
    PROVE  PathOf(i, c) = PathOf(j, d) <=>
               /\ i = j /\ c.archive = d.archive
               /\ c.archive => c.gen = d.gen
<1>1. /\ c.gen \in Nat /\ c.archive \in BOOLEAN
      /\ d.gen \in Nat /\ d.archive \in BOOLEAN
  BY GenerationFacts DEF Config
<1>2. PathOf(i, c) = [name |-> Credentials[i].path, gen |-> IF c.archive THEN c.gen ELSE Stable]
  BY DEF PathOf
<1>3. PathOf(j, d) = [name |-> Credentials[j].path, gen |-> IF d.archive THEN d.gen ELSE Stable]
  BY DEF PathOf
<1>4. PathOf(i, c) = PathOf(j, d) <=>
        /\ Credentials[i].path = Credentials[j].path
        /\ (IF c.archive THEN c.gen ELSE Stable) = (IF d.archive THEN d.gen ELSE Stable)
  BY <1>2, <1>3
<1>5. Credentials[i].path = Credentials[j].path <=> i = j
  BY CredentialsAssumption
<1> QED
  BY <1>1, <1>4, <1>5 DEF Stable

\* A write of the j-th secret of r: to an archive, to a stable path that is
\* rotated, or to one that is not.
LEMMA WriteMapped ==
    ASSUME OneCluster, BaseInv, SwitchInv, KeysInv, ArchivesInv, NEW r \in Runner, pc[r] = "write",
           NEW j \in todo[r], Applies(r, j), UNCHANGED <<config, ceph>>
    PROVE  [Promise!LifecycleNext]_(Promise!lifecycle)
<1> DEFINE p == PathOf(j, cfg[r])
           g == cfg[r].gen
           d == DesiredBy(r, j)
<1>1. /\ j \in Index /\ j \in Included(cfg[r])
      /\ cfg[r] \in Config /\ g \in Generation /\ cfg[r].archive \in BOOLEAN
  BY ConfigType DEF BaseInv, CallsInv, SyncTypeOK, LoopsInside
<1>2. p \in Path /\ vault \in [Path -> Entry]
  BY <1>1, PathOfType DEF BaseInv, CallsInv, SyncTypeOK
<1>3. \A q \in Path : q # p => vault'[q] = vault[q]
  BY <1>2 DEF Applies
<1>4. vault'[p].exists /\ vault'[p].data = d
  <2>1. vault'[p] = KVWritten(vault[p], d)
    BY <1>2 DEF Applies
  <2> QED
    BY <2>1 DEF KVWritten
<1>5. d.fields.entity = ActiveCredential(Credentials[j], g).entity /\ Managed(d)
  <2>1. Active(j, cfg[r]) = ActiveCredential(Credentials[j], g)
    BY <1>1, ConfigType
  <2>2. d.fields.fsid \in Cluster
    <3>1. d.fields.fsid = ClusterOf[r]
      BY <1>1, WrittenFields
    <3> QED
      BY <3>1
  <2>3. d.fields.entity = Active(j, cfg[r]).entity
    BY <1>1, WrittenFields
  <2> QED
    BY <2>1, <2>2, <2>3, CredentialsAssumption DEF Managed, StoredFSID
<1> HIDE DEF d
<1>6. j \in StandardIndex => d.fields.entity.gen = g
  BY <1>1, <1>5, ActiveFacts
<1>7. j \in StandardIndex => <<j, g>> \in IdentitiesNow
  <2> SUFFICES ASSUME j \in StandardIndex
               PROVE  <<j, g>> \in IdentitiesNow
    OBVIOUS
  <2>1. value[r][j] # NoValue
    BY <1>1, CredentialsAssumption DEF BaseInv, CallsInv, LoopsInside, Planning
  <2>2. CephX(j) /\ ClusterOf[r] = TheCluster
    <3>1. ClusterOf[r] \in Cluster
      OBVIOUS
    <3> QED
      BY <3>1, TheClusterFacts DEF OneCluster
  <2>3. Known(TheCluster, Active(j, cfg[r]).entity, value[r][j])
    BY <2>1, <2>2 DEF KeysInv, ValuesHold
  <2>4. Key(TheCluster, ActiveCredential(Credentials[j], g).entity) # NoValue
    BY <1>1, <2>3, ConfigType DEF Known
  <2> QED
    BY <1>1, <2>4 DEF IdentitiesNow, Identities
<1>8. IdentitiesNext = IdentitiesNow
  BY DEF IdentitiesNext, IdentitiesNow, Identities, Key
<1>9. \A i \in StandardIndex :
        /\ \A h \in Generation : PathOf(i, ArchiveConfig(h)) \in Path
        /\ PathOf(i, PlainConfig(0)) \in Path
  BY <1>1, GenerationFacts, PathOfType DEF StandardIndex
<1>10. \A i \in StandardIndex, h \in Generation :
         PathOf(i, ArchiveConfig(h)) = p <=> cfg[r].archive /\ i = j /\ h = g
  <2> TAKE i \in StandardIndex, h \in Generation
  <2> DEFINE c == ArchiveConfig(h)
  <2>1. i \in Index /\ c \in Config
    BY GenerationFacts DEF StandardIndex
  <2>2. c.archive = TRUE /\ c.gen = h
    BY DEF ArchiveConfig
  <2> HIDE DEF p, c
  <2>3. PathOf(i, c) = PathOf(j, cfg[r]) <=>
          /\ i = j /\ c.archive = cfg[r].archive
          /\ c.archive => c.gen = cfg[r].gen
    BY <1>1, <2>1, SamePath
  <2> QED
    BY <1>1, <2>2, <2>3 DEF p, c
<1>11. \A i \in StandardIndex : PathOf(i, PlainConfig(0)) = p <=> ~cfg[r].archive /\ i = j
  <2> TAKE i \in StandardIndex
  <2>1. i \in Index /\ PlainConfig(0) \in Config
    BY <1>1, GenerationFacts DEF StandardIndex
  <2>2. PlainConfig(0).archive = FALSE
    BY DEF PlainConfig
  <2> HIDE DEF p
  <2>3. PathOf(i, PlainConfig(0)) = PathOf(j, cfg[r]) <=>
          /\ i = j /\ PlainConfig(0).archive = cfg[r].archive
          /\ PlainConfig(0).archive => PlainConfig(0).gen = g
    BY <1>1, <2>1, SamePath
  <2> QED
    BY <1>1, <2>2, <2>3 DEF p
<1> HIDE DEF p
<1>12. CASE cfg[r].archive
  <2>1. j \in StandardIndex
    BY <1>1, <1>12 DEF Included
  <2>2. OfferedThen = OfferedNow
    BY <1>3, <1>9, <1>11, <1>12 DEF OfferedThen, OfferedNow, OfferedNext, Offered, StableData
  <2>3. ArchivesNextTo = Archives \cup {<<j, g>>}
    <3>1. \A i \in StandardIndex, h \in Generation :
            <<i, h>> \in ArchivesNextTo <=> <<i, h>> \in Archives \/ (i = j /\ h = g)
      BY <1>3, <1>4, <1>6, <1>9, <1>10, <1>12, <2>1 DEF ArchivesNextTo, Archives, ArchiveEntry
    <3>2. \A n \in StandardIndex \X Generation :
            n \in ArchivesNextTo <=> n \in Archives \/ n = <<j, g>>
      BY <3>1
    <3>3. /\ <<j, g>> \in StandardIndex \X Generation
          /\ Archives \subseteq StandardIndex \X Generation
          /\ ArchivesNextTo \subseteq StandardIndex \X Generation
      BY <1>1, <2>1 DEF ArchivesNextTo, Archives
    <3> QED
      BY <3>2, <3>3
  <2>4. Promise!Archive(j, g)
    BY <1>7, <1>8, <2>1, <2>2, <2>3, Mapped DEF Promise!Archive, IdentitiesNow, OfferedNow
  <2> QED
    BY <1>1, <2>1, <2>4 DEF Promise!LifecycleNext, Generation
<1>13. CASE ~cfg[r].archive
  <2>1. ArchivesNextTo = Archives
    BY <1>3, <1>9, <1>10, <1>13 DEF ArchivesNextTo, Archives, ArchiveEntry
  <2>2. CASE j \in StandardIndex
    <3>1. OfferedThen = [OfferedNow EXCEPT ![j] = g]
      <4>1. \A i \in StandardIndex : OfferedNext(i) = IF i = j THEN g ELSE Offered(i)
        BY <1>3, <1>4, <1>5, <1>6, <1>9, <1>11, <1>13 DEF OfferedNext, Offered, StableData
      <4> QED
        BY <2>2, <4>1 DEF OfferedThen, OfferedNow
    <3>2. Promise!Offerable(g) /\ (OneRotation => g <= config + 1)
      <4>1. PairPreserved(g)
        BY <1>13 DEF ArchivesInv, CallHolds
      <4> QED
        BY <1>1, <4>1, OfferableMapped DEF SwitchInv, AloneInv
    <3>3. Promise!Offer(j, g)
      BY <1>7, <1>8, <2>1, <2>2, <3>1, <3>2, Mapped
         DEF Promise!Offer, OneRotation, IdentitiesNow, OfferedNow
    <3> QED
      BY <1>1, <2>2, <3>3 DEF Promise!LifecycleNext, Generation
  <2>3. CASE j \notin StandardIndex
    <3>1. OfferedThen = OfferedNow
      BY <1>3, <1>9, <1>11, <2>3 DEF OfferedThen, OfferedNow, OfferedNext, Offered, StableData
    <3> QED
      BY <1>8, <2>1, <3>1, Mapped DEF Promise!lifecycle, IdentitiesNow, OfferedNow
  <2> QED
    BY <2>2, <2>3
<1> QED
  BY <1>1, <1>12, <1>13

-----------------------------------------------------------------------------
(* The refinement.                                                         *)

LEMMA Quiet ==
    ASSUME UNCHANGED <<config, vault, ceph>>
    PROVE  UNCHANGED Promise!lifecycle
<1>1. IdentitiesNext = IdentitiesNow
  BY DEF IdentitiesNext, IdentitiesNow, Identities, Key
<1> QED
  BY <1>1, Unseen

LEMMA LifecycleStarts == OneCluster /\ Init => Promise!LifecycleInit
<1> SUFFICES ASSUME OneCluster, Init
             PROVE  Promise!LifecycleInit
  OBVIOUS
<1>1. StandardIndex \X {0} \subseteq Identities(TheCluster)
  <2>1. PICK v \in Value : ceph = [c \in Cluster |->
                                     [s \in Source |-> IF Exists(s) THEN v ELSE NoValue]]
    BY DEF Init
  <2>2. v # NoValue /\ TheCluster \in Cluster /\ 0 \in Generation
    BY CredentialsAssumption, TheClusterFacts DEF Generation
  <2>3. ASSUME NEW i \in StandardIndex
        PROVE  Key(TheCluster, ActiveCredential(Credentials[i], 0).entity) # NoValue
    <3>1. CephX(i) /\ i \in Index /\ ActiveCredential(Credentials[i], 0) = Credentials[i]
      BY DEF OneCluster, StandardIndex, ActiveCredential
    <3> DEFINE s == [kind |-> "auth", entity |-> Credentials[i].entity]
    <3>2. s \in Source
      BY <2>2, <3>1, ActiveSource
    <3>3. Exists(s)
      BY <3>1 DEF Exists
    <3> QED
      BY <2>1, <2>2, <3>1, <3>2, <3>3 DEF Key
  <2> QED
    BY <2>2, <2>3 DEF Identities
<1>2. Archives = {}
  <2>1. \A i \in StandardIndex, g \in Generation : ~ArchiveEntry(i, g).exists
    <3> TAKE i \in StandardIndex, g \in Generation
    <3>1. PathOf(i, ArchiveConfig(g)).gen = g /\ g \in Nat /\ ArchiveConfig(g) \in Config
      BY GenerationFacts DEF PathOf, ArchiveConfig
    <3>2. PathOf(i, ArchiveConfig(g)) \in Path
      BY <3>1, PathOfType DEF StandardIndex
    <3> QED
      BY <3>1, <3>2 DEF Init, SyncInit, Absent, ArchiveEntry, Stable
  <2> QED
    BY <2>1 DEF Archives
<1>3. \A i \in StandardIndex : Offered(i) = Stable
  <2> TAKE i \in StandardIndex
  <2>1. PathOf(i, PlainConfig(0)) \in Path
    <3>1. 0 \in Generation
      BY CredentialsAssumption DEF Generation
    <3> QED
      BY <3>1, GenerationFacts, PathOfType DEF StandardIndex
  <2> QED
    BY <2>1 DEF Init, SyncInit, Offered, StableData, Managed, StoredFSID, Absent, NoData,
                KVWritten, Adopted
<1>4. config = 0
  BY DEF Init
<1> QED
  BY <1>1, <1>2, <1>3, <1>4 DEF Promise!LifecycleInit

LEMMA LifecycleStep ==
    ASSUME OneCluster
    PROVE  BaseInv /\ SwitchInv /\ KeysInv /\ ArchivesInv /\ [Next]_vars
               => [Promise!LifecycleNext]_(Promise!lifecycle)
<1> SUFFICES ASSUME BaseInv, SwitchInv, KeysInv, ArchivesInv, [Next]_vars
             PROVE  [Promise!LifecycleNext]_(Promise!lifecycle)
  OBVIOUS
<1>1. ASSUME NEW r \in Service, Poll(r)
      PROVE  UNCHANGED Promise!lifecycle
  BY <1>1, Quiet DEF Poll, environment, rotation
<1>2. ASSUME NEW r \in Runner, Work(r)
      PROVE  [Promise!LifecycleNext]_(Promise!lifecycle)
  <2>1. config' = config /\ ceph' = ceph
    BY <1>2, SyncShape DEF Work, rotation, environment
  <2>2. CASE UNCHANGED vault
    BY <2>1, <2>2, Quiet
  <2>3. ASSUME NEW j \in todo[r], pc[r] = "write", Applies(r, j)
        PROVE  [Promise!LifecycleNext]_(Promise!lifecycle)
    BY <2>1, <2>3, WriteMapped
  <2>4. UNCHANGED vault \/ (pc[r] = "write" /\ \E j \in todo[r] : Applies(r, j))
    BY <1>2 DEF Work, SyncStep, Coordinate, ReadCredential, ReadSecret, ReadMetadata,
                WriteSecret, NextIn
  <2> QED
    BY <2>2, <2>3, <2>4
<1>3. ASSUME NEW x \in Rotator, Rotate(x)
      PROVE  [Promise!LifecycleNext]_(Promise!lifecycle)
  <2>1. CASE LoadConfig(x) \/ CheckEligible(x) \/ Advance(x)
    BY <2>1, Quiet DEF LoadConfig, CheckEligible, Advance, environment
  <2>2. CASE CreateKey(x)
    <3>1. from[x] \in Generation
      BY DEF BaseInv, CommandTypeOK
    <3> QED
      BY <2>2, <3>1, KeyCreated DEF Promise!LifecycleNext, Generation
  <2>3. CASE SaveConfig(x)
    <3>1. from[x] \in Generation
      BY DEF BaseInv, CommandTypeOK
    <3> QED
      BY <2>3, <3>1, Activated DEF Promise!LifecycleNext, Generation
  <2> QED
    BY <1>3, <2>1, <2>2, <2>3 DEF Rotate
<1>4. CASE Disturb
  <2>1. ASSUME NEW c \in Cluster, Failover(c), UNCHANGED rotation
        PROVE  UNCHANGED Promise!lifecycle
    BY <2>1, Quiet DEF Failover, rotation
  <2>2. ASSUME NEW c \in Cluster, CephChanges(c), UNCHANGED rotation
        PROVE  UNCHANGED Promise!lifecycle
    <3>1. \A e \in Cluster, s \in Source : (ceph'[e][s] = NoValue) <=> (ceph[e][s] = NoValue)
      <4>1. PICK t \in Source, v \in Value :
              ceph[c][t] \notin {v, NoValue} /\ ceph' = [ceph EXCEPT ![c][t] = v]
        BY <2>2 DEF CephChanges
      <4>2. \A e \in Cluster, s \in Source :
              ceph'[e][s] = IF e = c /\ s = t THEN v ELSE ceph[e][s]
        BY <4>1 DEF BaseInv, CallsInv, SyncTypeOK
      <4> QED
        BY <4>1, <4>2, CredentialsAssumption
    <3> QED
      BY <2>2, <3>1, SameIdentities, Unseen DEF CephChanges, rotation
  <2>3. ASSUME NEW r \in Runner, CallFails(r), UNCHANGED rotation
        PROVE  UNCHANGED Promise!lifecycle
    BY <2>3, Quiet DEF CallFails, environment, rotation
  <2>4. ASSUME NEW r \in Runner, AnswerLost(r), UNCHANGED rotation
        PROVE  [Promise!LifecycleNext]_(Promise!lifecycle)
    <3>1. pc[r] = "write" /\ UNCHANGED <<config, ceph>> /\ \E j \in todo[r] : Applies(r, j)
      BY <2>4 DEF AnswerLost, NextIn, environment, rotation
    <3> QED
      BY <3>1, WriteMapped
  <2>5. ASSUME NEW x \in Rotator, Abort(x)
        PROVE  UNCHANGED Promise!lifecycle
    BY <2>5, Quiet DEF Abort, environment
  <2> QED
    BY <1>4, <2>1, <2>2, <2>3, <2>4, <2>5 DEF Disturb
<1>5. CASE UNCHANGED vars
  BY <1>5, Quiet DEF vars
<1> QED
  BY <1>1, <1>2, <1>3, <1>4, <1>5 DEF Next

\* Rotations of one cluster that do not become standbys half-way keep the promise
\* of IdentityLifecycle, however many overlap, wherever they stop and however the
\* service interferes: identities only come into being, and both generations of
\* a switch are preserved before the new one is offered and before it becomes
\* the configured one.  One rotation at a time also leads from the configured
\* generation to the next, and nothing later is offered (rotateCredentials,
\* runRotate, synchronize).
THEOREM ImplementsLifecycle ==
    ASSUME OneCluster
    PROVE  Spec /\ []AsksAsActive => KeepsPromise
<1>1. Init => Promise!LifecycleInit
  BY LifecycleStarts
<1>2. BaseInv /\ SwitchInv /\ KeysInv /\ ArchivesInv /\ [Next]_vars
          => [Promise!LifecycleNext]_(Promise!lifecycle)
  BY LifecycleStep
<1> QED
  BY <1>1, <1>2, BaseInit, BaseNext, KeysInit, KeysNext, ArchivesInit, ArchivesNext,
     SwitchInit, SwitchNext, PTL DEF Spec, KeepsPromise, Promise!Lifecycle
=============================================================================
