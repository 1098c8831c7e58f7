----------------------------- MODULE Credentials -----------------------------
(***************************************************************************)
(* What the credential list of a configuration denotes: which CephX entity *)
(* each entry names in a given identity generation, which Vault path it is *)
(* published at, and the data that is written there.  These are the pure   *)
(* functions of sync.go, rotate.go and bootstrap.go that the sync and      *)
(* rotate commands share; this module has no state.                        *)
(*                                                                         *)
(* A configuration is abstracted to what the commands vary: the number     *)
(* cephx_generation and whether archiveConfig has been applied to it.  The *)
(* credential list itself is a constant, indexed by position.              *)
(***************************************************************************)
EXTENDS Integers

CONSTANTS
    Credentials,    \* cfg.Credentials, a function from positions to specs
    StandardIds,    \* ids of the standard Rook entities ("csi-rbd-node", ...)
    Cluster,        \* the Ceph clusters, each named by its FSID
    NoFSID,         \* no FSID recorded: data this program did not write
    Value,          \* what Ceph can answer: keys, monitor maps, links
    NoValue,        \* the credential does not exist in Ceph
    MaxGeneration   \* bound on cephx_generation

Index == DOMAIN Credentials
Generation == 0..MaxGeneration

MetadataKinds == {"rook-config", "rook-dashboard"}
CSIKinds == {"rook-csi", "rook-cephfs-csi"}

NoUser == [id |-> "", gen |-> 0]

\* The stable path <vault_path>, as opposed to <vault_path>/generations/<n>.
Stable == -1

ASSUME CredentialsAssumption ==
    /\ MaxGeneration \in Nat
    /\ NoFSID \notin Cluster
    /\ NoValue \notin Value
    \* validate() refuses two credentials with one vault_path
    /\ \A i, j \in Index : Credentials[i].path = Credentials[j].path => i = j

\* credentialSpec.  What else it has does not differ between commands.
CredentialSpec ==
    [path : STRING, kind : STRING, userID : [id : STRING, gen : Nat],
     entity : [prefix : STRING, id : STRING, gen : Nat]]

ASSUME SpecsAssumption == \A i \in Index : Credentials[i] \in CredentialSpec

Config == [gen : Generation, archive : BOOLEAN]
Path == [name : {Credentials[i].path : i \in Index}, gen : Generation \cup {Stable}]

-----------------------------------------------------------------------------
(* Identities.  An entity "client.csi-rbd-node.2" is the record            *)
(* [prefix |-> "client.", id |-> "csi-rbd-node", gen |-> 2]; generation 0  *)
(* stands for the name without a suffix.                                   *)

\* rookCephXProfile recognises exactly the unsuffixed standard names.
RookCephXProfile(entity) ==
    entity.prefix = "client." /\ entity.id \in StandardIds /\ entity.gen = 0

\* strings.TrimPrefix(entity, "client."): the id and the suffix are kept.
TrimClient(entity) == [id |-> entity.id, gen |-> entity.gen]

ActiveCredential(c, gen) ==
    IF gen = 0 \/ ~RookCephXProfile(c.entity)
    THEN c
    ELSE LET named == [c.entity EXCEPT !.gen = gen]
         IN  [c EXCEPT !.entity = named, !.userID = TrimClient(named)]

Active(i, cfg) == ActiveCredential(Credentials[i], cfg.gen)

\* Where Ceph is asked for a credential: metadata by the kind of command,
\* everything else by the entity (or RGW uid) it belongs to.
SourceOf(c) ==
    IF c.kind \in MetadataKinds
    THEN [kind |-> c.kind]
    ELSE [kind |-> IF c.kind = "rook-rgw-admin" THEN "rgw" ELSE "auth",
          entity |-> c.entity]

Source == {SourceOf(ActiveCredential(Credentials[i], g)) : i \in Index, g \in Generation}

-----------------------------------------------------------------------------
(* The two configurations a command publishes: the plain one, with every   *)
(* credential at its stable path, and archiveConfig, which keeps only the  *)
(* standard entities and appends "/generations/<n>" to their paths.        *)

StandardIndex == {i \in Index : RookCephXProfile(Credentials[i].entity)}

Included(cfg) == IF cfg.archive THEN StandardIndex ELSE Index

PathOf(i, cfg) ==
    [name |-> Credentials[i].path, gen |-> IF cfg.archive THEN cfg.gen ELSE Stable]

-----------------------------------------------------------------------------
(* Rendering.  The fields a kind publishes are abstracted to what makes    *)
(* them differ: owner, entity, published user, kind and the value read.    *)

PublishedUser(c) ==
    CASE c.kind \in CSIKinds /\ c.userID = NoUser -> TrimClient(c.entity)
      [] c.kind \in CSIKinds /\ c.userID # NoUser -> c.userID
      [] OTHER -> NoUser

RenderCredential(fsid, c, v) ==
    [fsid |-> fsid, entity |-> c.entity, user |-> PublishedUser(c),
     kind |-> c.kind, value |-> v]

\* Variants of CredentialGeneration, with the mistakes a change could make: only
\* the CephX and RGW keys are hashed; the FSID is left out.
CredentialGenerationOfKeys(cfg, fsid, vals) ==
    [fsid |-> fsid,
     parts |-> {<<PathOf(i, cfg), RenderCredential(fsid, Active(i, cfg), vals[i])>> :
                    i \in {j \in Included(cfg) : Credentials[j].kind \notin MetadataKinds}}]

CredentialGenerationSansFSID(cfg, fsid, vals) ==
    [fsid |-> NoFSID,
     parts |-> {<<PathOf(i, cfg), RenderCredential(fsid, Active(i, cfg), vals[i])>> :
                    i \in Included(cfg)}]

\* The hash is taken over the FSID and the rendered data of every credential,
\* with keys and entries sorted and NUL-separated; SHA-256 is modelled as
\* injective, so the generation identifier IS the set that is hashed.
CredentialGeneration(cfg, fsid, vals) ==
    [fsid |-> fsid,
     parts |-> {<<PathOf(i, cfg), RenderCredential(fsid, Active(i, cfg), vals[i])>> :
                    i \in Included(cfg)}]

\* buildDesired: the data of the i-th secret, stamped with the generation.
\* _synced_at is left out: sameCredentialData ignores it.
Desired(cfg, fsid, vals, i) ==
    [fields |-> RenderCredential(fsid, Active(i, cfg), vals[i]),
     tag    |-> CredentialGeneration(cfg, fsid, vals)]

NoTag == [fsid |-> NoFSID, parts |-> {}]

\* No data: nothing at the path, or a deleted version.
NoData == [fields |-> [fsid |-> NoFSID, value |-> NoValue], tag |-> NoTag]

\* Data somebody else put at a path before this program adopted it: it
\* carries neither _ceph_fsid nor fsid.
Adopted == [fields |-> [fsid |-> NoFSID, value |-> "adopted"], tag |-> NoTag]

StoredFSID(data) == data.fields.fsid

Fields == {RenderCredential(f, ActiveCredential(Credentials[i], g), v) :
              f \in Cluster, i \in Index, g \in Generation, v \in Value}
Tag == [fsid : Cluster, parts : SUBSET (Path \X Fields)]
Data == [fields : Fields, tag : Tag] \cup {NoData, Adopted}
=============================================================================
