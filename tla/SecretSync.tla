------------------------------ MODULE SecretSync ------------------------------
(***************************************************************************)
(* The resident service: on every host a runner repeats synchronize (watch *)
(* in main.go), while managers fail over, keys change, secrets are deleted *)
(* and requests fail.  Runners may belong to different Ceph clusters whose *)
(* configurations name the same Vault paths.                               *)
(***************************************************************************)
EXTENDS Synchronize

CONSTANTS
    ServiceGeneration,  \* cephx_generation in the configuration the runners load
    Modes,              \* the modes in which runners are started
    MaxFaults           \* bound on what the environment does

ASSUME SecretSyncAssumption ==
    /\ ServiceGeneration \in Generation
    /\ Modes \subseteq Mode
    /\ MaxFaults \in Nat

VARIABLE faults         \* what the environment has done so far

vars == <<active, ceph, vault, pc, cfg, mode, todo, value, plan, faults>>

ServiceConfig == [gen |-> ServiceGeneration, archive |-> FALSE]

TypeOK == SyncTypeOK /\ faults \in 0..MaxFaults

Init ==
    /\ SyncInit
    /\ \E v \in Value : ceph = [c \in Cluster |-> [s \in Source |-> v]]
    /\ faults = 0

\* One turn of the loop of watch: the last call has returned, whatever its
\* outcome, and the timer, a signal or an operator starts the next one.
Poll(r) ==
    /\ \E m \in Modes : Call(r, ServiceConfig, m)
    /\ UNCHANGED <<environment, vault, faults>>

Work(r) == SyncStep(r) /\ UNCHANGED faults

Disturb ==
    /\ faults < MaxFaults
    /\ faults' = faults + 1
    /\ \/ \E c \in Cluster : Failover(c) \/ CephChanges(c)
       \/ \E p \in Path : SecretDeleted(p)
       \/ \E r \in Runner : CallFails(r) \/ AnswerLost(r)

Next == (\E r \in Runner : Poll(r) \/ Work(r)) \/ Disturb

\* The loop of watch always reaches its next turn: the timer bounds the wait
\* and -timeout bounds the call.
Fairness == \A r \in Runner : WF_vars(Poll(r)) /\ WF_vars(Work(r))

Spec == Init /\ [][Next]_vars /\ Fairness

-----------------------------------------------------------------------------
(* Properties.                                                             *)

\* Two secrets that carry the same _sync_generation come from one snapshot
\* of one cluster, whoever wrote them, in however many calls, and whatever
\* failed in between: each is the entry that the other's snapshot has for its
\* path.  (README "Shared generation identifiers across every synchronized
\* credential"; buildDesired, credentialGeneration and the write loop.)
SharedGeneration ==
    \A p, q \in Path :
        LET dp == vault[p].data
            dq == vault[q].data
        IN  (Managed(dp) /\ Managed(dq) /\ dp.tag = dq.tag) =>
                /\ dp.fields.fsid = dq.fields.fsid
                /\ <<q, dq.fields>> \in dp.tag.parts
                /\ <<p, dp.fields>> \in dq.tag.parts

\* Who is about to create the secret at p: it has been told 404 for it.
Creating(p) ==
    \E r \in Runner, i \in Index :
        /\ pc[r] = "write" /\ i \in todo[r]
        /\ PathOf(i, cfg[r]) = p
        /\ plan[r][i].action = "create"

\* No update is lost and none is in vain: data at a path is replaced only by
\* a runner that has read exactly this data and wants different data there,
\* or by one that has been told that the path was empty.  (README "KV
\* compare-and-set protection against concurrent updates" and "Idempotent
\* writes"; sameCredentialData, Write.)
UpdatesReplaceWhatTheyRead ==
    [][\A p \in Path :
        (vault[p].exists /\ vault'[p].exists /\ vault'[p] # vault[p] /\ ~Creating(p)) =>
            /\ vault'[p].data # vault[p].data
            /\ \E r \in Runner, i \in Index :
                /\ PathOf(i, cfg[r]) = p
                /\ plan[r][i].current = vault[p]
                /\ vault'[p].data = DesiredBy(r, i)
      ]_vars

\* The FSID guard holds up to the write: a secret of one cluster becomes a
\* secret of another only through a runner that was told the path was empty,
\* never by an update and never because the owner changed after the check.
\* (the check of storedFSID in synchronize, README "prevents a different Ceph
\* cluster from taking over the same Vault paths".)
TakeoverOnlyByCreate ==
    [][\A p \in Path :
        LET old == StoredFSID(vault[p].data)
            new == StoredFSID(vault'[p].data)
        IN  (old # NoFSID /\ new # NoFSID /\ new # old) => Creating(p)
      ]_vars

\* The version at which r has seen the i-th secret hold what it wants: the one
\* it has read, or the one its write has made.
VersionSeen(r, i) ==
    plan[r][i].current.version + IF plan[r][i].action = "unchanged" THEN 0 ELSE 1

\* Success means published: a call that has looked at Vault and returns nil
\* leaves at each of its paths what it has rendered from Ceph's answers, unless
\* somebody has deleted the secret or written it once more since this call has
\* read or written it; a check that returns nil has found all of it there.
\* Nothing changes at the last path before the call returns.  (README "Idempotent
\* writes", "-check"; plan, drift and the write loop of synchronize.)
NilMeansPublished ==
    [][\A r \in Runner :
        (pc[r] \in Planning /\ pc'[r] = "nil" /\ mode[r] # "dry-run") =>
            \A i \in Included(cfg[r]) :
                LET entry == vault'[PathOf(i, cfg[r])]
                IN  \/ entry.data = DesiredBy(r, i)
                    \/ /\ i \notin todo[r]
                       /\ ~entry.exists \/ entry.version > VersionSeen(r, i)
      ]_vars

\* What Vault should hold at the stable path of i for cluster c.
InSync(c) ==
    LET vals == [i \in Index |-> ceph[c][SourceOf(Active(i, ServiceConfig))]]
    IN  \A i \in Index :
            vault[PathOf(i, ServiceConfig)].data = Desired(ServiceConfig, c, vals, i)

\* Once the environment leaves the system alone, the stable paths reach what
\* Ceph holds and stay there, whatever was left half written, refused, lost
\* or deleted before and whichever host is the active one.  (README "The
\* resident service detects CephX keys, monitor metadata, dashboard links,
\* and RGW admin key changes".)  For runners of a single cluster.
Converges == \A c \in Cluster : <>[]InSync(c)

-----------------------------------------------------------------------------
(* A statement of the README that the code does not keep.                  *)

\* README.md:286 "Existing `_ceph_fsid` metadata also prevents a different
\* Ceph cluster from taking over the same Vault paths."  The 404 and the
\* version come from two requests; a secret created in between is replaced.
NoTakeover ==
    [][\A p \in Path :
        LET old == StoredFSID(vault[p].data)
            new == StoredFSID(vault'[p].data)
        IN  (old # NoFSID /\ new # NoFSID) => new = old
      ]_vars
=============================================================================
