----------------------------- MODULE Synchronize -----------------------------
(***************************************************************************)
(* One call of synchronize (sync.go), step by step, against the two        *)
(* services it talks to: the Ceph monitors, reached through the ceph CLI   *)
(* (ceph.go), and a Vault KV v2 store, reached over HTTP (vault.go).  The  *)
(* resident service and the rotate command both run such calls, so the     *)
(* module defines the state and the actions of a call and leaves Next to   *)
(* SecretSync and Rotation.                                                *)
(*                                                                         *)
(* A runner is one process.  Every command and every HTTP request of a     *)
(* call is a step of its own, because other runners, the monitors and      *)
(* operators act between any two of them.                                  *)
(***************************************************************************)
EXTENDS Credentials

CONSTANTS
    Runner,         \* the processes that run synchronize
    Host,           \* the machines they run on
    HostOf,         \* [Runner -> Host]
    ClusterOf,      \* [Runner -> Cluster], the cluster a runner's ceph CLI reaches
    Coordination    \* cfg.Ceph.Coordination: "active-manager" or "none"

ASSUME SynchronizeAssumption ==
    /\ Index # {} /\ Index \subseteq Nat
    /\ HostOf \in [Runner -> Host]
    /\ ClusterOf \in [Runner -> Cluster]
    /\ Coordination \in {"active-manager", "none"}

VARIABLES
    active,         \* active[c]: host of the active manager of cluster c
    ceph,           \* ceph[c][s]: what cluster c answers for source s
    vault,          \* vault[p]: the KV v2 entry at path p
    pc,             \* pc[r]: the request runner r makes next, or how its call ended
    cfg,            \* cfg[r]: the configuration of r's call
    mode,           \* mode[r]: syncOptions, "sync", "dry-run" or "check"
    todo,           \* todo[r]: positions the current loop has still to visit
    value,          \* value[r]: the map "values", by position
    plan            \* plan[r]: the slice "plan", by position

environment == <<active, ceph>>
locals == <<pc, cfg, mode, todo, value, plan>>
syncVars == <<active, ceph, vault, pc, cfg, mode, todo, value, plan>>

Mode == {"sync", "dry-run", "check"}
\* The loops of a call, and its three outcomes: nil (also returned by a
\* standby), errDrift, and any other error.
Busy == {"coordinate", "collect", "read", "metadata", "write"}
Returned == {"nil", "drift", "error"}

Entry == [version : Nat, exists : BOOLEAN, data : Data]
Absent == [version |-> 0, exists |-> FALSE, data |-> NoData]
Planned == [action : {"none", "unchanged", "create", "update"}, current : Entry]
NotPlanned == [action |-> "none", current |-> Absent]

SyncTypeOK ==
    /\ active \in [Cluster -> Host]
    /\ ceph \in [Cluster -> [Source -> Value \cup {NoValue}]]
    /\ vault \in [Path -> Entry]
    /\ pc \in [Runner -> Busy \cup Returned]
    /\ cfg \in [Runner -> Config]
    /\ mode \in [Runner -> Mode]
    /\ todo \in [Runner -> SUBSET Index]
    /\ value \in [Runner -> [Index -> Value \cup {NoValue}]]
    /\ plan \in [Runner -> [Index -> Planned]]

NoValues == [i \in Index |-> NoValue]
NoPlan == [i \in Index |-> NotPlanned]

FSID(r) == ClusterOf[r]
DesiredBy(r, i) == Desired(cfg[r], FSID(r), value[r], i)

\* The loops visit the credentials in the order of the configuration.
NextIn(S, i) == i \in S /\ \A j \in S : i <= j

-----------------------------------------------------------------------------
(* A KV v2 secret.  A write carries "cas": it is refused unless cas is the *)
(* entry's current version.  A deleted secret keeps its version.           *)

KVWritten(entry, data) ==
    [version |-> entry.version + 1, exists |-> TRUE, data |-> data]

KVDeleted(entry) == [entry EXCEPT !.exists = FALSE, !.data = NoData]

-----------------------------------------------------------------------------
(* The call.                                                               *)

\* The call of r is over: its local variables are gone, the caller sees result.
Return(r, result) ==
    /\ pc' = [pc EXCEPT ![r] = result]
    /\ todo' = [todo EXCEPT ![r] = {}]
    /\ value' = [value EXCEPT ![r] = NoValues]
    /\ plan' = [plan EXCEPT ![r] = NoPlan]
    /\ UNCHANGED <<cfg, mode>>

\* synchronize(ctx, c, source, vault, {m}) is called.
Call(r, c, m) ==
    /\ pc[r] \in Returned
    /\ pc' = [pc EXCEPT ![r] = "coordinate"]
    /\ cfg' = [cfg EXCEPT ![r] = c]
    /\ mode' = [mode EXCEPT ![r] = m]
    /\ UNCHANGED <<todo, value, plan>>

Eligible(r) == Coordination = "none" \/ active[ClusterOf[r]] = HostOf[r]

\* CanSynchronize, then FSID: a cluster's FSID never changes.  A standby
\* returns nil, like a call that has done its work.
Coordinate(r) ==
    /\ pc[r] = "coordinate"
    /\ IF Eligible(r)
       THEN /\ pc' = [pc EXCEPT ![r] = "collect"]
            /\ todo' = [todo EXCEPT ![r] = Included(cfg[r])]
            /\ UNCHANGED <<cfg, mode, value, plan>>
       ELSE Return(r, "nil")
    /\ UNCHANGED <<environment, vault>>

\* Variant of ReadCredential: activeCredential is not applied before Ceph is asked.
ReadUnrotatedCredential(r) ==
    /\ pc[r] = "collect"
    /\ \E i \in Index :
        /\ NextIn(todo[r], i)
        /\ LET v == ceph[ClusterOf[r]][SourceOf(Credentials[i])]
               rest == todo[r] \ {i}
           IN  IF v = NoValue
               THEN Return(r, "error")
               ELSE /\ value' = [value EXCEPT ![r][i] = v]
                    /\ pc' = [pc EXCEPT ![r] = IF rest = {} THEN "read" ELSE @]
                    /\ todo' = [todo EXCEPT ![r] = IF rest = {} THEN Included(cfg[r]) ELSE rest]
                    /\ UNCHANGED <<cfg, mode, plan>>
    /\ UNCHANGED <<environment, vault>>

\* source.Credential of the next entry.  Ceph has no answer: the call fails.
\* After the last one, buildDesired starts the reading of Vault.
ReadCredential(r) ==
    /\ pc[r] = "collect"
    /\ \E i \in Index :
        /\ NextIn(todo[r], i)
        /\ LET v == ceph[ClusterOf[r]][SourceOf(Active(i, cfg[r]))]
               rest == todo[r] \ {i}
           IN  IF v = NoValue
               THEN Return(r, "error")
               ELSE /\ value' = [value EXCEPT ![r][i] = v]
                    /\ pc' = [pc EXCEPT ![r] = IF rest = {} THEN "read" ELSE @]
                    /\ todo' = [todo EXCEPT ![r] = IF rest = {} THEN Included(cfg[r]) ELSE rest]
                    /\ UNCHANGED <<cfg, mode, plan>>
    /\ UNCHANGED <<environment, vault>>

\* The i-th secret has been read and compared: item joins the plan.  After
\* the last one the call ends (drift under -check, nothing to do, -dry-run)
\* or goes on to write what differs.
Plan(r, i, item) ==
    LET newPlan == [plan[r] EXCEPT ![i] = item]
        rest == todo[r] \ {i}
        drift == {j \in Index : newPlan[j].action \in {"create", "update"}}
    IN  IF rest = {} /\ (drift = {} \/ mode[r] # "sync")
        THEN Return(r, IF drift # {} /\ mode[r] = "check" THEN "drift" ELSE "nil")
        ELSE /\ plan' = [plan EXCEPT ![r] = newPlan]
             /\ todo' = [todo EXCEPT ![r] = IF rest = {} THEN drift ELSE rest]
             /\ pc' = [pc EXCEPT ![r] = IF rest = {} THEN "write" ELSE "read"]
             /\ UNCHANGED <<cfg, mode, value>>

\* Variant of ActionFor: _sync_generation is not compared.
ActionForFields(data, desired) ==
    IF data.fields = desired.fields THEN "unchanged" ELSE "update"

ActionFor(data, desired) == IF data = desired THEN "unchanged" ELSE "update"

\* Variant of OwnedByAnother: the FSID is not compared.
NeverOwnedByAnother(r, data) == FALSE

OwnedByAnother(r, data) == StoredFSID(data) \notin {NoFSID, FSID(r)}

\* GET <mount>/data/<path>.  A secret of another cluster ends the call; a 404
\* is followed by a second request, for the version.
ReadSecret(r) ==
    /\ pc[r] = "read"
    /\ \E i \in Index :
        /\ NextIn(todo[r], i)
        /\ LET entry == vault[PathOf(i, cfg[r])]
           IN  IF ~entry.exists
               THEN /\ pc' = [pc EXCEPT ![r] = "metadata"]
                    /\ UNCHANGED <<cfg, mode, todo, value, plan>>
               ELSE IF OwnedByAnother(r, entry.data)
                    THEN Return(r, "error")
                    ELSE Plan(r, i, [action |-> ActionFor(entry.data, DesiredBy(r, i)),
                                     current |-> entry])
    /\ UNCHANGED <<environment, vault>>

\* GET <mount>/metadata/<path>: currentVersion, 0 when there is none.  Only
\* the version comes from this second answer.
ReadMetadata(r) ==
    /\ pc[r] = "metadata"
    /\ \E i \in Index :
        /\ NextIn(todo[r], i)
        /\ LET version == vault[PathOf(i, cfg[r])].version
           IN  Plan(r, i, [action |-> "create",
                           current |-> [Absent EXCEPT !.version = version]])
    /\ UNCHANGED <<environment, vault>>

\* Variant of Applies: the write carries no "cas".
AppliesAlways(r, i) ==
    vault' = [vault EXCEPT ![PathOf(i, cfg[r])] = KVWritten(@, DesiredBy(r, i))]

\* Vault applies the write of the i-th secret: the version it carries is current.
Applies(r, i) ==
    LET p == PathOf(i, cfg[r])
    IN  /\ plan[r][i].current.version = vault[p].version
        /\ vault' = [vault EXCEPT ![p] = KVWritten(@, DesiredBy(r, i))]

Refused(r, i) == plan[r][i].current.version # vault[PathOf(i, cfg[r])].version

\* POST <mount>/data/<path> of the next differing secret; a refused write
\* ends the call and leaves the earlier ones in place.
WriteSecret(r) ==
    /\ pc[r] = "write"
    /\ \E i \in Index :
        /\ NextIn(todo[r], i)
        /\ \/ /\ Applies(r, i)
              /\ IF todo[r] = {i}
                 THEN Return(r, "nil")
                 ELSE /\ todo' = [todo EXCEPT ![r] = @ \ {i}]
                      /\ UNCHANGED <<pc, cfg, mode, value, plan>>
           \/ /\ Refused(r, i)
              /\ Return(r, "error")
              /\ UNCHANGED vault
    /\ UNCHANGED environment

\* The write is applied but its answer is lost (timeout, broken connection,
\* the process is killed): the call fails not knowing that it has written.
AnswerLost(r) ==
    /\ pc[r] = "write"
    /\ \E i \in Index : NextIn(todo[r], i) /\ Applies(r, i)
    /\ Return(r, "error")
    /\ UNCHANGED environment

\* A command or request of the call fails, its deadline passes, or the
\* process is killed before the request is made.
CallFails(r) ==
    /\ pc[r] \in Busy
    /\ Return(r, "error")
    /\ UNCHANGED <<environment, vault>>

\* What the call does by itself.
SyncStep(r) ==
    \/ Coordinate(r)
    \/ ReadCredential(r)
    \/ ReadSecret(r)
    \/ ReadMetadata(r)
    \/ WriteSecret(r)
-----------------------------------------------------------------------------
(* The environment of the calls.                                           *)

HostsOf(c) == {HostOf[r] : r \in {s \in Runner : ClusterOf[s] = c}}

\* The monitors make another host's manager the active one.
Failover(c) ==
    /\ \E h \in HostsOf(c) \ {active[c]} : active' = [active EXCEPT ![c] = h]
    /\ UNCHANGED <<ceph, vault, locals>>

\* A key, the monitor map or the dashboard link of cluster c changes.
CephChanges(c) ==
    /\ \E s \in Source, v \in Value :
        /\ ceph[c][s] \notin {v, NoValue}
        /\ ceph' = [ceph EXCEPT ![c][s] = v]
    /\ UNCHANGED <<active, vault, locals>>

\* An operator deletes the latest version of a secret.
SecretDeleted(p) ==
    /\ vault[p].exists
    /\ vault' = [vault EXCEPT ![p] = KVDeleted(@)]
    /\ UNCHANGED <<environment, locals>>

SyncInit ==
    /\ active \in [Cluster -> Host]
    /\ \A c \in Cluster : active[c] \in HostsOf(c)
    /\ vault \in [Path -> {Absent, KVWritten(Absent, Adopted)}]
    /\ \A p \in Path : p.gen # Stable => vault[p] = Absent
    /\ pc = [r \in Runner |-> "nil"]
    /\ cfg = [r \in Runner |-> [gen |-> 0, archive |-> FALSE]]
    /\ mode = [r \in Runner |-> "sync"]
    /\ todo = [r \in Runner |-> {}]
    /\ value = [r \in Runner |-> NoValues]
    /\ plan = [r \in Runner |-> NoPlan]

-----------------------------------------------------------------------------
(* What holds of every call between any two steps of the system, whoever   *)
(* runs the calls.                                                         *)

Planning == {"read", "metadata", "write"}

\* The loops of r stay inside its configuration, visit each entry of it
\* before they end, and leave nothing behind for the next call.
LoopsInside(r) ==
    /\ todo[r] \subseteq Included(cfg[r])
    /\ pc[r] \in Returned \cup {"coordinate"} => todo[r] = {}
    /\ pc[r] \notin Planning => plan[r] = NoPlan
    /\ \A i \in Index : plan[r][i].action # "none" => i \in Included(cfg[r])
    /\ pc[r] = "write" => \A i \in todo[r] : plan[r][i].action \in {"create", "update"}
    /\ pc[r] = "collect" => \A i \in Included(cfg[r]) \ todo[r] : value[r][i] \in Value
    /\ pc[r] \in Planning => \A i \in Included(cfg[r]) : value[r][i] \in Value

\* What r found when it read the i-th secret stays true of its plan, and of
\* the secret as long as its version is current.
PlanHolds(r, i) ==
    LET item == plan[r][i]
        entry == vault[PathOf(i, cfg[r])]
    IN  item.action \in {"unchanged", "update"} =>
            /\ item.current.exists
            /\ ~OwnedByAnother(r, item.current.data)
            /\ item.action = "update" => item.current.data # DesiredBy(r, i)
            /\ item.current.version <= entry.version
            /\ item.current.version = entry.version =>
                    entry \in {item.current, KVDeleted(item.current)}

Managed(data) == StoredFSID(data) # NoFSID

\* A secret at path p belongs to the snapshot that its own generation
\* identifier stands for, and to that snapshot's cluster.
InItsSnapshot(p) ==
    LET data == vault[p].data
    IN  Managed(data) => /\ data.tag.fsid = data.fields.fsid
                         /\ <<p, data.fields>> \in data.tag.parts

CallsInv ==
    /\ SyncTypeOK
    /\ \A r \in Runner : LoopsInside(r)
    /\ \A r \in Runner, i \in Index : PlanHolds(r, i)
    /\ \A p \in Path : InItsSnapshot(p)
=============================================================================
