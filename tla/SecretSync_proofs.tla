--------------------------- MODULE SecretSync_proofs ---------------------------
(***************************************************************************)
(* The safety properties of SecretSync, for any number of runners, hosts,  *)
(* clusters and credentials, any generation and any number of faults.  All *)
(* of them follow from CallsInv, which Synchronize_proofs shows to be kept *)
(* by every action.                                                        *)
(***************************************************************************)
EXTENDS SecretSync, Synchronize_proofs

\* The inductive invariant: that of the calls, and the bound of the model.
Inv == CallsInv /\ faults \in 0..MaxFaults

LEMMA InvInit == Init => Inv
<1> SUFFICES ASSUME Init
             PROVE  Inv
  OBVIOUS
<1>1. ceph \in [Cluster -> [Source -> Value \cup {NoValue}]]
  BY DEF Init
<1>2. CallsInv
  BY <1>1, InitKeeps DEF Init
<1> QED
  BY <1>2, SecretSyncAssumption DEF Init, Inv

LEMMA InvNext == Inv /\ [Next]_vars => Inv'
<1> SUFFICES ASSUME Inv, [Next]_vars
             PROVE  Inv'
  OBVIOUS
<1> USE DEF Inv
<1>1. ASSUME NEW r \in Runner, Poll(r)
      PROVE  Inv'
  <2>1. ServiceConfig \in Config /\ Modes \subseteq Mode
    BY SecretSyncAssumption DEF ServiceConfig, Config
  <2>2. PICK m \in Modes : Call(r, ServiceConfig, m)
    BY <1>1 DEF Poll
  <2>3. CallsInv'
    BY <1>1, <2>1, <2>2, CallKeeps DEF Poll
  <2> QED
    BY <1>1, <2>3 DEF Poll
<1>2. ASSUME NEW r \in Runner, Work(r)
      PROVE  Inv'
  BY <1>2, SyncStepKeeps DEF Work
<1>3. CASE Disturb
  <2>1. faults' \in 0..MaxFaults
    BY <1>3, SecretSyncAssumption DEF Disturb
  <2>2. CallsInv'
    BY <1>3, FailoverKeeps, CephChangesKeeps, SecretDeletedKeeps, CallFailsKeeps,
       AnswerLostKeeps DEF Disturb
  <2> QED
    BY <2>1, <2>2
<1>4. CASE UNCHANGED vars
  <2>1. UNCHANGED syncVars /\ UNCHANGED faults
    BY <1>4 DEF vars, syncVars
  <2> QED
    BY <2>1, StutterKeeps
<1> QED
  BY <1>1, <1>2, <1>3, <1>4 DEF Next

THEOREM Invariance == Spec => []Inv
BY InvInit, InvNext, PTL DEF Spec

\* Every variable has its type in every reachable state: entities, paths and
\* snapshots are never mixed up into something the program cannot name.
THEOREM TypeCorrect == Spec => []TypeOK
<1>1. Inv => TypeOK
  BY DEF Inv, CallsInv, TypeOK
<1> QED
  BY <1>1, Invariance, PTL

-----------------------------------------------------------------------------
(* Invariants.                                                             *)

\* Secrets with one generation identifier come from one snapshot of one
\* cluster, however the calls that wrote them interleaved or failed.
THEOREM GenerationIsShared == Spec => []SharedGeneration
<1>1. Inv => SharedGeneration
  BY DEF Inv, CallsInv, InItsSnapshot, SharedGeneration
<1> QED
  BY <1>1, Invariance, PTL

-----------------------------------------------------------------------------
(* Steps.                                                                  *)

\* A secret changes only by a write that Vault applies or by being deleted.
LEMMA WhoChangesASecret ==
    ASSUME Inv, Next, NEW p \in Path, vault'[p] # vault[p]
    PROVE  \/ vault'[p] = KVDeleted(vault[p])
           \/ \E r \in Runner : \E i \in todo[r] :
                /\ pc[r] = "write" /\ PathOf(i, cfg[r]) = p
                /\ plan[r][i].current.version = vault[p].version
                /\ vault'[p] = KVWritten(vault[p], DesiredBy(r, i))
<1> DEFINE Writes == \E r \in Runner : \E i \in todo[r] :
                        /\ pc[r] = "write" /\ PathOf(i, cfg[r]) = p
                        /\ plan[r][i].current.version = vault[p].version
                        /\ vault'[p] = KVWritten(vault[p], DesiredBy(r, i))
<1>1. ASSUME NEW r \in Runner, NEW i \in todo[r], pc[r] = "write", Applies(r, i)
      PROVE  Writes
  <2>1. i \in Index
    BY DEF Inv, CallsInv, SyncTypeOK
  <2>2. PathOf(i, cfg[r]) \in Path /\ vault \in [Path -> Entry]
    BY <2>1, EntryType DEF Inv, CallsInv, SyncTypeOK
  <2>3. PathOf(i, cfg[r]) = p
    BY <1>1, <2>2 DEF Applies
  <2>4. vault'[p] = KVWritten(vault[p], DesiredBy(r, i))
    BY <1>1, <2>2, <2>3 DEF Applies
  <2> QED
    BY <1>1, <2>3, <2>4 DEF Applies
<1>2. ASSUME NEW r \in Runner, SyncStep(r)
      PROVE  Writes
  <2>1. WriteSecret(r)
    BY <1>2 DEF SyncStep, Coordinate, ReadCredential, ReadSecret, ReadMetadata
  <2>2. pc[r] = "write" /\ \E i \in todo[r] : Applies(r, i)
    BY <2>1 DEF WriteSecret, NextIn
  <2> QED
    BY <2>2, <1>1
<1>3. ASSUME NEW r \in Runner, AnswerLost(r)
      PROVE  Writes
  BY <1>1, <1>3 DEF AnswerLost, NextIn
<1>4. ASSUME NEW q \in Path, SecretDeleted(q)
      PROVE  vault'[p] = KVDeleted(vault[p])
  BY <1>4 DEF SecretDeleted, Inv, CallsInv, SyncTypeOK
<1>5. CASE Disturb
  BY <1>3, <1>4, <1>5 DEF Disturb, Failover, CephChanges, CallFails
<1> QED
  BY <1>2, <1>5 DEF Next, Poll, Work

\* What such a write replaces, unless its runner was told 404.
LEMMA UpdateFacts ==
    ASSUME Inv, NEW r \in Runner, NEW i \in todo[r], pc[r] = "write",
           NEW p, PathOf(i, cfg[r]) = p, ~Creating(p),
           plan[r][i].current.version = vault[p].version
    PROVE  /\ i \in Index
           /\ vault[p] \in {plan[r][i].current, KVDeleted(plan[r][i].current)}
           /\ plan[r][i].current \in Entry
           /\ plan[r][i].current.data # DesiredBy(r, i)
           /\ ~OwnedByAnother(r, plan[r][i].current.data)
<1>1. i \in Index /\ plan[r][i].action \in {"create", "update"}
  BY DEF Inv, CallsInv, SyncTypeOK, LoopsInside
<1>2. plan[r][i].action = "update"
  BY <1>1 DEF Creating
<1>3. PlanHolds(r, i)
  BY <1>1 DEF Inv, CallsInv
<1>4. plan[r][i].current \in Entry
  BY <1>1 DEF Inv, CallsInv, SyncTypeOK, Planned
<1> QED
  BY <1>1, <1>2, <1>3, <1>4 DEF PlanHolds

\* No update is lost and none is in vain, except where a 404 was answered.
THEOREM NoLostUpdate == Spec => UpdatesReplaceWhatTheyRead
<1> DEFINE A(p) ==
        (vault[p].exists /\ vault'[p].exists /\ vault'[p] # vault[p] /\ ~Creating(p)) =>
            /\ vault'[p].data # vault[p].data
            /\ \E r \in Runner, i \in Index :
                /\ PathOf(i, cfg[r]) = p
                /\ plan[r][i].current = vault[p]
                /\ vault'[p].data = DesiredBy(r, i)
<1>1. ASSUME Inv, Next
      PROVE  \A p \in Path : A(p)
  <2> SUFFICES ASSUME NEW p \in Path, vault[p].exists, vault'[p].exists,
                      vault'[p] # vault[p], ~Creating(p)
               PROVE  /\ vault'[p].data # vault[p].data
                      /\ \E r \in Runner, i \in Index :
                          /\ PathOf(i, cfg[r]) = p
                          /\ plan[r][i].current = vault[p]
                          /\ vault'[p].data = DesiredBy(r, i)
    OBVIOUS
  <2>1. vault[p] \in Entry
    BY <1>1 DEF Inv, CallsInv, SyncTypeOK
  <2>2. vault'[p] # KVDeleted(vault[p])
    BY <2>1 DEF KVDeleted, Entry
  <2>3. PICK r \in Runner : \E i \in todo[r] :
                /\ pc[r] = "write" /\ PathOf(i, cfg[r]) = p
                /\ plan[r][i].current.version = vault[p].version
                /\ vault'[p] = KVWritten(vault[p], DesiredBy(r, i))
    BY <1>1, <2>2, WhoChangesASecret
  <2>4. PICK i \in todo[r] :
                /\ pc[r] = "write" /\ PathOf(i, cfg[r]) = p
                /\ plan[r][i].current.version = vault[p].version
                /\ vault'[p] = KVWritten(vault[p], DesiredBy(r, i))
    BY <2>3
  <2>5. /\ i \in Index
        /\ vault[p] \in {plan[r][i].current, KVDeleted(plan[r][i].current)}
        /\ plan[r][i].current \in Entry
        /\ plan[r][i].current.data # DesiredBy(r, i)
    BY <1>1, <2>4, UpdateFacts
  <2>6. vault[p] = plan[r][i].current
    BY <2>5 DEF KVDeleted, Entry
  <2>7. vault'[p].data = DesiredBy(r, i)
    BY <2>4 DEF KVWritten
  <2> QED
    BY <2>4, <2>5, <2>6, <2>7
<1>2. ASSUME UNCHANGED vars
      PROVE  \A p \in Path : A(p)
  BY <1>2 DEF vars
<1>3. Inv /\ [Next]_vars => [\A p \in Path : A(p)]_vars
  BY <1>1, <1>2
<1> QED
  BY <1>3, Invariance, PTL DEF Spec, UpdatesReplaceWhatTheyRead

\* A secret changes its cluster only through a runner that was told 404.
THEOREM GuardHoldsUpToTheWrite == Spec => TakeoverOnlyByCreate
<1> DEFINE A(p) ==
        LET old == StoredFSID(vault[p].data)
            new == StoredFSID(vault'[p].data)
        IN  (old # NoFSID /\ new # NoFSID /\ new # old) => Creating(p)
<1>1. ASSUME Inv, Next
      PROVE  \A p \in Path : A(p)
  <2> SUFFICES ASSUME NEW p \in Path, ~Creating(p),
                      StoredFSID(vault[p].data) # NoFSID,
                      StoredFSID(vault'[p].data) # NoFSID,
                      StoredFSID(vault'[p].data) # StoredFSID(vault[p].data)
               PROVE  FALSE
    OBVIOUS
  <2>1. vault[p] \in Entry /\ StoredFSID(NoData) = NoFSID
    BY <1>1 DEF Inv, CallsInv, SyncTypeOK, StoredFSID, NoData
  <2>2. vault'[p] # KVDeleted(vault[p])
    BY <2>1 DEF KVDeleted, Entry
  <2>3. PICK r \in Runner : \E i \in todo[r] :
                /\ pc[r] = "write" /\ PathOf(i, cfg[r]) = p
                /\ plan[r][i].current.version = vault[p].version
                /\ vault'[p] = KVWritten(vault[p], DesiredBy(r, i))
    BY <1>1, <2>2, WhoChangesASecret
  <2>4. PICK i \in todo[r] :
                /\ pc[r] = "write" /\ PathOf(i, cfg[r]) = p
                /\ plan[r][i].current.version = vault[p].version
                /\ vault'[p] = KVWritten(vault[p], DesiredBy(r, i))
    BY <2>3
  <2>5. /\ vault[p] \in {plan[r][i].current, KVDeleted(plan[r][i].current)}
        /\ plan[r][i].current \in Entry
        /\ ~OwnedByAnother(r, plan[r][i].current.data)
    BY <1>1, <2>4, UpdateFacts
  <2>6. vault[p] = plan[r][i].current
    BY <2>1, <2>5 DEF KVDeleted, Entry
  <2>7. StoredFSID(vault[p].data) = FSID(r)
    BY <2>5, <2>6 DEF OwnedByAnother
  <2>8. StoredFSID(vault'[p].data) = FSID(r)
    <3>1. i \in Included(cfg[r]) /\ pc[r] \in Planning
      BY <1>1, <2>4 DEF Inv, CallsInv, LoopsInside, Planning
    <3>2. StoredFSID(DesiredBy(r, i)) = FSID(r)
      BY <1>1, <3>1, DesiredByFacts DEF Inv
    <3> QED
      BY <2>4, <3>2 DEF KVWritten
  <2> QED
    BY <2>7, <2>8
<1>2. ASSUME UNCHANGED vars
      PROVE  \A p \in Path : A(p)
  BY <1>2 DEF vars
<1>3. Inv /\ [Next]_vars => [\A p \in Path : A(p)]_vars
  BY <1>1, <1>2
<1> QED
  BY <1>3, Invariance, PTL DEF Spec, TakeoverOnlyByCreate
-----------------------------------------------------------------------------
(* Outcomes.  What a loop has passed is planned; what needed no write, or  *)
(* has been written, is at its path unless somebody changed it since.      *)

Published(r, i) ==
    LET entry == vault[PathOf(i, cfg[r])]
    IN  /\ entry.version >= VersionSeen(r, i)
        /\ entry.data = DesiredBy(r, i) \/ ~entry.exists \/ entry.version > VersionSeen(r, i)

PassedHolds(r, i) ==
    (pc[r] \in Planning /\ i \notin todo[r]) =>
        /\ plan[r][i].action # "none"
        /\ pc[r] = "write" \/ plan[r][i].action = "unchanged" => Published(r, i)

PassedInv == \A r \in Runner : \A i \in Included(cfg[r]) : PassedHolds(r, i)

LEMMA EveryoneEvolves == Inv /\ [Next]_vars => \A p \in Path : Evolves(p)
<1> SUFFICES ASSUME Inv, [Next]_vars, NEW p \in Path
             PROVE  Evolves(p)
  OBVIOUS
<1>1. CASE vault'[p] = vault[p]
  BY <1>1 DEF Evolves
<1>2. CASE vault'[p] = KVDeleted(vault[p])
  BY <1>2 DEF Evolves
<1>3. ASSUME NEW data, vault'[p] = KVWritten(vault[p], data)
      PROVE  Evolves(p)
  <2>1. vault[p].version \in Nat
    BY DEF Inv, CallsInv, SyncTypeOK, Entry
  <2>2. vault'[p].version = vault[p].version + 1
    BY <1>3 DEF KVWritten
  <2> QED
    BY <2>1, <2>2 DEF Evolves
<1> QED
  BY <1>1, <1>2, <1>3, WhoChangesASecret DEF vars

\* What a step can do to the call of r.
LEMMA OwnStep ==
    ASSUME Inv, [Next]_vars, NEW r \in Runner
    PROVE  Still(r) \/ SyncStep(r) \/ pc'[r] \in {"coordinate", "error"}
<1>1. ASSUME NEW q \in Runner, Poll(q) \/ Work(q) \/ CallFails(q) \/ AnswerLost(q)
      PROVE  Still(r) \/ SyncStep(r) \/ pc'[r] \in {"coordinate", "error"}
  <2>1. \/ SyncStep(q) \/ CallFails(q) \/ AnswerLost(q)
        \/ \E m \in Mode : Call(q, ServiceConfig, m)
    BY <1>1, SecretSyncAssumption DEF Poll, Work
  <2>2. CASE q # r
    <3>1. ServiceConfig \in Config
      BY SecretSyncAssumption DEF ServiceConfig, Config
    <3> QED
      BY <2>1, <2>2, <3>1, OthersStay DEF Inv
  <2>3. CASE q = r
    BY <2>1, <2>3 DEF CallFails, AnswerLost, Return, Call, Inv, CallsInv, SyncTypeOK
  <2> QED
    BY <2>2, <2>3
<1>2. CASE UNCHANGED locals
  BY <1>2 DEF locals, Still
<1> QED
  BY <1>1, <1>2 DEF Next, Disturb, Failover, CephChanges, SecretDeleted, vars, locals

\* The same of the secrets after a step, by the plan before it.
NextPublished(r, i) ==
    LET entry == vault'[PathOf(i, cfg[r])]
    IN  /\ entry.version >= VersionSeen(r, i)
        /\ entry.data = DesiredBy(r, i) \/ ~entry.exists \/ entry.version > VersionSeen(r, i)

LEMMA IncludedFacts ==
    ASSUME Inv, NEW r \in Runner, NEW i \in Included(cfg[r])
    PROVE  /\ i \in Index /\ PathOf(i, cfg[r]) \in Path /\ vault[PathOf(i, cfg[r])] \in Entry
           /\ plan[r][i] \in Planned /\ VersionSeen(r, i) \in Nat
<1>1. i \in Index /\ plan[r][i] \in Planned
  BY IncludedInIndex DEF Inv, CallsInv, SyncTypeOK
<1>2. plan[r][i].current.version \in Nat
  BY <1>1 DEF Planned, Entry
<1> QED
  BY <1>1, <1>2, EntryType DEF Inv, VersionSeen

LEMMA PublishedStays ==
    ASSUME Inv, NEW r \in Runner, NEW i \in Included(cfg[r]), Published(r, i),
           SyncTypeOK', \A p \in Path : Evolves(p)
    PROVE  NextPublished(r, i)
<1> DEFINE p == PathOf(i, cfg[r])
           seen == VersionSeen(r, i)
<1>1. seen \in Nat /\ p \in Path /\ vault[p] \in Entry /\ Evolves(p)
  BY IncludedFacts
<1>2. vault[p].version \in Nat
  BY <1>1 DEF Entry
<1>3. /\ vault[p].version >= seen
      /\ vault[p].data = DesiredBy(r, i) \/ ~vault[p].exists \/ vault[p].version > seen
  BY DEF Published
<1> SUFFICES /\ vault'[p].version >= seen
             /\ vault'[p].data = DesiredBy(r, i) \/ ~vault'[p].exists \/ vault'[p].version > seen
  BY DEF NextPublished
<1>4. CASE vault'[p] = vault[p]
  BY <1>3, <1>4
<1>5. CASE vault'[p] = KVDeleted(vault[p])
  <2>1. vault'[p].version = vault[p].version /\ ~vault'[p].exists
    BY <1>1, <1>5 DEF KVDeleted, Entry
  <2> QED
    BY <1>3, <2>1
<1> HIDE DEF p, seen
<1>6. ASSUME NEW n \in Nat, NEW m \in Nat, NEW k \in Int, n >= m, k > n
      PROVE  k >= m /\ k > m
  BY <1>6
<1>7. CASE vault'[p].version > vault[p].version
  <2>1. vault'[p] \in Entry
    BY <1>1 DEF SyncTypeOK
  <2>2. vault'[p].version \in Int
    BY <2>1 DEF Entry
  <2> QED
    BY <1>1, <1>2, <1>3, <1>6, <1>7, <2>2
<1> QED
  BY <1>1, <1>4, <1>5, <1>7 DEF Evolves, p

\* A step that leaves the call alone, or only ends the write of other entries.
LEMMA PassedNext ==
    ASSUME NEW r \in Runner, NEW i \in Index,
           (pc'[r] \in Planning /\ i \notin todo'[r]) =>
               /\ plan'[r][i].action # "none"
               /\ pc'[r] = "write" \/ plan'[r][i].action = "unchanged" => NextPublished(r, i),
           plan'[r][i] = plan[r][i], cfg'[r] = cfg[r], value'[r] = value[r]
    PROVE  PassedHolds(r, i)'
BY DEF PassedHolds, Published, NextPublished, VersionSeen, DesiredBy

LEMMA PassedStill ==
    ASSUME Inv, SyncTypeOK', \A p \in Path : Evolves(p), NEW r \in Runner, Still(r),
           NEW i \in Included(cfg[r]), PassedHolds(r, i)
    PROVE  PassedHolds(r, i)'
<1>1. i \in Index
  BY IncludedFacts
<1>2. Published(r, i) => NextPublished(r, i)
  BY PublishedStays
<1> QED
  BY <1>1, <1>2, PassedNext DEF Still, PassedHolds

\* How an entry joins the plan: as it has been read.
Planable(r, i, item) ==
    /\ item \in Planned /\ item.action # "none"
    /\ item.action = "unchanged" => /\ item.current = vault[PathOf(i, cfg[r])]
                                    /\ item.current.data = DesiredBy(r, i)

LEMMA PassedPlan ==
    ASSUME Inv, NEW r \in Runner, \A j \in Included(cfg[r]) : PassedHolds(r, j),
           pc[r] \in {"read", "metadata"}, NEW i \in todo[r], NEW item, Planable(r, i, item),
           Plan(r, i, item), UNCHANGED vault, pc'[r] \in Planning,
           NEW j \in Included(cfg[r])
    PROVE  PassedHolds(r, j)'
<1> DEFINE newPlan == [plan[r] EXCEPT ![i] = item]
           rest == todo[r] \ {i}
           drift == {k \in Index : newPlan[k].action \in {"create", "update"}}
<1>1. /\ plan[r] \in [Index -> Planned] /\ i \in Index /\ j \in Index
      /\ pc[r] \notin {"write", "nil", "drift"}
  BY IncludedInIndex DEF Inv, CallsInv, SyncTypeOK
<1>2. /\ plan' = [plan EXCEPT ![r] = newPlan]
      /\ todo' = [todo EXCEPT ![r] = IF rest = {} THEN drift ELSE rest]
      /\ pc' = [pc EXCEPT ![r] = IF rest = {} THEN "write" ELSE "read"]
      /\ UNCHANGED <<cfg, mode, value>>
  <2>1. ~(rest = {} /\ (drift = {} \/ mode[r] # "sync"))
    BY DEF Plan, Return, Planning, Inv, CallsInv, SyncTypeOK
  <2> QED
    BY <2>1 DEF Plan
<1>3. /\ plan'[r] = newPlan /\ cfg'[r] = cfg[r] /\ value'[r] = value[r]
      /\ todo'[r] = IF rest = {} THEN drift ELSE rest
      /\ pc'[r] = IF rest = {} THEN "write" ELSE "read"
  BY <1>2 DEF Inv, CallsInv, SyncTypeOK
<1> HIDE DEF newPlan
<1>4. newPlan[j] = IF j = i THEN item ELSE plan[r][j]
  BY <1>1 DEF newPlan
<1>5. newPlan[j].action \in {"none", "unchanged", "create", "update"}
  BY <1>1, <1>4 DEF Planable, Planned
<1>6. CASE j = i
  <2> DEFINE entry == vault[PathOf(i, cfg[r])]
  <2>1. entry \in Entry
    BY <1>6, IncludedFacts
  <2>2. plan'[r][j] = item
    BY <1>3, <1>4, <1>6
  <2>3. item.action = "unchanged" => Published(r, j)'
    <3> SUFFICES ASSUME item.action = "unchanged"
                 PROVE  Published(r, j)'
      OBVIOUS
    <3>1. vault'[PathOf(j, cfg'[r])] = entry
      BY <1>3, <1>6
    <3>2. VersionSeen(r, j)' = entry.version
      <4>1. VersionSeen(r, j)' = entry.version + 0
        BY <2>2 DEF VersionSeen, Planable
      <4> QED
        BY <2>1, <4>1 DEF Entry
    <3>3. DesiredBy(r, j)' = entry.data
      BY <1>3, <1>6 DEF DesiredBy, Planable
    <3>4. entry.version >= entry.version
      BY <2>1 DEF Entry
    <3> QED
      BY <3>1, <3>2, <3>3, <3>4 DEF Published
  <2>4. pc'[r] = "write" /\ j \notin todo'[r] => item.action = "unchanged"
    BY <1>1, <1>3, <1>4, <1>5, <1>6 DEF Planable
  <2> QED
    BY <2>2, <2>3, <2>4 DEF PassedHolds, Planable
<1>7. CASE j # i
  <2>1. plan'[r][j] = plan[r][j]
    BY <1>3, <1>4, <1>7
  <2>2. Published(r, j) => NextPublished(r, j)
    BY DEF Published, NextPublished
  <2>3. j \notin todo'[r] /\ pc'[r] # "write" => j \notin todo[r]
    BY <1>3, <1>7
  <2>4. pc'[r] = "write" => j \notin todo[r]
    BY <1>3, <1>7
  <2>5. j \notin todo[r] => /\ plan[r][j].action # "none"
                           /\ (plan[r][j].action = "unchanged" => Published(r, j))
    BY DEF PassedHolds, Planning
  <2>6. pc'[r] = "write" /\ j \notin todo'[r] => plan[r][j].action \in {"none", "unchanged"}
    BY <1>1, <1>3, <1>4, <1>5, <1>7
  <2>7. (pc'[r] \in Planning /\ j \notin todo'[r]) =>
            /\ plan'[r][j].action # "none"
            /\ pc'[r] = "write" \/ plan'[r][j].action = "unchanged" => NextPublished(r, j)
    BY <2>1, <2>2, <2>3, <2>4, <2>5, <2>6
  <2> QED
    BY <1>1, <1>3, <2>1, <2>7, PassedNext
<1> QED
  BY <1>6, <1>7

\* The i-th secret has been written and leaves the loop.
LEMMA PassedWrite ==
    ASSUME Inv, SyncTypeOK', \A p \in Path : Evolves(p), NEW r \in Runner, pc[r] = "write",
           NEW i \in todo[r], Applies(r, i), NEW j \in Included(cfg[r]), PassedHolds(r, j)
    PROVE  j \notin todo[r] \ {i} => plan[r][j].action # "none" /\ NextPublished(r, j)
<1>1. CASE j # i
  BY <1>1, PublishedStays DEF PassedHolds, Planning
<1>2. CASE j = i
  <2> DEFINE p == PathOf(i, cfg[r])
  <2>1. /\ p \in Path /\ vault[p] \in Entry /\ vault \in [Path -> Entry]
        /\ plan[r][i].action \in {"create", "update"}
    BY <1>2, IncludedFacts DEF Inv, CallsInv, SyncTypeOK, LoopsInside
  <2>2. vault'[p] = KVWritten(vault[p], DesiredBy(r, i))
    BY <2>1 DEF Applies
  <2>3. plan[r][i].current.version = vault[p].version
    BY DEF Applies
  <2>4. VersionSeen(r, i) = vault[p].version + 1
    BY <2>1, <2>3 DEF VersionSeen
  <2>5. vault'[p].version = vault[p].version + 1 /\ vault'[p].data = DesiredBy(r, i)
    BY <2>2 DEF KVWritten
  <2>6. vault[p].version + 1 >= vault[p].version + 1
    BY <2>1 DEF Entry
  <2> QED
    BY <1>2, <2>1, <2>4, <2>5, <2>6 DEF NextPublished
<1> QED
  BY <1>1, <1>2

LEMMA PassedRead ==
    ASSUME Inv, NEW r \in Runner, NEW i \in todo[r]
    PROVE  LET entry == vault[PathOf(i, cfg[r])]
               data == entry.data
           IN  /\ Planable(r, i, [action |-> ActionFor(data, DesiredBy(r, i)), current |-> entry])
               /\ Planable(r, i, [action |-> "create",
                                  current |-> [Absent EXCEPT !.version = entry.version]])
<1> DEFINE entry == vault[PathOf(i, cfg[r])]
<1>1. entry \in Entry
  BY EntryType DEF Inv, CallsInv, SyncTypeOK
<1>2. [Absent EXCEPT !.version = entry.version] \in Entry
  BY <1>1 DEF Absent, Entry, Data
<1> QED
  BY <1>1, <1>2 DEF Planable, Planned, ActionFor

\* Steps of the call itself.
LEMMA PassedSync ==
    ASSUME Inv, SyncTypeOK', \A p \in Path : Evolves(p), NEW r \in Runner, SyncStep(r),
           \A i \in Included(cfg[r]) : PassedHolds(r, i)
    PROVE  \A i \in Included(cfg'[r]) : PassedHolds(r, i)'
<1> SUFFICES ASSUME pc'[r] \in Planning, NEW j \in Included(cfg'[r])
             PROVE  PassedHolds(r, j)'
  BY DEF PassedHolds
<1>1. \A result \in Returned : ~Return(r, result)
  BY DEF Return, Returned, Planning, Inv, CallsInv, SyncTypeOK
<1>2. CASE Coordinate(r)
  BY <1>1, <1>2 DEF Coordinate, Returned, Planning, Inv, CallsInv, SyncTypeOK
<1>3. CASE ReadCredential(r)
  <2>1. pc[r] = "collect"
    BY <1>3 DEF ReadCredential
  <2>2. PICK i \in Index :
          LET rest == todo[r] \ {i}
          IN  /\ pc' = [pc EXCEPT ![r] = IF rest = {} THEN "read" ELSE @]
              /\ todo' = [todo EXCEPT ![r] = IF rest = {} THEN Included(cfg[r]) ELSE rest]
              /\ UNCHANGED cfg
    BY <1>1, <1>3 DEF ReadCredential, Returned
  <2>3. todo'[r] = Included(cfg'[r])
    BY <2>1, <2>2 DEF Planning, Inv, CallsInv, SyncTypeOK
  <2> QED
    BY <2>3 DEF PassedHolds
<1>4. ASSUME NEW i \in todo[r], NEW item, pc[r] \in {"read", "metadata"}, UNCHANGED vault,
             Planable(r, i, item), Plan(r, i, item)
      PROVE  PassedHolds(r, j)'
  <2>1. UNCHANGED cfg
    BY <1>4 DEF Plan, Return
  <2> QED
    BY <1>4, <2>1, PassedPlan
<1>5. CASE ReadSecret(r)
  <2>1. pc[r] = "read" /\ UNCHANGED vault
    BY <1>5 DEF ReadSecret
  <2>2. PICK i \in todo[r] :
          LET entry == vault[PathOf(i, cfg[r])]
          IN  \/ /\ pc' = [pc EXCEPT ![r] = "metadata"]
                 /\ UNCHANGED <<cfg, mode, todo, value, plan>>
              \/ Plan(r, i, [action |-> ActionFor(entry.data, DesiredBy(r, i)),
                             current |-> entry])
    BY <1>1, <1>5 DEF ReadSecret, NextIn, Returned
  <2>3. CASE pc' = [pc EXCEPT ![r] = "metadata"] /\ UNCHANGED <<cfg, mode, todo, value, plan>>
    <3>1. pc'[r] = "metadata" /\ j \in Index /\ PassedHolds(r, j)
      BY <2>3, IncludedFacts DEF Inv, CallsInv, SyncTypeOK
    <3>2. Published(r, j) => NextPublished(r, j)
      BY <2>1 DEF Published, NextPublished
    <3> QED
      BY <2>1, <2>3, <3>1, <3>2, PassedNext DEF PassedHolds, Planning
  <2>4. ASSUME NEW item, Planable(r, i, item), Plan(r, i, item)
        PROVE  PassedHolds(r, j)'
    BY <1>4, <2>1, <2>2, <2>4
  <2> DEFINE entry == vault[PathOf(i, cfg[r])]
             item == [action |-> ActionFor(entry.data, DesiredBy(r, i)), current |-> entry]
  <2>5. Planable(r, i, item)
    BY <2>2, PassedRead
  <2>6. \/ pc' = [pc EXCEPT ![r] = "metadata"] /\ UNCHANGED <<cfg, mode, todo, value, plan>>
        \/ Plan(r, i, item)
    BY <2>2
  <2> HIDE DEF item
  <2> QED
    BY <2>3, <2>4, <2>5, <2>6
<1>6. CASE ReadMetadata(r)
  <2>1. pc[r] = "metadata" /\ UNCHANGED vault
    BY <1>6 DEF ReadMetadata
  <2>2. PICK i \in todo[r] :
          Plan(r, i, [action |-> "create",
                      current |-> [Absent EXCEPT !.version = vault[PathOf(i, cfg[r])].version]])
    BY <1>6 DEF ReadMetadata, NextIn
  <2> DEFINE item == [action |-> "create",
                      current |-> [Absent EXCEPT !.version = vault[PathOf(i, cfg[r])].version]]
  <2>3. Planable(r, i, item)
    BY <2>2, PassedRead
  <2>4. Plan(r, i, item)
    BY <2>2
  <2> HIDE DEF item
  <2> QED
    BY <1>4, <2>1, <2>2, <2>3, <2>4
<1>7. CASE WriteSecret(r)
  <2>1. pc[r] = "write"
    BY <1>7 DEF WriteSecret
  <2>2. PICK i \in todo[r] :
          /\ Applies(r, i)
          /\ todo' = [todo EXCEPT ![r] = @ \ {i}]
          /\ UNCHANGED <<pc, cfg, mode, value, plan>>
    BY <1>1, <1>7 DEF WriteSecret, NextIn, Returned
  <2>3. todo'[r] = todo[r] \ {i} /\ j \in Index
    BY <2>2, IncludedFacts DEF Inv, CallsInv, SyncTypeOK
  <2>4. j \notin todo[r] \ {i} => plan[r][j].action # "none" /\ NextPublished(r, j)
    BY <2>1, <2>2, PassedWrite
  <2> QED
    BY <2>2, <2>3, <2>4, PassedNext
<1> QED
  BY <1>2, <1>3, <1>5, <1>6, <1>7 DEF SyncStep

LEMMA PassedInvNext == Inv /\ PassedInv /\ [Next]_vars => PassedInv'
<1> SUFFICES ASSUME Inv, PassedInv, [Next]_vars, NEW r \in Runner
             PROVE  \A i \in Included(cfg'[r]) : PassedHolds(r, i)'
  BY DEF PassedInv, Included
<1>1. SyncTypeOK' /\ \A p \in Path : Evolves(p)
  BY InvNext, EveryoneEvolves DEF Inv, CallsInv
<1>2. CASE Still(r)
  BY <1>1, <1>2, PassedStill DEF PassedInv, Still
<1>3. CASE pc'[r] \in {"coordinate", "error"}
  BY <1>3 DEF PassedHolds, Planning
<1>4. CASE SyncStep(r)
  BY <1>1, <1>4, PassedSync DEF PassedInv
<1> QED
  BY <1>2, <1>3, <1>4, OwnStep

LEMMA PassedInit == Init => PassedInv
BY DEF Init, SyncInit, PassedInv, PassedHolds, Planning

\* A call that looked at Vault and returns nil has left everything it wants at
\* its paths, or somebody changed it afterwards: whatever it found, wrote or
\* did not have to write, and however it interleaved with other calls,
\* deletions and failures (drift and the write loop of synchronize).
THEOREM SuccessIsPublished == Spec => NilMeansPublished
<1> DEFINE A(r) ==
        (pc[r] \in Planning /\ pc'[r] = "nil" /\ mode[r] # "dry-run") =>
            \A i \in Included(cfg[r]) :
                LET entry == vault'[PathOf(i, cfg[r])]
                IN  \/ entry.data = DesiredBy(r, i)
                    \/ /\ i \notin todo[r]
                       /\ ~entry.exists \/ entry.version > VersionSeen(r, i)
<1>1. ASSUME Inv, PassedInv, [Next]_vars
      PROVE  \A r \in Runner : A(r)
  <2> SUFFICES ASSUME NEW r \in Runner, pc[r] \in Planning, pc'[r] = "nil", mode[r] # "dry-run",
                      NEW j \in Included(cfg[r])
               PROVE  LET entry == vault'[PathOf(j, cfg[r])]
                      IN  \/ entry.data = DesiredBy(r, j)
                          \/ /\ j \notin todo[r]
                             /\ ~entry.exists \/ entry.version > VersionSeen(r, j)
    OBVIOUS
  <2>1. SyncTypeOK' /\ \A p \in Path : Evolves(p)
    BY <1>1, InvNext, EveryoneEvolves DEF Inv, CallsInv
  <2>2. PassedHolds(r, j)
    BY <1>1 DEF PassedInv
  <2>3. SyncStep(r)
    BY <1>1, OwnStep DEF Still, Planning
  <2>4. ASSUME NEW i \in todo[r], NEW item, Planable(r, i, item), Plan(r, i, item),
               pc[r] \in {"read", "metadata"}, UNCHANGED vault
        PROVE  /\ item.action = "unchanged" /\ todo[r] = {i}
               /\ j # i => plan[r][j].action \in {"none", "unchanged"}
    <3> DEFINE newPlan == [plan[r] EXCEPT ![i] = item]
               rest == todo[r] \ {i}
               drift == {k \in Index : newPlan[k].action \in {"create", "update"}}
    <3>1. /\ plan[r] \in [Index -> Planned] /\ i \in Index /\ j \in Index /\ mode[r] \in Mode
          /\ todo[r] \subseteq Index
      BY <1>1, IncludedFacts DEF Inv, CallsInv, SyncTypeOK
    <3>2. rest = {} /\ (drift = {} \/ mode[r] # "sync")
      BY <1>1, <2>4 DEF Plan, Planning, Inv, CallsInv, SyncTypeOK
    <3>3. Return(r, IF drift # {} /\ mode[r] = "check" THEN "drift" ELSE "nil")
      BY <2>4, <3>2 DEF Plan
    <3>4. ~(drift # {} /\ mode[r] = "check")
      BY <1>1, <3>3 DEF Return, Inv, CallsInv, SyncTypeOK
    <3>5. drift = {}
      BY <3>1, <3>2, <3>4 DEF Mode
    <3>6. newPlan[i] = item /\ (j # i => newPlan[j] = plan[r][j])
      BY <3>1
    <3> HIDE DEF newPlan
    <3>7. item.action \notin {"create", "update"} /\ newPlan[j].action \notin {"create", "update"}
      BY <3>1, <3>5, <3>6
    <3>8. item.action \in {"unchanged", "create", "update"}
      BY <2>4 DEF Planable, Planned
    <3>9. plan[r][j].action \in {"none", "unchanged", "create", "update"}
      BY <3>1 DEF Planned
    <3> QED
      BY <3>2, <3>6, <3>7, <3>8, <3>9
  <2>5. ASSUME NEW i \in todo[r], NEW item, Planable(r, i, item), Plan(r, i, item),
               pc[r] \in {"read", "metadata"}, UNCHANGED vault
        PROVE  vault'[PathOf(j, cfg[r])].data = DesiredBy(r, j) \/ (j \notin todo[r] /\ NextPublished(r, j))
    <3>1. /\ item.action = "unchanged" /\ todo[r] = {i}
          /\ j # i => plan[r][j].action \in {"none", "unchanged"}
      BY <2>4, <2>5
    <3>2. CASE j = i
      BY <2>5, <3>1, <3>2 DEF Planable
    <3>3. CASE j # i
      <4>1. Published(r, j)
        BY <2>2, <3>1, <3>3 DEF PassedHolds
      <4> QED
        BY <1>1, <2>1, <3>1, <3>3, <4>1, PublishedStays
    <3> QED
      BY <3>2, <3>3
  <2>6. CASE ReadSecret(r)
    <3>1. pc[r] = "read" /\ UNCHANGED vault
      BY <2>6 DEF ReadSecret
    <3>2. PICK i \in todo[r] :
            LET entry == vault[PathOf(i, cfg[r])]
            IN  Plan(r, i, [action |-> ActionFor(entry.data, DesiredBy(r, i)), current |-> entry])
      BY <1>1, <2>6 DEF ReadSecret, NextIn, Return, Inv, CallsInv, SyncTypeOK
    <3> QED
      BY <1>1, <2>5, <3>1, <3>2, PassedRead DEF NextPublished
  <2>7. CASE ReadMetadata(r)
    <3>1. pc[r] = "metadata" /\ UNCHANGED vault
      BY <2>7 DEF ReadMetadata
    <3>2. PICK i \in todo[r] :
            Plan(r, i, [action |-> "create",
                        current |-> [Absent EXCEPT !.version = vault[PathOf(i, cfg[r])].version]])
      BY <2>7 DEF ReadMetadata, NextIn
    <3> QED
      BY <1>1, <2>5, <3>1, <3>2, PassedRead DEF NextPublished
  <2>8. CASE WriteSecret(r)
    <3>1. pc[r] = "write"
      BY <2>8 DEF WriteSecret
    <3>2. PICK i \in todo[r] : Applies(r, i) /\ todo[r] = {i}
      BY <1>1, <2>8 DEF WriteSecret, NextIn, Return, Planning, Inv, CallsInv, SyncTypeOK
    <3>3. NextPublished(r, j)
      BY <1>1, <2>1, <2>2, <3>1, <3>2, PassedWrite
    <3>4. CASE j # i
      BY <3>2, <3>3, <3>4 DEF NextPublished
    <3>5. CASE j = i
      <4>1. PathOf(i, cfg[r]) \in Path /\ vault \in [Path -> Entry]
        BY <1>1, <3>5, IncludedFacts DEF Inv, CallsInv, SyncTypeOK
      <4> QED
        BY <3>2, <3>5, <4>1 DEF Applies, KVWritten
    <3> QED
      BY <3>4, <3>5
  <2>9. pc[r] \notin {"coordinate", "collect"}
    BY DEF Planning
  <2> QED
    BY <2>3, <2>6, <2>7, <2>8, <2>9 DEF SyncStep, Coordinate, ReadCredential
<1>2. Inv /\ PassedInv /\ [Next]_vars => [\A r \in Runner : A(r)]_vars
  BY <1>1
<1> QED
  BY <1>2, Invariance, PassedInit, PassedInvNext, PTL DEF Spec, NilMeansPublished
=============================================================================
