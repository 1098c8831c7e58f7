-------------------------- MODULE Synchronize_proofs --------------------------
(***************************************************************************)
(* CallsInv, the invariant of the calls of synchronize, is kept by every   *)
(* action of Synchronize.  The lemmas are used for the system specified in *)
(* SecretSync, and serve any other that is built from the same actions.    *)
(***************************************************************************)
EXTENDS Synchronize, TLAPS

-----------------------------------------------------------------------------
(* The operators of Credentials.                                           *)

LEMMA IncludedInIndex ==
    ASSUME NEW c \in Config
    PROVE  Included(c) \subseteq Index
BY DEF Included, StandardIndex

LEMMA PathOfType ==
    ASSUME NEW i \in Index, NEW c \in Config
    PROVE  PathOf(i, c) \in Path
BY DEF PathOf, Path, Config

LEMMA SourceType ==
    ASSUME NEW i \in Index, NEW c \in Config
    PROVE  SourceOf(Active(i, c)) \in Source
BY DEF Source, Active, Config

LEMMA FieldsType ==
    ASSUME NEW f \in Cluster, NEW i \in Index, NEW c \in Config, NEW v \in Value
    PROVE  RenderCredential(f, Active(i, c), v) \in Fields
BY DEF Fields, Active, Config

\* The data a call writes is well-formed and in the snapshot it is stamped with.
LEMMA DesiredFacts ==
    ASSUME NEW f \in Cluster, NEW c \in Config, NEW i \in Included(c), NEW vals,
           \A j \in Included(c) : vals[j] \in Value
    PROVE  /\ Desired(c, f, vals, i) \in Data
           /\ StoredFSID(Desired(c, f, vals, i)) = f
           /\ Desired(c, f, vals, i).tag.fsid = f
           /\ <<PathOf(i, c), Desired(c, f, vals, i).fields>>
                  \in Desired(c, f, vals, i).tag.parts
<1> DEFINE F(j) == RenderCredential(f, Active(j, c), vals[j])
           parts == {<<PathOf(j, c), F(j)>> : j \in Included(c)}
<1>1. /\ Desired(c, f, vals, i).fields = F(i)
      /\ Desired(c, f, vals, i).tag = [fsid |-> f, parts |-> parts]
      /\ Desired(c, f, vals, i) = [fields |-> F(i), tag |-> [fsid |-> f, parts |-> parts]]
  BY DEF Desired, CredentialGeneration
<1>2. \A j \in Included(c) : PathOf(j, c) \in Path /\ F(j) \in Fields
  BY IncludedInIndex, PathOfType, FieldsType
<1>3. parts \in SUBSET (Path \X Fields)
  BY <1>2
<1>4. F(i).fsid = f
  BY DEF RenderCredential
<1>5. Desired(c, f, vals, i) \in Data
  <2>1. [fsid |-> f, parts |-> parts] \in Tag
    BY <1>3 DEF Tag
  <2> QED
    BY <1>1, <1>2, <2>1 DEF Data
<1> QED
  BY <1>1, <1>4, <1>5 DEF StoredFSID

LEMMA FSIDType == \A r \in Runner : FSID(r) \in Cluster
BY SynchronizeAssumption DEF FSID

\* The same for what runner r writes.
LEMMA DesiredByFacts ==
    ASSUME CallsInv, NEW r \in Runner, pc[r] \in Planning, NEW i \in Included(cfg[r])
    PROVE  /\ DesiredBy(r, i) \in Data
           /\ StoredFSID(DesiredBy(r, i)) = FSID(r)
           /\ DesiredBy(r, i).tag.fsid = FSID(r)
           /\ <<PathOf(i, cfg[r]), DesiredBy(r, i).fields>> \in DesiredBy(r, i).tag.parts
<1>1. cfg[r] \in Config /\ FSID(r) \in Cluster
  BY FSIDType DEF CallsInv, SyncTypeOK
<1>2. \A j \in Included(cfg[r]) : value[r][j] \in Value
  BY DEF CallsInv, LoopsInside
<1> QED
  BY <1>1, <1>2, DesiredFacts DEF DesiredBy

LEMMA EntryType ==
    ASSUME CallsInv, NEW r \in Runner, NEW i \in Index
    PROVE  PathOf(i, cfg[r]) \in Path /\ vault[PathOf(i, cfg[r])] \in Entry
BY PathOfType DEF CallsInv, SyncTypeOK

-----------------------------------------------------------------------------
(* Frames: what a step that leaves some variables alone keeps.             *)

\* How the entry at p may change under the plans of the runners.
Evolves(p) ==
    \/ vault'[p] = vault[p]
    \/ vault'[p] = KVDeleted(vault[p])
    \/ vault'[p].version > vault[p].version

LEMMA PlanKept ==
    ASSUME CallsInv, SyncTypeOK', NEW r \in Runner, NEW i \in Index,
           plan'[r][i] = plan[r][i], cfg'[r] = cfg[r], value'[r] = value[r],
           Evolves(PathOf(i, cfg[r]))
    PROVE  PlanHolds(r, i)'
<1> DEFINE item == plan[r][i]
           p == PathOf(i, cfg[r])
<1> SUFFICES ASSUME item.action \in {"unchanged", "update"}
             PROVE  PlanHolds(r, i)'
  BY DEF PlanHolds
<1>1. /\ item.current.exists
      /\ ~OwnedByAnother(r, item.current.data)
      /\ item.action = "update" => item.current.data # DesiredBy(r, i)
      /\ item.current.version <= vault[p].version
      /\ item.current.version = vault[p].version =>
              vault[p] \in {item.current, KVDeleted(item.current)}
  BY DEF CallsInv, PlanHolds
<1>2. /\ p \in Path /\ p = PathOf(i, cfg'[r])
      /\ vault[p].version \in Nat /\ vault'[p].version \in Nat
      /\ item.current.version \in Nat
  BY EntryType DEF CallsInv, SyncTypeOK, Entry, Planned
<1>3. DesiredBy(r, i)' = DesiredBy(r, i)
  BY DEF DesiredBy, FSID
<1>4. OwnedByAnother(r, item.current.data)' <=> OwnedByAnother(r, item.current.data)
  BY DEF OwnedByAnother, FSID
<1>5. KVDeleted(KVDeleted(item.current)) = KVDeleted(item.current)
  BY DEF KVDeleted
<1>6. vault'[p] = KVDeleted(vault[p]) => vault'[p].version = vault[p].version
  <2>1. vault[p] \in Entry
    BY <1>2 DEF CallsInv, SyncTypeOK
  <2> QED
    BY <2>1 DEF KVDeleted, Entry
<1>7. /\ item.current.version <= vault'[p].version
      /\ item.current.version = vault'[p].version =>
              vault'[p] \in {item.current, KVDeleted(item.current)}
  <2>1. CASE vault'[p] = vault[p]
    BY <2>1, <1>1
  <2>2. CASE vault'[p] = KVDeleted(vault[p])
    BY <2>2, <1>1, <1>5, <1>6
  <2>3. CASE vault'[p].version > vault[p].version
    BY <2>3, <1>1, <1>2
  <2> QED
    BY <2>1, <2>2, <2>3 DEF Evolves
<1> QED
  BY <1>1, <1>2, <1>3, <1>4, <1>7 DEF PlanHolds

\* The step of one runner: what has to be shown of it.
LEMMA RunnerStep ==
    ASSUME CallsInv, SyncTypeOK', NEW r \in Runner,
           \A q \in Runner \ {r} :
               /\ pc'[q] = pc[q] /\ cfg'[q] = cfg[q]
               /\ todo'[q] = todo[q] /\ value'[q] = value[q] /\ plan'[q] = plan[q],
           \A p \in Path : Evolves(p),
           LoopsInside(r)',
           \A i \in Index : PlanHolds(r, i)',
           \A p \in Path : InItsSnapshot(p)'
    PROVE  CallsInv'
<1>1. ASSUME NEW q \in Runner, q # r
      PROVE  LoopsInside(q)'
  BY <1>1 DEF CallsInv, LoopsInside
<1>2. ASSUME NEW q \in Runner, q # r, NEW i \in Index
      PROVE  PlanHolds(q, i)'
  BY <1>2, PlanKept, EntryType
<1> QED
  BY <1>1, <1>2 DEF CallsInv

LEMMA SnapshotKept ==
    ASSUME CallsInv, NEW p \in Path, vault'[p] = vault[p] \/ vault'[p] = KVDeleted(vault[p])
    PROVE  InItsSnapshot(p)'
<1>1. CASE vault'[p] = vault[p]
  BY <1>1 DEF CallsInv, InItsSnapshot
<1>2. CASE vault'[p] = KVDeleted(vault[p])
  <2>1. vault[p] \in Entry
    BY DEF CallsInv, SyncTypeOK
  <2>2. vault'[p].data = NoData
    BY <1>2, <2>1 DEF KVDeleted, Entry
  <2> QED
    BY <2>2 DEF InItsSnapshot, Managed, StoredFSID, NoData
<1> QED
  BY <1>1, <1>2

\* A call that ends, having written or not.
LEMMA ReturnKeeps ==
    ASSUME CallsInv, NEW r \in Runner, NEW result \in Returned, Return(r, result),
           environment' = environment, vault' \in [Path -> Entry],
           \A p \in Path : Evolves(p) /\ InItsSnapshot(p)'
    PROVE  CallsInv'
<1>1. NoPlan \in [Index -> Planned] /\ NoValues \in [Index -> Value \cup {NoValue}]
  BY DEF NoPlan, NotPlanned, Planned, Absent, Entry, NoValues, Data
<1>2. SyncTypeOK'
  BY <1>1 DEF CallsInv, SyncTypeOK, Return, environment
<1>3. /\ pc'[r] = result /\ todo'[r] = {} /\ plan'[r] = NoPlan
      /\ \A i \in Index : plan'[r][i].action = "none"
  BY DEF Return, CallsInv, SyncTypeOK, NoPlan, NotPlanned
<1>4. LoopsInside(r)'
  BY <1>3 DEF LoopsInside, Returned, Planning
<1>5. \A i \in Index : PlanHolds(r, i)'
  BY <1>3 DEF PlanHolds
<1>6. \A q \in Runner \ {r} :
         /\ pc'[q] = pc[q] /\ cfg'[q] = cfg[q]
         /\ todo'[q] = todo[q] /\ value'[q] = value[q] /\ plan'[q] = plan[q]
  BY DEF Return, CallsInv, SyncTypeOK
<1> QED
  BY <1>2, <1>4, <1>5, <1>6, RunnerStep

LEMMA ReturnReadOnly ==
    ASSUME CallsInv, NEW r \in Runner, NEW result \in Returned, Return(r, result),
           UNCHANGED <<environment, vault>>
    PROVE  CallsInv'
<1>1. \A p \in Path : Evolves(p) /\ InItsSnapshot(p)'
  BY SnapshotKept DEF Evolves
<1>2. vault' \in [Path -> Entry]
  BY DEF CallsInv, SyncTypeOK
<1> QED
  BY <1>1, <1>2, ReturnKeeps

-----------------------------------------------------------------------------
(* The actions of a call.                                                  *)

\* What a step that touches neither services nor other runners leaves to show.
LEMMA LocalStep ==
    ASSUME CallsInv, SyncTypeOK', NEW r \in Runner, UNCHANGED <<environment, vault>>,
           \A q \in Runner \ {r} :
               /\ pc'[q] = pc[q] /\ cfg'[q] = cfg[q]
               /\ todo'[q] = todo[q] /\ value'[q] = value[q] /\ plan'[q] = plan[q],
           LoopsInside(r)',
           \A i \in Index : PlanHolds(r, i)'
    PROVE  CallsInv'
<1>1. \A p \in Path : Evolves(p) /\ InItsSnapshot(p)'
  BY SnapshotKept DEF Evolves
<1> QED
  BY <1>1, RunnerStep

LEMMA InitKeeps ==
    ASSUME SyncInit, ceph \in [Cluster -> [Source -> Value \cup {NoValue}]]
    PROVE  CallsInv
<1>1. NoPlan \in [Index -> Planned] /\ NoValues \in [Index -> Value \cup {NoValue}]
  BY DEF NoPlan, NotPlanned, Planned, Absent, Entry, NoValues, Data
<1>2. [gen |-> 0, archive |-> FALSE] \in Config
  BY CredentialsAssumption DEF Config, Generation
<1>3. Absent \in Entry /\ KVWritten(Absent, Adopted) \in Entry
  BY DEF Absent, Entry, KVWritten, Data
<1>4. SyncTypeOK
  BY <1>1, <1>2, <1>3 DEF SyncInit, SyncTypeOK, Returned, Mode
<1>5. \A r \in Runner : LoopsInside(r)
  BY DEF SyncInit, LoopsInside, NoPlan, NotPlanned, Returned, Planning
<1>6. \A r \in Runner, i \in Index : PlanHolds(r, i)
  BY DEF SyncInit, PlanHolds, NoPlan, NotPlanned
<1>7. ASSUME NEW p \in Path
      PROVE  InItsSnapshot(p)
  <2>1. vault[p].data \in {NoData, Adopted}
    BY DEF SyncInit, Absent, KVWritten
  <2> QED
    BY <2>1 DEF InItsSnapshot, Managed, StoredFSID, NoData, Adopted
<1> QED
  BY <1>4, <1>5, <1>6, <1>7 DEF CallsInv

LEMMA CallKeeps ==
    ASSUME CallsInv, NEW r \in Runner, NEW c \in Config, NEW m \in Mode, Call(r, c, m),
           UNCHANGED <<environment, vault>>
    PROVE  CallsInv'
<1>1. SyncTypeOK'
  BY DEF CallsInv, SyncTypeOK, Call, environment, Busy
<1>2. todo[r] = {} /\ plan[r] = NoPlan
  BY DEF CallsInv, LoopsInside, Call, Returned, Planning
<1>3. /\ pc'[r] = "coordinate" /\ todo'[r] = {} /\ plan'[r] = NoPlan
      /\ \A i \in Index : plan'[r][i].action = "none"
  BY <1>2 DEF Call, CallsInv, SyncTypeOK, NoPlan, NotPlanned
<1>4. LoopsInside(r)'
  BY <1>3 DEF LoopsInside, Planning
<1>5. \A i \in Index : PlanHolds(r, i)'
  BY <1>3 DEF PlanHolds
<1>6. \A q \in Runner \ {r} :
         /\ pc'[q] = pc[q] /\ cfg'[q] = cfg[q]
         /\ todo'[q] = todo[q] /\ value'[q] = value[q] /\ plan'[q] = plan[q]
  BY DEF Call, CallsInv, SyncTypeOK
<1> QED
  BY <1>1, <1>4, <1>5, <1>6, LocalStep

LEMMA CoordinateKeeps ==
    ASSUME CallsInv, NEW r \in Runner, Coordinate(r)
    PROVE  CallsInv'
<1>1. CASE ~Eligible(r)
  <2>1. Return(r, "nil") /\ UNCHANGED <<environment, vault>>
    BY <1>1 DEF Coordinate
  <2> QED
    BY <2>1, ReturnReadOnly DEF Returned
<1>2. CASE Eligible(r)
  <2>1. /\ pc[r] = "coordinate"
        /\ pc' = [pc EXCEPT ![r] = "collect"]
        /\ todo' = [todo EXCEPT ![r] = Included(cfg[r])]
        /\ UNCHANGED <<cfg, mode, value, plan, environment, vault>>
    BY <1>2 DEF Coordinate
  <2>2. SyncTypeOK'
    BY <2>1, IncludedInIndex DEF CallsInv, SyncTypeOK, environment, Busy
  <2>3. LoopsInside(r) /\ plan[r] = NoPlan
    BY <2>1 DEF CallsInv, LoopsInside, Planning
  <2>4. pc'[r] = "collect" /\ todo'[r] = Included(cfg'[r])
    BY <2>1 DEF CallsInv, SyncTypeOK
  <2>5. LoopsInside(r)'
    BY <2>1, <2>3, <2>4 DEF LoopsInside, Planning, Returned
  <2>6. \A i \in Index : PlanHolds(r, i)'
    BY <2>1, <2>3 DEF PlanHolds, NoPlan, NotPlanned
  <2>7. \A q \in Runner \ {r} :
           /\ pc'[q] = pc[q] /\ cfg'[q] = cfg[q]
           /\ todo'[q] = todo[q] /\ value'[q] = value[q] /\ plan'[q] = plan[q]
    BY <2>1 DEF CallsInv, SyncTypeOK
  <2> QED
    BY <2>1, <2>2, <2>5, <2>6, <2>7, LocalStep
<1> QED
  BY <1>1, <1>2

LEMMA ReadCredentialKeeps ==
    ASSUME CallsInv, NEW r \in Runner, ReadCredential(r)
    PROVE  CallsInv'
<1>1. PICK i \in Index :
        /\ NextIn(todo[r], i)
        /\ LET v == ceph[ClusterOf[r]][SourceOf(Active(i, cfg[r]))]
               rest == todo[r] \ {i}
           IN  IF v = NoValue
               THEN Return(r, "error")
               ELSE /\ value' = [value EXCEPT ![r][i] = v]
                    /\ pc' = [pc EXCEPT ![r] = IF rest = {} THEN "read" ELSE @]
                    /\ todo' = [todo EXCEPT ![r] = IF rest = {} THEN Included(cfg[r]) ELSE rest]
                    /\ UNCHANGED <<cfg, mode, plan>>
  BY DEF ReadCredential
<1> DEFINE v == ceph[ClusterOf[r]][SourceOf(Active(i, cfg[r]))]
           rest == todo[r] \ {i}
<1>2. pc[r] = "collect" /\ UNCHANGED <<environment, vault>>
  BY DEF ReadCredential
<1>3. CASE v = NoValue
  <2>1. Return(r, "error")
    BY <1>1, <1>3
  <2> QED
    BY <2>1, <1>2, ReturnReadOnly DEF Returned
<1>4. CASE v # NoValue
  <2>1. /\ value' = [value EXCEPT ![r][i] = v]
        /\ pc' = [pc EXCEPT ![r] = IF rest = {} THEN "read" ELSE @]
        /\ todo' = [todo EXCEPT ![r] = IF rest = {} THEN Included(cfg[r]) ELSE rest]
        /\ UNCHANGED <<cfg, mode, plan>>
    BY <1>1, <1>4
  <2>2. cfg[r] \in Config /\ i \in todo[r]
    BY <1>1 DEF CallsInv, SyncTypeOK, NextIn
  <2>3. v \in Value
    <3>1. SourceOf(Active(i, cfg[r])) \in Source /\ ClusterOf[r] \in Cluster
      BY <2>2, SourceType, SynchronizeAssumption
    <3>2. v \in Value \cup {NoValue}
      BY <3>1 DEF CallsInv, SyncTypeOK
    <3> QED
      BY <3>2, <1>4
  <2>4. /\ value[r] \in [Index -> Value \cup {NoValue}]
        /\ value'[r] = [value[r] EXCEPT ![i] = v]
        /\ pc'[r] = (IF rest = {} THEN "read" ELSE "collect")
        /\ todo'[r] = (IF rest = {} THEN Included(cfg[r]) ELSE rest)
        /\ cfg'[r] = cfg[r] /\ plan'[r] = plan[r]
    BY <1>2, <2>1 DEF CallsInv, SyncTypeOK
  <2>5. SyncTypeOK'
    <3>1. todo' \in [Runner -> SUBSET Index]
      BY <2>1, <2>2, IncludedInIndex DEF CallsInv, SyncTypeOK
    <3>2. value' \in [Runner -> [Index -> Value \cup {NoValue}]]
      BY <2>1, <2>3 DEF CallsInv, SyncTypeOK
    <3>3. pc' \in [Runner -> Busy \cup Returned]
      BY <2>1 DEF CallsInv, SyncTypeOK, Busy
    <3> QED
      BY <1>2, <2>1, <3>1, <3>2, <3>3 DEF CallsInv, SyncTypeOK, environment
  <2>6. LoopsInside(r) /\ plan[r] = NoPlan
    BY <1>2 DEF CallsInv, LoopsInside, Planning
  <2>7. \A j \in Included(cfg[r]) \ rest : value'[r][j] \in Value
    <3>1. Included(cfg[r]) \subseteq Index
      BY <2>2, IncludedInIndex
    <3>2. \A j \in Included(cfg[r]) \ todo[r] : value[r][j] \in Value
      BY <1>2, <2>6 DEF LoopsInside
    <3>3. \A j \in Included(cfg[r]) : value'[r][j] = IF j = i THEN v ELSE value[r][j]
      BY <3>1, <2>4
    <3> QED
      BY <3>2, <3>3, <2>3
  <2>8. LoopsInside(r)'
    <3>1. \A j \in Index : plan[r][j].action = "none"
      BY <2>6 DEF NoPlan, NotPlanned
    <3>2. CASE rest = {}
      BY <3>1, <3>2, <2>4, <2>6, <2>7 DEF LoopsInside, Returned, Planning
    <3>3. CASE rest # {}
      BY <3>1, <3>3, <2>4, <2>6, <2>7 DEF LoopsInside, Returned, Planning
    <3> QED
      BY <3>2, <3>3
  <2>9. \A j \in Index : PlanHolds(r, j)'
    BY <2>4, <2>6 DEF PlanHolds, NoPlan, NotPlanned
  <2>10. \A q \in Runner \ {r} :
            /\ pc'[q] = pc[q] /\ cfg'[q] = cfg[q]
            /\ todo'[q] = todo[q] /\ value'[q] = value[q] /\ plan'[q] = plan[q]
    BY <2>1 DEF CallsInv, SyncTypeOK
  <2> QED
    BY <1>2, <2>5, <2>8, <2>9, <2>10, LocalStep
<1> QED
  BY <1>3, <1>4

\* An item may join the plan of r when it says of the i-th secret what
\* PlanHolds demands.
LEMMA PlanKeeps ==
    ASSUME CallsInv, NEW r \in Runner, pc[r] \in {"read", "metadata"},
           NEW i \in todo[r], NEW item \in Planned, item.action # "none",
           item.action \in {"unchanged", "update"} =>
               /\ item.current.exists
               /\ ~OwnedByAnother(r, item.current.data)
               /\ item.action = "update" => item.current.data # DesiredBy(r, i)
               /\ item.current = vault[PathOf(i, cfg[r])],
           Plan(r, i, item), UNCHANGED <<environment, vault>>
    PROVE  CallsInv'
<1> DEFINE newPlan == [plan[r] EXCEPT ![i] = item]
           rest == todo[r] \ {i}
           drift == {j \in Index : newPlan[j].action \in {"create", "update"}}
<1>1. cfg[r] \in Config /\ i \in Index /\ i \in Included(cfg[r]) /\ LoopsInside(r)
  BY DEF CallsInv, SyncTypeOK, LoopsInside
<1>2. CASE rest = {} /\ (drift = {} \/ mode[r] # "sync")
  <2>1. Return(r, IF drift # {} /\ mode[r] = "check" THEN "drift" ELSE "nil")
    BY <1>2 DEF Plan
  <2> QED
    BY <2>1, ReturnReadOnly DEF Returned
<1>3. CASE ~(rest = {} /\ (drift = {} \/ mode[r] # "sync"))
  <2>1. /\ plan' = [plan EXCEPT ![r] = newPlan]
        /\ todo' = [todo EXCEPT ![r] = IF rest = {} THEN drift ELSE rest]
        /\ pc' = [pc EXCEPT ![r] = IF rest = {} THEN "write" ELSE "read"]
        /\ UNCHANGED <<cfg, mode, value>>
    BY <1>3 DEF Plan
  <2>2. /\ plan[r] \in [Index -> Planned] /\ newPlan \in [Index -> Planned]
        /\ plan'[r] = newPlan
        /\ pc'[r] = (IF rest = {} THEN "write" ELSE "read")
        /\ todo'[r] = (IF rest = {} THEN drift ELSE rest)
        /\ cfg'[r] = cfg[r] /\ value'[r] = value[r]
    BY <1>1, <2>1 DEF CallsInv, SyncTypeOK
  <2>3. \A j \in Index : newPlan[j] = IF j = i THEN item ELSE plan[r][j]
    BY <2>2, <1>1
  <2>4. SyncTypeOK'
    <3>1. todo' \in [Runner -> SUBSET Index]
      BY <2>1 DEF CallsInv, SyncTypeOK
    <3>2. plan' \in [Runner -> [Index -> Planned]]
      BY <2>1, <2>2 DEF CallsInv, SyncTypeOK
    <3>3. pc' \in [Runner -> Busy \cup Returned]
      BY <2>1 DEF CallsInv, SyncTypeOK, Busy
    <3> QED
      BY <2>1, <3>1, <3>2, <3>3 DEF CallsInv, SyncTypeOK, environment
  <2>5. LoopsInside(r)'
    <3>1. \A j \in Index : newPlan[j].action # "none" => j \in Included(cfg[r])
      BY <1>1, <2>3 DEF LoopsInside
    <3>2. drift \subseteq Included(cfg[r])
      BY <3>1
    <3>3. \A j \in Included(cfg[r]) : value[r][j] \in Value
      BY <1>1 DEF LoopsInside, Planning
    <3>4. rest \subseteq Included(cfg[r])
      BY <1>1 DEF LoopsInside
    <3>5. CASE rest = {}
      BY <3>1, <3>2, <3>3, <3>5, <2>2 DEF LoopsInside, Returned, Planning
    <3>6. CASE rest # {}
      BY <3>1, <3>4, <3>3, <3>6, <2>2 DEF LoopsInside, Returned, Planning
    <3> QED
      BY <3>5, <3>6
  <2>6. ASSUME NEW j \in Index
        PROVE  PlanHolds(r, j)'
    <3>1. CASE j # i
      <4>1. plan'[r][j] = plan[r][j]
        BY <3>1, <2>2, <2>3
      <4>2. Evolves(PathOf(j, cfg[r]))
        BY DEF Evolves
      <4> QED
        BY <4>1, <4>2, <2>2, <2>4, PlanKept
    <3>2. CASE j = i
      <4>1. plan'[r][j] = item
        BY <3>2, <2>2, <2>3
      <4>2. DesiredBy(r, i)' = DesiredBy(r, i)
        BY <2>2 DEF DesiredBy, FSID
      <4>3. OwnedByAnother(r, item.current.data)' <=> OwnedByAnother(r, item.current.data)
        BY DEF OwnedByAnother, FSID
      <4>4. item.current.version \in Nat
        BY DEF Planned, Entry
      <4> QED
        BY <4>1, <4>2, <4>3, <4>4, <3>2, <2>2 DEF PlanHolds
    <3> QED
      BY <3>1, <3>2
  <2>7. \A q \in Runner \ {r} :
           /\ pc'[q] = pc[q] /\ cfg'[q] = cfg[q]
           /\ todo'[q] = todo[q] /\ value'[q] = value[q] /\ plan'[q] = plan[q]
    BY <2>1 DEF CallsInv, SyncTypeOK
  <2> QED
    BY <2>4, <2>5, <2>6, <2>7, LocalStep
<1> QED
  BY <1>2, <1>3

LEMMA ReadSecretKeeps ==
    ASSUME CallsInv, NEW r \in Runner, ReadSecret(r)
    PROVE  CallsInv'
<1>1. pc[r] = "read" /\ UNCHANGED <<environment, vault>>
  BY DEF ReadSecret
<1>2. PICK i \in Index :
        /\ NextIn(todo[r], i)
        /\ LET entry == vault[PathOf(i, cfg[r])]
           IN  IF ~entry.exists
               THEN /\ pc' = [pc EXCEPT ![r] = "metadata"]
                    /\ UNCHANGED <<cfg, mode, todo, value, plan>>
               ELSE IF OwnedByAnother(r, entry.data)
                    THEN Return(r, "error")
                    ELSE Plan(r, i, [action |-> ActionFor(entry.data, DesiredBy(r, i)),
                                     current |-> entry])
  BY DEF ReadSecret
<1> DEFINE entry == vault[PathOf(i, cfg[r])]
           item == [action |-> ActionFor(entry.data, DesiredBy(r, i)), current |-> entry]
<1>3. CASE ~entry.exists
  <2>1. pc' = [pc EXCEPT ![r] = "metadata"] /\ UNCHANGED <<cfg, mode, todo, value, plan>>
    BY <1>2, <1>3
  <2>2. SyncTypeOK'
    BY <1>1, <2>1 DEF CallsInv, SyncTypeOK, Busy, environment
  <2>3. LoopsInside(r)'
    <3>1. LoopsInside(r) /\ pc'[r] = "metadata"
      BY <2>1 DEF CallsInv, SyncTypeOK
    <3> QED
      BY <1>1, <2>1, <3>1 DEF LoopsInside, Returned, Planning
  <2>4. \A j \in Index : PlanHolds(r, j)'
    BY <1>1, <2>1, <2>2, PlanKept DEF Evolves
  <2>5. \A q \in Runner \ {r} :
           /\ pc'[q] = pc[q] /\ cfg'[q] = cfg[q]
           /\ todo'[q] = todo[q] /\ value'[q] = value[q] /\ plan'[q] = plan[q]
    BY <2>1 DEF CallsInv, SyncTypeOK
  <2> QED
    BY <1>1, <2>2, <2>3, <2>4, <2>5, LocalStep
<1>4. CASE entry.exists /\ OwnedByAnother(r, entry.data)
  <2>1. Return(r, "error")
    BY <1>2, <1>4
  <2> QED
    BY <1>1, <2>1, ReturnReadOnly DEF Returned
<1>5. CASE entry.exists /\ ~OwnedByAnother(r, entry.data)
  <2>1. Plan(r, i, item) /\ i \in todo[r]
    BY <1>2, <1>5 DEF NextIn
  <2>2. item \in Planned
    BY EntryType DEF Planned, ActionFor
  <2>3. /\ item.action \in {"unchanged", "update"}
        /\ item.action = "update" => entry.data # DesiredBy(r, i)
    BY DEF ActionFor
  <2> HIDE DEF item
  <2>4. item.current = entry
    BY DEF item
  <2> QED
    BY <1>1, <1>5, <2>1, <2>2, <2>3, <2>4, PlanKeeps
<1> QED
  BY <1>3, <1>4, <1>5

LEMMA ReadMetadataKeeps ==
    ASSUME CallsInv, NEW r \in Runner, ReadMetadata(r)
    PROVE  CallsInv'
<1>1. pc[r] = "metadata" /\ UNCHANGED <<environment, vault>>
  BY DEF ReadMetadata
<1> DEFINE item(i) == [action |-> "create",
                       current |-> [Absent EXCEPT !.version = vault[PathOf(i, cfg[r])].version]]
<1>2. PICK i \in Index : NextIn(todo[r], i) /\ Plan(r, i, item(i))
  BY DEF ReadMetadata
<1>3. item(i) \in Planned /\ item(i).action = "create" /\ i \in todo[r]
  <2>1. vault[PathOf(i, cfg[r])].version \in Nat
    BY EntryType DEF Entry
  <2> QED
    BY <1>2, <2>1 DEF Planned, Absent, Entry, Data, NextIn
<1> HIDE DEF item
<1> QED
  BY <1>1, <1>2, <1>3, PlanKeeps

\* What a write that Vault applies does to the secrets.
LEMMA AppliesFacts ==
    ASSUME CallsInv, NEW r \in Runner, pc[r] = "write", NEW i \in todo[r], Applies(r, i)
    PROVE  /\ vault' \in [Path -> Entry]
           /\ \A p \in Path : Evolves(p) /\ InItsSnapshot(p)'
<1> DEFINE w == PathOf(i, cfg[r])
<1>1. i \in Index /\ i \in Included(cfg[r]) /\ pc[r] \in Planning
  BY DEF CallsInv, SyncTypeOK, LoopsInside, Planning
<1>2. w \in Path /\ vault[w] \in Entry
  BY <1>1, EntryType
<1>3. vault' = [vault EXCEPT ![w] = KVWritten(vault[w], DesiredBy(r, i))]
  BY DEF Applies
<1>4. /\ KVWritten(vault[w], DesiredBy(r, i)) \in Entry
      /\ KVWritten(vault[w], DesiredBy(r, i)).version > vault[w].version
  <2>1. DesiredBy(r, i) \in Data
    BY <1>1, DesiredByFacts
  <2>2. vault[w].version \in Nat
    BY <1>2 DEF Entry
  <2> QED
    BY <2>1, <2>2 DEF KVWritten, Entry
<1>5. vault' \in [Path -> Entry]
  BY <1>3, <1>4 DEF CallsInv, SyncTypeOK
<1>6. /\ vault'[w] = KVWritten(vault[w], DesiredBy(r, i))
      /\ \A p \in Path : p # w => vault'[p] = vault[p]
  BY <1>2, <1>3 DEF CallsInv, SyncTypeOK
<1>7. \A p \in Path : Evolves(p)
  BY <1>4, <1>6 DEF Evolves
<1>8. ASSUME NEW p \in Path, p = w
      PROVE  InItsSnapshot(p)'
  <2>1. vault'[p].data = DesiredBy(r, i)
    BY <1>6, <1>8 DEF KVWritten
  <2>2. /\ StoredFSID(DesiredBy(r, i)) = FSID(r)
        /\ DesiredBy(r, i).tag.fsid = FSID(r)
        /\ <<w, DesiredBy(r, i).fields>> \in DesiredBy(r, i).tag.parts
    BY <1>1, DesiredByFacts
  <2> QED
    BY <2>1, <2>2, <1>8 DEF InItsSnapshot, StoredFSID
<1>9. ASSUME NEW p \in Path, p # w
      PROVE  InItsSnapshot(p)'
  BY <1>6, <1>9, SnapshotKept
<1> QED
  BY <1>5, <1>7, <1>8, <1>9

LEMMA WriteSecretKeeps ==
    ASSUME CallsInv, NEW r \in Runner, WriteSecret(r)
    PROVE  CallsInv'
<1>1. pc[r] = "write" /\ UNCHANGED environment
  BY DEF WriteSecret
<1>2. PICK i \in Index :
        /\ NextIn(todo[r], i)
        /\ \/ /\ Applies(r, i)
              /\ IF todo[r] = {i}
                 THEN Return(r, "nil")
                 ELSE /\ todo' = [todo EXCEPT ![r] = @ \ {i}]
                      /\ UNCHANGED <<pc, cfg, mode, value, plan>>
           \/ /\ Refused(r, i)
              /\ Return(r, "error")
              /\ UNCHANGED vault
  BY DEF WriteSecret
<1>3. i \in todo[r]
  BY <1>2 DEF NextIn
<1>4. CASE Refused(r, i) /\ Return(r, "error") /\ UNCHANGED vault
  BY <1>1, <1>4, ReturnReadOnly DEF Returned
<1>5. CASE Applies(r, i) /\ todo[r] = {i} /\ Return(r, "nil")
  <2>1. /\ vault' \in [Path -> Entry]
        /\ \A p \in Path : Evolves(p) /\ InItsSnapshot(p)'
    BY <1>1, <1>3, <1>5, AppliesFacts
  <2> QED
    BY <1>1, <1>5, <2>1, ReturnKeeps DEF Returned
<1>6. CASE /\ Applies(r, i) /\ todo[r] # {i}
           /\ todo' = [todo EXCEPT ![r] = @ \ {i}]
           /\ UNCHANGED <<pc, cfg, mode, value, plan>>
  <2>1. /\ vault' \in [Path -> Entry]
        /\ \A p \in Path : Evolves(p) /\ InItsSnapshot(p)'
    BY <1>1, <1>3, <1>6, AppliesFacts
  <2>2. SyncTypeOK'
    BY <1>1, <1>6, <2>1 DEF CallsInv, SyncTypeOK, environment
  <2>3. LoopsInside(r)'
    <3>1. LoopsInside(r) /\ todo'[r] = todo[r] \ {i}
      BY <1>6 DEF CallsInv, SyncTypeOK
    <3> QED
      BY <1>1, <1>6, <3>1 DEF LoopsInside, Returned, Planning
  <2>4. \A j \in Index : PlanHolds(r, j)'
    BY <1>6, <2>1, <2>2, PlanKept, EntryType
  <2>5. \A q \in Runner \ {r} :
           /\ pc'[q] = pc[q] /\ cfg'[q] = cfg[q]
           /\ todo'[q] = todo[q] /\ value'[q] = value[q] /\ plan'[q] = plan[q]
    BY <1>6 DEF CallsInv, SyncTypeOK
  <2> QED
    BY <2>1, <2>2, <2>3, <2>4, <2>5, RunnerStep
<1> QED
  BY <1>2, <1>4, <1>5, <1>6

LEMMA AnswerLostKeeps ==
    ASSUME CallsInv, NEW r \in Runner, AnswerLost(r)
    PROVE  CallsInv'
<1>1. /\ pc[r] = "write" /\ Return(r, "error") /\ UNCHANGED environment
      /\ \E i \in todo[r] : Applies(r, i)
  BY DEF AnswerLost, NextIn
<1>2. /\ vault' \in [Path -> Entry]
      /\ \A p \in Path : Evolves(p) /\ InItsSnapshot(p)'
  BY <1>1, AppliesFacts
<1> QED
  BY <1>1, <1>2, ReturnKeeps DEF Returned

LEMMA SyncStepKeeps ==
    ASSUME CallsInv, NEW r \in Runner, SyncStep(r)
    PROVE  CallsInv'
BY CoordinateKeeps, ReadCredentialKeeps, ReadSecretKeeps, ReadMetadataKeeps,
   WriteSecretKeeps DEF SyncStep

\* The call of q is left as it is.
Still(q) ==
    /\ pc'[q] = pc[q] /\ cfg'[q] = cfg[q] /\ mode'[q] = mode[q]
    /\ todo'[q] = todo[q] /\ value'[q] = value[q] /\ plan'[q] = plan[q]

\* The calls share no variable.
LEMMA OthersStay ==
    ASSUME CallsInv, NEW r \in Runner, NEW q \in Runner \ {r},
           \/ SyncStep(r) \/ CallFails(r) \/ AnswerLost(r)
           \/ \E c \in Config, m \in Mode : Call(r, c, m)
    PROVE  Still(q)
<1> USE DEF CallsInv, SyncTypeOK, Still
<1>1. ASSUME NEW result, Return(r, result)
      PROVE  Still(q)
  BY <1>1 DEF Return
<1>2. CASE Coordinate(r)
  BY <1>1, <1>2 DEF Coordinate
<1>3. CASE ReadCredential(r)
  BY <1>1, <1>3 DEF ReadCredential
<1>4. ASSUME NEW i \in Index, NEW item, Plan(r, i, item)
      PROVE  Still(q)
  BY <1>1, <1>4 DEF Plan
<1>5. CASE ReadSecret(r)
  BY <1>1, <1>4, <1>5 DEF ReadSecret
<1>6. CASE ReadMetadata(r)
  BY <1>1, <1>4, <1>6 DEF ReadMetadata
<1>7. CASE WriteSecret(r)
  BY <1>1, <1>7 DEF WriteSecret
<1>8. CASE CallFails(r) \/ AnswerLost(r)
  BY <1>1, <1>8 DEF CallFails, AnswerLost
<1>9. CASE \E c \in Config, m \in Mode : Call(r, c, m)
  BY <1>9 DEF Call
<1> QED
  BY <1>2, <1>3, <1>5, <1>6, <1>7, <1>8, <1>9 DEF SyncStep

LEMMA CallFailsKeeps ==
    ASSUME CallsInv, NEW r \in Runner, CallFails(r)
    PROVE  CallsInv'
BY ReturnReadOnly DEF CallFails, Returned

-----------------------------------------------------------------------------
(* The environment.                                                        *)

\* A step that leaves every call alone.
LEMMA OutsideStep ==
    ASSUME CallsInv, SyncTypeOK', UNCHANGED locals,
           \A p \in Path : Evolves(p) /\ InItsSnapshot(p)'
    PROVE  CallsInv'
<1>1. \A r \in Runner : LoopsInside(r)'
  BY DEF CallsInv, LoopsInside, locals
<1>2. \A r \in Runner, i \in Index : PlanHolds(r, i)'
  BY PlanKept, EntryType DEF locals
<1> QED
  BY <1>1, <1>2 DEF CallsInv

LEMMA FailoverKeeps ==
    ASSUME CallsInv, NEW c \in Cluster, Failover(c)
    PROVE  CallsInv'
<1>1. HostsOf(c) \subseteq Host
  BY SynchronizeAssumption DEF HostsOf
<1>2. SyncTypeOK'
  BY <1>1 DEF Failover, CallsInv, SyncTypeOK, locals
<1>3. \A p \in Path : Evolves(p) /\ InItsSnapshot(p)'
  BY SnapshotKept DEF Failover, Evolves
<1> QED
  BY <1>2, <1>3, OutsideStep DEF Failover

LEMMA CephChangesKeeps ==
    ASSUME CallsInv, NEW c \in Cluster, CephChanges(c)
    PROVE  CallsInv'
<1>1. SyncTypeOK'
  BY DEF CephChanges, CallsInv, SyncTypeOK, locals
<1>2. \A p \in Path : Evolves(p) /\ InItsSnapshot(p)'
  BY SnapshotKept DEF CephChanges, Evolves
<1> QED
  BY <1>1, <1>2, OutsideStep DEF CephChanges

LEMMA SecretDeletedKeeps ==
    ASSUME CallsInv, NEW p \in Path, SecretDeleted(p)
    PROVE  CallsInv'
<1>1. vault[p] \in Entry /\ KVDeleted(vault[p]) \in Entry
  BY DEF CallsInv, SyncTypeOK, KVDeleted, Entry, Data
<1>2. vault' = [vault EXCEPT ![p] = KVDeleted(vault[p])]
  BY DEF SecretDeleted
<1>3. SyncTypeOK'
  BY <1>1, <1>2 DEF SecretDeleted, CallsInv, SyncTypeOK, environment, locals
<1>4. \A q \in Path : vault'[q] = vault[q] \/ vault'[q] = KVDeleted(vault[q])
  BY <1>2 DEF CallsInv, SyncTypeOK
<1>5. \A q \in Path : Evolves(q) /\ InItsSnapshot(q)'
  BY <1>4, SnapshotKept DEF Evolves
<1> QED
  BY <1>3, <1>5, OutsideStep DEF SecretDeleted

LEMMA StutterKeeps ==
    ASSUME CallsInv, UNCHANGED syncVars
    PROVE  CallsInv'
<1>1. SyncTypeOK'
  BY DEF CallsInv, SyncTypeOK, syncVars
<1>2. \A p \in Path : Evolves(p) /\ InItsSnapshot(p)'
  BY SnapshotKept DEF Evolves, syncVars
<1> QED
  BY <1>1, <1>2, OutsideStep DEF syncVars, locals
=============================================================================
