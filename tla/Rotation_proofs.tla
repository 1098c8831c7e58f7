---------------------------- MODULE Rotation_proofs ----------------------------
(***************************************************************************)
(* The safety properties of Rotation, for any number of rotators, service  *)
(* runners, credentials, generations, attempts and faults.                 *)
(*                                                                         *)
(* KeysInv says that what a call has read, and what Vault holds, are keys  *)
(* that Ceph knows; it needs nothing of the order in which a rotation does *)
(* things.  ArchivesInv relates the stage of a rotation, and the place in  *)
(* its call of synchronize, to the archives that exist; it needs that a    *)
(* call of a rotation which returns nil has done its work (AsksAsActive).  *)
(***************************************************************************)
EXTENDS Rotation, Synchronize_proofs

USE SynchronizeAssumption, RotationAssumption

\* The types of the variables of a command; a rotation has a next generation.
CommandTypeOK ==
    /\ config \in Generation
    /\ stage \in [Rotator -> Stage]
    /\ from \in [Rotator -> Generation]
    /\ missing \in [Rotator -> SUBSET Index]
    /\ attempts \in 0..MaxAttempts
    /\ faults \in 0..MaxFaults
    /\ \A x \in Rotator : stage[x] # "idle" => from[x] < MaxGeneration

BaseInv == CallsInv /\ CommandTypeOK

-----------------------------------------------------------------------------
(* Identities.                                                             *)

LEMMA GenerationFacts ==
    ASSUME NEW g \in Generation
    PROVE  /\ g \in Nat /\ 0 \in Generation
           /\ ArchiveConfig(g) \in Config /\ PlainConfig(g) \in Config
           /\ g < MaxGeneration => g + 1 \in Generation
BY CredentialsAssumption DEF Generation, Config, ArchiveConfig, PlainConfig

\* The identity of the i-th credential in generation g.
LEMMA ActiveFacts ==
    ASSUME NEW i \in Index, NEW g \in Generation
    PROVE  LET c == ActiveCredential(Credentials[i], g)
           IN  /\ c.kind = Credentials[i].kind
               /\ i \in StandardIndex => c.entity.gen = g
               /\ (i \in StandardIndex /\ c.kind \in CSIKinds) =>
                      PublishedUser(c) = UserOf(i, c.entity)
<1> DEFINE c == ActiveCredential(Credentials[i], g)
           d == Credentials[i]
<1>1. d \in CredentialSpec /\ g \in Nat
  BY SpecsAssumption, GenerationFacts
<1>2. CASE g = 0 \/ ~RookCephXProfile(d.entity)
  <2>1. c = d
    BY <1>2 DEF ActiveCredential
  <2>2. i \in StandardIndex => g = 0 /\ d.entity.gen = 0
    BY <1>2 DEF StandardIndex, RookCephXProfile
  <2>3. c.kind \in CSIKinds => PublishedUser(c) = IF c.userID = NoUser THEN TrimClient(c.entity) ELSE c.userID
    BY DEF PublishedUser
  <2> QED
    BY <2>1, <2>2, <2>3 DEF UserOf
<1>3. CASE g # 0 /\ RookCephXProfile(d.entity)
  <2> DEFINE named == [d.entity EXCEPT !.gen = g]
  <2>1. c = [d EXCEPT !.entity = named, !.userID = TrimClient(named)]
    BY <1>3 DEF ActiveCredential
  <2>2. named.gen = g /\ c.entity = named /\ c.userID = TrimClient(named) /\ c.kind = d.kind
    BY <1>1, <2>1 DEF CredentialSpec
  <2>3. TrimClient(named) # NoUser
    BY <1>3, <2>2 DEF TrimClient, NoUser
  <2>4. c.kind \in CSIKinds => PublishedUser(c) = TrimClient(named)
    BY <2>2, <2>3 DEF PublishedUser
  <2> QED
    BY <1>3, <2>2, <2>4 DEF UserOf
<1> QED
  BY <1>2, <1>3

\* Where its key is asked for.
LEMMA ActiveSource ==
    ASSUME NEW i \in Index, NEW g \in Generation, CephX(i)
    PROVE  LET c == ActiveCredential(Credentials[i], g)
           IN  /\ SourceOf(c) = [kind |-> "auth", entity |-> c.entity]
               /\ SourceOf(c) \in Source
<1>1. ActiveCredential(Credentials[i], g).kind = Credentials[i].kind
  BY ActiveFacts
<1>2. Credentials[i].kind \notin MetadataKinds /\ Credentials[i].kind # "rook-rgw-admin"
  BY DEF CephX, SourceOf, MetadataKinds
<1>3. SourceOf(ActiveCredential(Credentials[i], g)) \in Source
  BY DEF Source
<1>4. \A c : (c.kind \notin MetadataKinds /\ c.kind # "rook-rgw-admin") =>
               SourceOf(c) = [kind |-> "auth", entity |-> c.entity]
  BY DEF SourceOf
<1> QED
  BY <1>1, <1>2, <1>3, <1>4

\* What r writes for its i-th credential.
LEMMA WrittenFields ==
    ASSUME BaseInv, NEW r \in Runner, NEW i \in Index
    PROVE  LET d == DesiredBy(r, i)
           IN  /\ d.fields.fsid = ClusterOf[r]
               /\ d.fields.entity = Active(i, cfg[r]).entity
               /\ d.fields.kind = Active(i, cfg[r]).kind
               /\ d.fields.user = PublishedUser(Active(i, cfg[r]))
               /\ d.fields.value = value[r][i]
BY DEF DesiredBy, Desired, RenderCredential, FSID

LEMMA ConfigType ==
    ASSUME BaseInv, NEW r \in Runner
    PROVE  /\ cfg[r] \in Config /\ cfg[r].gen \in Generation /\ cfg[r].archive \in BOOLEAN
           /\ \A i \in Index : Active(i, cfg[r]) = ActiveCredential(Credentials[i], cfg[r].gen)
BY DEF BaseInv, CallsInv, SyncTypeOK, Config, Active

\* The credential a path belongs to.
LEMMA OwnerOfPath ==
    ASSUME NEW i \in Index, NEW j \in Index, NEW c \in Config,
           PathOf(j, c).name = Credentials[i].path
    PROVE  j = i
BY CredentialsAssumption DEF PathOf

-----------------------------------------------------------------------------
(* What a step can do to the calls and to the secrets, whoever takes it.   *)

\* r gives up its values, reads one, or keeps them for the same configuration.
ValueStep(r) ==
    \/ value'[r] = NoValues
    \/ /\ pc[r] = "collect" /\ cfg'[r] = cfg[r] /\ UNCHANGED ceph
       /\ \E i \in Index : LET v == ceph[ClusterOf[r]][SourceOf(Active(i, cfg[r]))]
                           IN  v # NoValue /\ value'[r] = [value[r] EXCEPT ![i] = v]
    \/ pc[r] \in Busy /\ cfg'[r] = cfg[r] /\ value'[r] = value[r]

\* The secret at p is written by r, or left alone.
WrittenBy(r, p) ==
    \/ vault'[p] = vault[p]
    \/ \E i \in Included(cfg[r]) :
        /\ pc[r] = "write" /\ p = PathOf(i, cfg[r])
        /\ vault'[p] = KVWritten(vault[p], DesiredBy(r, i))

LEMMA AppliesWrites ==
    ASSUME BaseInv, NEW r \in Runner, pc[r] = "write", NEW i \in todo[r], Applies(r, i)
    PROVE  \A p \in Path : WrittenBy(r, p)
<1>1. i \in Index /\ i \in Included(cfg[r])
  BY DEF BaseInv, CallsInv, SyncTypeOK, LoopsInside
<1>2. PathOf(i, cfg[r]) \in Path /\ vault \in [Path -> Entry]
  BY <1>1, EntryType DEF BaseInv, CallsInv, SyncTypeOK
<1>3. \A p \in Path : vault'[p] = IF p = PathOf(i, cfg[r])
                                  THEN KVWritten(vault[p], DesiredBy(r, i)) ELSE vault[p]
  BY <1>2 DEF Applies
<1> QED
  BY <1>1, <1>3 DEF WrittenBy

LEMMA ReturnShape ==
    ASSUME BaseInv, NEW r \in Runner, NEW result, Return(r, result)
    PROVE  /\ pc'[r] = result /\ value'[r] = NoValues
           /\ cfg' = cfg /\ mode' = mode
           /\ \A q \in Runner \ {r} : Still(q)
BY DEF Return, Still, BaseInv, CallsInv, SyncTypeOK

\* A step of r by itself.
LEMMA SyncShape ==
    ASSUME BaseInv, NEW r \in Runner, SyncStep(r)
    PROVE  /\ UNCHANGED environment /\ cfg' = cfg /\ mode' = mode
           /\ pc[r] \in Busy
           /\ pc'[r] # "coordinate"
           /\ pc'[r] \in Returned => value'[r] = NoValues
           /\ ValueStep(r)
           /\ \A q \in Runner \ {r} : Still(q)
           /\ \A p \in Path : WrittenBy(r, p)
<1> DEFINE Shape ==
           /\ UNCHANGED environment /\ cfg' = cfg /\ mode' = mode
           /\ pc[r] \in Busy
           /\ pc'[r] # "coordinate"
           /\ pc'[r] \in Returned => value'[r] = NoValues
           /\ ValueStep(r)
           /\ \A q \in Runner \ {r} : Still(q)
           /\ \A p \in Path : WrittenBy(r, p)
<1>1. ASSUME NEW result \in Returned, Return(r, result), pc[r] \in Busy,
             UNCHANGED environment, \A p \in Path : WrittenBy(r, p)
      PROVE  Shape
  BY <1>1, ReturnShape DEF ValueStep, Returned
<1>2. ASSUME NEW k \in Busy \ {"coordinate"}, pc[r] \in Busy, pc'[r] = k,
             UNCHANGED <<environment, cfg, mode, value>>,
             \A q \in Runner \ {r} : Still(q), \A p \in Path : WrittenBy(r, p)
      PROVE  Shape
  BY <1>2 DEF ValueStep, Busy, Returned
<1>3. vault' = vault => \A p \in Path : WrittenBy(r, p)
  BY DEF WrittenBy
<1>4. CASE Coordinate(r)
  <2>1. pc[r] \in Busy /\ UNCHANGED <<environment, vault>>
    BY <1>4 DEF Coordinate, Busy
  <2>2. CASE Eligible(r)
    <3>1. /\ pc' = [pc EXCEPT ![r] = "collect"] /\ UNCHANGED <<cfg, mode, value, plan>>
          /\ todo' = [todo EXCEPT ![r] = Included(cfg[r])]
      BY <1>4, <2>2 DEF Coordinate
    <3>2. pc'[r] = "collect" /\ \A q \in Runner \ {r} : Still(q)
      BY <3>1 DEF Still, BaseInv, CallsInv, SyncTypeOK
    <3>3. "collect" \in Busy \ {"coordinate"}
      BY DEF Busy
    <3> QED
      BY <1>2, <1>3, <2>1, <3>1, <3>2, <3>3
  <2>3. CASE ~Eligible(r)
    BY <1>1, <1>3, <1>4, <2>1, <2>3 DEF Coordinate, Returned
  <2> QED
    BY <2>2, <2>3
<1>5. CASE ReadCredential(r)
  <2>1. pc[r] = "collect" /\ pc[r] \in Busy /\ UNCHANGED <<environment, vault>>
    BY <1>5 DEF ReadCredential, Busy
  <2>2. PICK i \in Index :
          /\ NextIn(todo[r], i)
          /\ LET v == ceph[ClusterOf[r]][SourceOf(Active(i, cfg[r]))]
                 rest == todo[r] \ {i}
             IN  IF v = NoValue
                 THEN Return(r, "error")
                 ELSE /\ value' = [value EXCEPT ![r][i] = v]
                      /\ pc' = [pc EXCEPT ![r] = IF rest = {} THEN "read" ELSE @]
                      /\ todo' = [todo EXCEPT ![r] = IF rest = {} THEN Included(cfg[r]) ELSE rest]
                      /\ UNCHANGED <<cfg, mode, plan>>
    BY <1>5 DEF ReadCredential
  <2> DEFINE v == ceph[ClusterOf[r]][SourceOf(Active(i, cfg[r]))]
             rest == todo[r] \ {i}
  <2>3. CASE v = NoValue
    BY <1>1, <1>3, <2>1, <2>2, <2>3 DEF Returned
  <2>4. CASE v # NoValue
    <3>1. /\ value' = [value EXCEPT ![r][i] = v]
          /\ pc' = [pc EXCEPT ![r] = IF rest = {} THEN "read" ELSE @]
          /\ todo' = [todo EXCEPT ![r] = IF rest = {} THEN Included(cfg[r]) ELSE rest]
          /\ UNCHANGED <<cfg, mode, plan>>
      BY <2>2, <2>4
    <3>2. /\ value'[r] = [value[r] EXCEPT ![i] = v] /\ pc'[r] \in {"read", "collect"}
          /\ \A q \in Runner \ {r} : Still(q)
      BY <2>1, <3>1 DEF Still, BaseInv, CallsInv, SyncTypeOK
    <3>3. ValueStep(r)
      BY <2>1, <2>4, <3>1, <3>2 DEF ValueStep, environment
    <3> QED
      BY <1>3, <2>1, <3>1, <3>2, <3>3 DEF Returned
  <2> QED
    BY <2>3, <2>4
<1>6. ASSUME NEW i \in Index, NEW item, Plan(r, i, item), pc[r] \in Busy,
             UNCHANGED <<environment, vault>>
      PROVE  Shape
  <2>1. ASSUME NEW result \in {"drift", "nil"}, Return(r, result)
        PROVE  Shape
    BY <1>1, <1>3, <1>6, <2>1 DEF Returned
  <2>2. ASSUME NEW S, NEW k \in {"write", "read"}, NEW newPlan,
               /\ plan' = [plan EXCEPT ![r] = newPlan]
               /\ todo' = [todo EXCEPT ![r] = S]
               /\ pc' = [pc EXCEPT ![r] = k]
               /\ UNCHANGED <<cfg, mode, value>>
        PROVE  Shape
    <3>1. pc'[r] = k /\ k \in Busy \ {"coordinate"} /\ \A q \in Runner \ {r} : Still(q)
      BY <2>2 DEF Still, Busy, BaseInv, CallsInv, SyncTypeOK
    <3> QED
      BY <1>2, <1>3, <1>6, <2>2, <3>1
  <2> QED
    BY <1>6, <2>1, <2>2 DEF Plan
<1>7. CASE ReadSecret(r)
  <2>1. pc[r] \in Busy /\ UNCHANGED <<environment, vault>>
    BY <1>7 DEF ReadSecret, Busy
  <2>2. ASSUME pc' = [pc EXCEPT ![r] = "metadata"], UNCHANGED <<cfg, mode, todo, value, plan>>
        PROVE  Shape
    <3>1. pc'[r] = "metadata" /\ "metadata" \in Busy \ {"coordinate"}
          /\ \A q \in Runner \ {r} : Still(q)
      BY <2>2 DEF Still, Busy, BaseInv, CallsInv, SyncTypeOK
    <3> QED
      BY <1>2, <1>3, <2>1, <2>2, <3>1
  <2>3. Return(r, "error") => Shape
    BY <1>1, <1>3, <2>1 DEF Returned
  <2> QED
    BY <1>6, <1>7, <2>1, <2>2, <2>3 DEF ReadSecret
<1>8. CASE ReadMetadata(r)
  BY <1>6, <1>8 DEF ReadMetadata, Busy
<1>9. CASE WriteSecret(r)
  <2>1. pc[r] = "write" /\ pc[r] \in Busy /\ UNCHANGED environment
    BY <1>9 DEF WriteSecret, Busy
  <2>2. PICK i \in Index :
        /\ NextIn(todo[r], i)
        /\ \/ /\ Applies(r, i)
              /\ IF todo[r] = {i}
                 THEN Return(r, "nil")
                 ELSE /\ todo' = [todo EXCEPT ![r] = @ \ {i}]
                      /\ UNCHANGED <<pc, cfg, mode, value, plan>>
           \/ /\ Refused(r, i)
              /\ Return(r, "error")
              /\ UNCHANGED vault
    BY <1>9 DEF WriteSecret
  <2>3. i \in todo[r]
    BY <2>2 DEF NextIn
  <2>4. Applies(r, i) => \A p \in Path : WrittenBy(r, p)
    BY <2>1, <2>3, AppliesWrites
  <2>5. ASSUME todo' = [todo EXCEPT ![r] = @ \ {i}], UNCHANGED <<pc, cfg, mode, value, plan>>,
               Applies(r, i)
        PROVE  Shape
    <3>1. pc'[r] = "write" /\ "write" \in Busy \ {"coordinate"} /\ \A q \in Runner \ {r} : Still(q)
      BY <2>1, <2>5 DEF Still, Busy, BaseInv, CallsInv, SyncTypeOK
    <3> QED
      BY <1>2, <2>1, <2>4, <2>5, <3>1
  <2> QED
    BY <1>1, <1>3, <2>1, <2>2, <2>4, <2>5 DEF Returned
<1> QED
  BY <1>4, <1>5, <1>7, <1>8, <1>9 DEF SyncStep

\* A step of one runner, or of none, and what it does to the cluster: a key
\* that exists stays, and does not change unless KeysChange.
KeysStay ==
    \A c \in Cluster, s \in Source :
        ceph[c][s] # NoValue =>
            /\ ceph'[c][s] # NoValue
            /\ ~KeysChange => ceph'[c][s] = ceph[c][s]

\* The call of r starts with configuration c.
Starts(r, c) ==
    /\ pc[r] \in Returned /\ pc'[r] = "coordinate"
    /\ cfg'[r] = c /\ mode'[r] = "sync" /\ value'[r] = value[r]

\* What a step does to the call of r.
CallStep(r) ==
    \/ Still(r)
    \/ \E c \in Config : Starts(r, c)
    \/ /\ cfg'[r] = cfg[r] /\ mode'[r] = mode[r] /\ pc'[r] # "coordinate"
       /\ pc'[r] \in Returned => value'[r] = NoValues
       /\ ValueStep(r)

Step ==
    /\ KeysStay
    /\ \A r \in Runner : CallStep(r)
    /\ \A p \in Path : vault'[p] = vault[p] \/ \E r \in Runner : WrittenBy(r, p)

LEMMA CallShape ==
    ASSUME BaseInv, NEW r \in Runner, NEW c \in Config, Call(r, c, "sync")
    PROVE  Starts(r, c) /\ \A q \in Runner \ {r} : Still(q)
BY DEF Call, Starts, Still, BaseInv, CallsInv, SyncTypeOK

LEMMA EnvironmentStays == UNCHANGED environment => KeysStay
BY DEF environment, KeysStay

\* A rotation is about two generations.
LEMMA TwoGenerations ==
    ASSUME BaseInv, NEW x \in Rotator, stage[x] # "idle"
    PROVE  from[x] \in Generation /\ from[x] + 1 \in Generation
BY GenerationFacts DEF BaseInv, CommandTypeOK

LEMMA SourceIn ==
    ASSUME NEW i \in Index, NEW g \in Generation
    PROVE  SourceOf(ActiveCredential(Credentials[i], g)) \in Source
BY DEF Source

\* Ceph gets one key.
LEMMA OneKey ==
    ASSUME BaseInv, NEW d \in Cluster, NEW t \in Source, NEW v \in Value,
           ceph' = [ceph EXCEPT ![d][t] = v], KeysChange \/ ceph[d][t] = NoValue
    PROVE  KeysStay /\ ceph' \in [Cluster -> [Source -> Value \cup {NoValue}]]
<1>1. ceph \in [Cluster -> [Source -> Value \cup {NoValue}]] /\ v # NoValue
  BY CredentialsAssumption DEF BaseInv, CallsInv, SyncTypeOK
<1>2. \A c \in Cluster, s \in Source :
        ceph'[c][s] = IF c = d /\ s = t THEN v ELSE ceph[c][s]
  BY <1>1
<1> QED
  BY <1>1, <1>2 DEF KeysStay

LEMMA CreateKeyFacts ==
    ASSUME BaseInv, NEW x \in Rotator, CreateKey(x)
    PROVE  /\ UNCHANGED <<vault, locals>>
           /\ KeysStay /\ ceph' \in [Cluster -> [Source -> Value \cup {NoValue}]]
<1>1. UNCHANGED <<vault, locals>> /\ stage[x] # "idle"
  BY DEF CreateKey
<1>2. PICK i \in Index :
        LET c == ClusterOf[x]
            s == SourceOf(ActiveCredential(Credentials[i], from[x] + 1))
        IN  IF ceph[c][s] = NoValue
            THEN \E v \in Value : ceph' = [ceph EXCEPT ![c][s] = v]
            ELSE UNCHANGED ceph
  BY DEF CreateKey
<1> DEFINE s == SourceOf(ActiveCredential(Credentials[i], from[x] + 1))
<1>3. ClusterOf[x] \in Cluster
  OBVIOUS
<1>4. s \in Source
  BY <1>1, TwoGenerations, SourceIn
<1> HIDE DEF s
<1>5. \/ UNCHANGED ceph
      \/ /\ ceph[ClusterOf[x]][s] = NoValue
         /\ \E v \in Value : ceph' = [ceph EXCEPT ![ClusterOf[x]][s] = v]
  BY <1>2 DEF s
<1>6. CASE UNCHANGED ceph
  BY <1>1, <1>6 DEF KeysStay, BaseInv, CallsInv, SyncTypeOK
<1> QED
  BY <1>1, <1>3, <1>4, <1>5, <1>6, OneKey

LEMMA LocalsStay == UNCHANGED locals => \A q \in Runner : CallStep(q)
BY DEF locals, CallStep, Still

\* A call ends before its work is done.
LEMMA FailShape ==
    ASSUME BaseInv, NEW r \in Runner, pc[r] \in Busy, Return(r, "error")
    PROVE  \A q \in Runner : CallStep(q)
BY ReturnShape DEF CallStep, ValueStep, Returned

LEMMA EveryStep == BaseInv /\ [Next]_vars => Step
<1> SUFFICES ASSUME BaseInv, [Next]_vars
             PROVE  Step
  OBVIOUS
<1>1. ASSUME NEW r \in Runner, NEW c \in Config, Call(r, c, "sync"), UNCHANGED <<environment, vault>>
      PROVE  Step
  BY <1>1, CallShape, EnvironmentStays DEF Step, CallStep
<1>2. ASSUME UNCHANGED <<vault, locals>>, KeysStay
      PROVE  Step
  BY <1>2, LocalsStay DEF Step
<1>3. config \in Generation
  BY DEF BaseInv, CommandTypeOK
<1>4. ASSUME NEW r \in Service, Poll(r)
      PROVE  Step
  BY <1>1, <1>3, <1>4, GenerationFacts DEF Poll, Service
<1>5. ASSUME NEW r \in Runner, Work(r)
      PROVE  Step
  BY <1>5, SyncShape, EnvironmentStays DEF Work, Step, CallStep
<1>6. ASSUME NEW x \in Rotator, Rotate(x)
      PROVE  Step
  <2>1. x \in Runner
    OBVIOUS
  <2>2. CASE LoadConfig(x) \/ CheckEligible(x) \/ SaveConfig(x)
    BY <1>2, <2>2, EnvironmentStays DEF LoadConfig, CheckEligible, SaveConfig
  <2>3. CASE CreateKey(x)
    BY <1>2, <2>3, CreateKeyFacts
  <2>4. CASE Advance(x)
    <3>1. UNCHANGED <<environment, vault>>
      BY <2>4 DEF Advance
    <3>2. CASE PreserveOld(x) \/ PreserveNew(x) \/ Publish(x)
      <4>1. \E g \in Generation : \E c \in {ArchiveConfig(g), PlainConfig(g)} : Call(x, c, "sync")
        <5>1. stage[x] # "idle"
          BY <3>2 DEF PreserveOld, PreserveNew, Publish
        <5>2. from[x] \in Generation /\ from[x] + 1 \in Generation
          BY <5>1, TwoGenerations
        <5> QED
          BY <3>2, <5>2 DEF PreserveOld, PreserveNew, Publish
      <4> QED
        BY <1>1, <2>1, <3>1, <4>1, GenerationFacts
    <3>3. CASE Published(x) \/ GiveUp(x)
      BY <1>2, <3>1, <3>3, EnvironmentStays DEF Published, GiveUp
    <3> QED
      BY <2>4, <3>2, <3>3 DEF Advance
  <2> QED
    BY <1>6, <2>2, <2>3, <2>4 DEF Rotate
<1>7. CASE Disturb
  <2>1. ASSUME NEW c \in Cluster, Failover(c)
        PROVE  Step
    BY <1>2, <2>1 DEF Failover, KeysStay
  <2>2. ASSUME NEW c \in Cluster, KeysChange, CephChanges(c)
        PROVE  Step
    <3>1. KeysStay
      BY <2>2, OneKey DEF CephChanges
    <3> QED
      BY <1>2, <2>2, <3>1 DEF CephChanges
  <2>3. ASSUME NEW r \in Runner, CallFails(r)
        PROVE  Step
    BY <2>3, FailShape, EnvironmentStays DEF CallFails, Step
  <2>4. ASSUME NEW r \in Runner, AnswerLost(r)
        PROVE  Step
    <3>1. pc[r] = "write" /\ pc[r] \in Busy /\ Return(r, "error") /\ UNCHANGED environment
          /\ \E i \in todo[r] : Applies(r, i)
      BY <2>4 DEF AnswerLost, Busy, NextIn
    <3> QED
      BY <3>1, FailShape, AppliesWrites, EnvironmentStays DEF Step
  <2>5. ASSUME NEW x \in Rotator, Abort(x)
        PROVE  Step
    <3>1. UNCHANGED <<environment, vault>> /\ x \in Runner
      BY <2>5 DEF Abort
    <3>2. CASE pc[x] \in Busy
      BY <2>5, <3>1, <3>2, FailShape, EnvironmentStays DEF Abort, Step
    <3>3. CASE pc[x] \notin Busy
      BY <1>2, <2>5, <3>1, <3>3, EnvironmentStays DEF Abort
    <3> QED
      BY <3>2, <3>3
  <2> QED
    BY <1>7, <2>1, <2>2, <2>3, <2>4, <2>5 DEF Disturb
<1>8. CASE UNCHANGED vars
  BY <1>2, <1>8, EnvironmentStays DEF vars, environment, locals
<1> QED
  BY <1>4, <1>5, <1>6, <1>7, <1>8 DEF Next

-----------------------------------------------------------------------------
(* Types.                                                                  *)

LEMMA BaseInit == Init => BaseInv
<1> SUFFICES ASSUME Init
             PROVE  BaseInv
  OBVIOUS
<1>1. ceph \in [Cluster -> [Source -> Value \cup {NoValue}]]
  BY DEF Init
<1>2. CallsInv
  BY <1>1, InitKeeps DEF Init
<1>3. CommandTypeOK
  BY CredentialsAssumption DEF Init, CommandTypeOK, Stage, Generation
<1> QED
  BY <1>2, <1>3 DEF BaseInv

LEMMA CallsKept == BaseInv /\ [Next]_vars => CallsInv'
<1> SUFFICES ASSUME BaseInv, [Next]_vars
             PROVE  CallsInv'
  OBVIOUS
<1>1. CallsInv
  BY DEF BaseInv
<1>2. ASSUME UNCHANGED <<environment, vault, locals>>
      PROVE  CallsInv'
  BY <1>1, <1>2, StutterKeeps DEF environment, locals, syncVars
<1>3. ASSUME NEW r \in Runner, NEW c \in Config, Call(r, c, "sync"), UNCHANGED <<environment, vault>>
      PROVE  CallsInv'
  BY <1>1, <1>3, CallKeeps DEF Mode
<1>4. ASSUME NEW r \in Service, Poll(r)
      PROVE  CallsInv'
  <2>1. PlainConfig(config) \in Config /\ r \in Runner
    BY GenerationFacts DEF BaseInv, CommandTypeOK, Service
  <2> QED
    BY <1>3, <1>4, <2>1 DEF Poll
<1>5. ASSUME NEW r \in Runner, Work(r)
      PROVE  CallsInv'
  BY <1>1, <1>5, SyncStepKeeps DEF Work
<1>6. ASSUME NEW x \in Rotator, Rotate(x)
      PROVE  CallsInv'
  <2>1. x \in Runner
    OBVIOUS
  <2>2. CASE LoadConfig(x) \/ CheckEligible(x) \/ SaveConfig(x)
    BY <1>2, <2>2 DEF LoadConfig, CheckEligible, SaveConfig
  <2>3. CASE CreateKey(x)
    <3>1. active' = active /\ vault' = vault /\ locals' = locals /\ stage[x] # "idle"
      BY <2>3 DEF CreateKey
    <3>3. ceph' \in [Cluster -> [Source -> Value \cup {NoValue}]]
      BY <2>3, CreateKeyFacts
    <3>4. SyncTypeOK'
      BY <1>1, <3>1, <3>3 DEF CallsInv, SyncTypeOK, locals
    <3>5. \A p \in Path : Evolves(p) /\ InItsSnapshot(p)'
      BY <1>1, <3>1, SnapshotKept DEF Evolves
    <3> QED
      BY <1>1, <3>1, <3>4, <3>5, OutsideStep
  <2>4. CASE Advance(x)
    <3>1. UNCHANGED <<environment, vault>>
      BY <2>4 DEF Advance
    <3>2. CASE PreserveOld(x) \/ PreserveNew(x) \/ Publish(x)
      <4>1. stage[x] # "idle"
        BY <3>2 DEF PreserveOld, PreserveNew, Publish
      <4>2. from[x] \in Generation /\ from[x] + 1 \in Generation
        BY <4>1, TwoGenerations
      <4>3. \E g \in Generation : \E c \in {ArchiveConfig(g), PlainConfig(g)} : Call(x, c, "sync")
        BY <3>2, <4>2 DEF PreserveOld, PreserveNew, Publish
      <4> QED
        BY <1>3, <2>1, <3>1, <4>3, GenerationFacts
    <3>3. CASE Published(x) \/ GiveUp(x)
      BY <1>2, <3>1, <3>3 DEF Published, GiveUp
    <3> QED
      BY <2>4, <3>2, <3>3 DEF Advance
  <2> QED
    BY <1>6, <2>2, <2>3, <2>4 DEF Rotate
<1>7. CASE Disturb
  <2>1. ASSUME NEW x \in Rotator, Abort(x)
        PROVE  CallsInv'
    <3>1. UNCHANGED <<environment, vault>> /\ x \in Runner
      BY <2>1 DEF Abort
    <3> QED
      BY <1>1, <1>2, <2>1, <3>1, ReturnReadOnly DEF Abort, Returned
  <2> QED
    BY <1>1, <1>7, <2>1, FailoverKeeps, CephChangesKeeps, CallFailsKeeps, AnswerLostKeeps DEF Disturb
<1>8. CASE UNCHANGED vars
  BY <1>2, <1>8 DEF vars, environment, locals
<1> QED
  BY <1>4, <1>5, <1>6, <1>7, <1>8 DEF Next

LEMMA CommandTypeKept == BaseInv /\ [Next]_vars => CommandTypeOK'
<1> SUFFICES ASSUME BaseInv, [Next]_vars
             PROVE  CommandTypeOK'
  OBVIOUS
<1>1. CommandTypeOK
  BY DEF BaseInv
<1>2. ASSUME UNCHANGED rotation, faults' \in 0..MaxFaults
      PROVE  CommandTypeOK'
  BY <1>1, <1>2 DEF CommandTypeOK, rotation
<1>3. ASSUME NEW x \in Rotator, NEW s \in Stage, stage' = [stage EXCEPT ![x] = s],
             s # "idle" => stage[x] # "idle",
             UNCHANGED <<config, from, attempts>>, missing' \in [Rotator -> SUBSET Index],
             faults' \in 0..MaxFaults
      PROVE  CommandTypeOK'
  BY <1>1, <1>3 DEF CommandTypeOK
<1>4. ASSUME NEW x \in Rotator, Rotate(x)
      PROVE  CommandTypeOK'
  <2>1. faults' = faults /\ faults' \in 0..MaxFaults
    BY <1>1, <1>4 DEF Rotate, CommandTypeOK
  <2>2. CASE LoadConfig(x)
    <3>1. from' \in [Rotator -> Generation] /\ stage' \in [Rotator -> Stage]
      BY <1>1, <2>2 DEF LoadConfig, Goto, CommandTypeOK, Stage
    <3>2. attempts' \in 0..MaxAttempts
      BY <1>1, <2>2 DEF LoadConfig, CommandTypeOK
    <3>3. \A y \in Rotator : stage'[y] # "idle" => from'[y] < MaxGeneration
      BY <1>1, <2>2 DEF LoadConfig, Goto, CommandTypeOK
    <3> QED
      BY <1>1, <2>1, <2>2, <3>1, <3>2, <3>3 DEF LoadConfig, CommandTypeOK
  <2>3. CASE CheckEligible(x)
    <3>1. missing' \in [Rotator -> SUBSET Index]
      BY <1>1, <2>3 DEF CheckEligible, CommandTypeOK, StandardIndex
    <3>2. \E s \in {"create", "idle"} : stage' = [stage EXCEPT ![x] = s]
      BY <2>3 DEF CheckEligible, Goto
    <3>3. stage[x] # "idle" /\ UNCHANGED <<config, from, attempts>>
      BY <2>3 DEF CheckEligible
    <3> QED
      BY <1>3, <2>1, <3>1, <3>2, <3>3 DEF Stage
  <2>4. CASE CreateKey(x)
    <3>1. missing' \in [Rotator -> SUBSET Index]
      BY <1>1, <2>4 DEF CreateKey, CommandTypeOK
    <3> QED
      BY <1>1, <2>1, <2>4, <3>1 DEF CreateKey, CommandTypeOK
  <2>5. CASE Advance(x)
    <3>1. \E s \in Stage : stage' = [stage EXCEPT ![x] = s]
      BY <2>5 DEF Advance, PreserveOld, PreserveNew, Publish, Published, GiveUp, Goto,
                  Stage, Synchronizing
    <3>2. stage[x] # "idle" /\ UNCHANGED <<config, from, missing, attempts>>
      BY <2>5 DEF Advance, PreserveOld, PreserveNew, Publish, Published, GiveUp, Synchronizing
    <3> QED
      BY <1>1, <1>3, <2>1, <3>1, <3>2 DEF CommandTypeOK
  <2>6. CASE SaveConfig(x)
    <3>1. stage[x] # "idle" /\ config' = from[x] + 1 /\ stage' = [stage EXCEPT ![x] = "idle"]
          /\ UNCHANGED <<from, missing, attempts>>
      BY <2>6 DEF SaveConfig, Goto
    <3>2. config' \in Generation
      BY <3>1, TwoGenerations
    <3> QED
      BY <1>1, <2>1, <3>1, <3>2 DEF CommandTypeOK, Stage
  <2> QED
    BY <1>4, <2>2, <2>3, <2>4, <2>5, <2>6 DEF Rotate
<1>5. CASE Disturb
  <2>1. faults' \in 0..MaxFaults
    BY <1>1, <1>5 DEF Disturb, CommandTypeOK
  <2>2. ASSUME NEW x \in Rotator, Abort(x)
        PROVE  CommandTypeOK'
    <3>1. missing' \in [Rotator -> SUBSET Index] /\ stage' = [stage EXCEPT ![x] = "idle"]
          /\ UNCHANGED <<config, from, attempts>>
      BY <1>1, <2>2 DEF Abort, Goto, CommandTypeOK
    <3> QED
      BY <1>3, <2>1, <3>1 DEF Stage
  <2> QED
    BY <1>2, <1>5, <2>1, <2>2 DEF Disturb
<1>6. CASE (\E r \in Service : Poll(r)) \/ (\E r \in Runner : Work(r)) \/ UNCHANGED vars
  <2>1. UNCHANGED rotation /\ faults' \in 0..MaxFaults
    BY <1>1, <1>6 DEF Poll, Work, vars, rotation, CommandTypeOK
  <2> QED
    BY <1>2, <2>1
<1> QED
  BY <1>4, <1>5, <1>6 DEF Next

LEMMA BaseNext == BaseInv /\ [Next]_vars => BaseInv'
BY CallsKept, CommandTypeKept DEF BaseInv

\* Every variable of the rotation, of the service and of their calls has its
\* type, whatever is aborted and however many rotations overlap.
THEOREM TypeCorrect == Spec => []TypeOK
<1>1. BaseInv => TypeOK
  BY DEF BaseInv, CallsInv, CommandTypeOK, TypeOK
<1> QED
  BY <1>1, BaseInit, BaseNext, PTL DEF Spec

-----------------------------------------------------------------------------
(* Keys.  Whatever a call has read, and whatever Vault holds for a rotated *)
(* credential, is a key that Ceph knows.                                   *)

\* Cluster c knows the entity; the value is its key unless that has changed.
Known(c, entity, v) ==
    /\ c \in Cluster /\ [kind |-> "auth", entity |-> entity] \in Source
    /\ Key(c, entity) # NoValue
    /\ ~KeysChange => v = Key(c, entity)

KnownNext(c, entity, v) ==
    LET s == [kind |-> "auth", entity |-> entity]
    IN  /\ c \in Cluster /\ s \in Source
        /\ ceph'[c][s] # NoValue
        /\ ~KeysChange => v = ceph'[c][s]

ValuesHold(r) ==
    /\ pc[r] \in Returned \cup {"coordinate"} => value[r] = NoValues
    /\ \A i \in StandardIndex :
        (CephX(i) /\ value[r][i] # NoValue) =>
            Known(ClusterOf[r], Active(i, cfg[r]).entity, value[r][i])

SecretHolds(p, i) ==
    LET f == vault[p].data.fields
    IN  (Managed(vault[p].data) /\ p.name = Credentials[i].path /\ CephX(i)) =>
            /\ f.kind \in CSIKinds => f.user = UserOf(i, f.entity)
            /\ Known(f.fsid, f.entity, f.value)

KeysInv ==
    /\ \A r \in Runner : ValuesHold(r)
    /\ \A p \in Path, i \in StandardIndex : SecretHolds(p, i)

LEMMA KnownStays ==
    ASSUME KeysStay, NEW c, NEW entity, NEW v, Known(c, entity, v)
    PROVE  KnownNext(c, entity, v)
BY DEF Known, KnownNext, Key, KeysStay

\* What is left to show of the values of r.
LEMMA ValuesNext ==
    ASSUME NEW r \in Runner,
           pc'[r] \in Returned \cup {"coordinate"} => value'[r] = NoValues,
           \A i \in StandardIndex :
               (CephX(i) /\ value'[r][i] # NoValue) =>
                   KnownNext(ClusterOf[r], Active(i, cfg'[r]).entity, value'[r][i])
    PROVE  ValuesHold(r)'
BY DEF ValuesHold, Known, Key, KnownNext, Active

LEMMA ValuesKept ==
    ASSUME BaseInv, Step, NEW r \in Runner, ValuesHold(r)
    PROVE  ValuesHold(r)'
<1>1. CallStep(r) /\ KeysStay
  BY DEF Step
<1>2. value[r] \in [Index -> Value \cup {NoValue}] /\ StandardIndex \subseteq Index
  BY DEF BaseInv, CallsInv, SyncTypeOK, StandardIndex
<1>3. CASE value'[r] = NoValues
  BY <1>2, <1>3, ValuesNext DEF NoValues
<1>4. CASE Still(r) \/ (\E c \in Config : Starts(r, c))
  <2>1. \/ value'[r] = NoValues
        \/ value'[r] = value[r] /\ cfg'[r] = cfg[r] /\ pc'[r] = pc[r]
    BY <1>4 DEF Still, Starts, ValuesHold
  <2>2. CASE value'[r] = value[r] /\ cfg'[r] = cfg[r] /\ pc'[r] = pc[r]
    BY <1>1, <1>2, <2>2, KnownStays, ValuesNext DEF ValuesHold
  <2> QED
    BY <1>3, <2>1, <2>2
<1>5. CASE /\ cfg'[r] = cfg[r] /\ pc'[r] # "coordinate"
           /\ pc'[r] \in Returned => value'[r] = NoValues
           /\ ValueStep(r)
  <2>1. CASE /\ pc[r] = "collect" /\ UNCHANGED ceph
             /\ \E i \in Index : LET v == ceph[ClusterOf[r]][SourceOf(Active(i, cfg[r]))]
                                 IN  v # NoValue /\ value'[r] = [value[r] EXCEPT ![i] = v]
    <3>1. PICK i \in Index : LET v == ceph[ClusterOf[r]][SourceOf(Active(i, cfg[r]))]
                             IN  v # NoValue /\ value'[r] = [value[r] EXCEPT ![i] = v]
      BY <2>1
    <3> DEFINE v == ceph[ClusterOf[r]][SourceOf(Active(i, cfg[r]))]
    <3>2. ASSUME NEW j \in StandardIndex, CephX(j), value'[r][j] # NoValue
          PROVE  KnownNext(ClusterOf[r], Active(j, cfg[r]).entity, value'[r][j])
      <4>1. CASE j = i
        <5>1. value'[r][j] = v
          BY <1>2, <3>1, <4>1
        <5>2. SourceOf(Active(i, cfg[r])) = [kind |-> "auth", entity |-> Active(i, cfg[r]).entity]
              /\ SourceOf(Active(i, cfg[r])) \in Source
          BY <3>2, <4>1, ConfigType, ActiveSource
        <5> QED
          BY <2>1, <3>1, <4>1, <5>1, <5>2 DEF KnownNext
      <4>2. CASE j # i
        <5>1. value'[r][j] = value[r][j]
          BY <1>2, <3>1, <4>2
        <5> QED
          BY <1>1, <3>2, <5>1, KnownStays DEF ValuesHold
      <4> QED
        BY <4>1, <4>2
    <3>3. pc'[r] \in Returned \cup {"coordinate"} => value'[r] = NoValues
      BY <1>5
    <3> QED
      BY <1>5, <3>2, <3>3, ValuesNext
  <2>2. CASE value'[r] = value[r]
    BY <1>1, <1>2, <1>5, <2>2, KnownStays, ValuesNext DEF ValuesHold
  <2> QED
    BY <1>3, <1>5, <2>1, <2>2 DEF ValueStep
<1> QED
  BY <1>1, <1>4, <1>5 DEF CallStep

\* What is left to show of a secret.
LEMMA SecretNext ==
    ASSUME NEW p \in Path, NEW i \in StandardIndex,
           LET f == vault'[p].data.fields
           IN  (Managed(vault'[p].data) /\ p.name = Credentials[i].path /\ CephX(i)) =>
                   /\ f.kind \in CSIKinds => f.user = UserOf(i, f.entity)
                   /\ KnownNext(f.fsid, f.entity, f.value)
    PROVE  SecretHolds(p, i)'
BY DEF SecretHolds, Known, Key, KnownNext, UserOf, Managed, StoredFSID

LEMMA SecretKept ==
    ASSUME BaseInv, Step, NEW p \in Path, NEW i \in StandardIndex,
           \A r \in Runner : ValuesHold(r), SecretHolds(p, i)
    PROVE  SecretHolds(p, i)'
<1>1. KeysStay /\ (vault'[p] = vault[p] \/ \E r \in Runner : WrittenBy(r, p))
  BY DEF Step
<1>2. CASE vault'[p] = vault[p]
  BY <1>1, <1>2, KnownStays, SecretNext DEF SecretHolds
<1>3. ASSUME NEW r \in Runner, NEW j \in Included(cfg[r]),
             pc[r] = "write", p = PathOf(j, cfg[r]),
             vault'[p] = KVWritten(vault[p], DesiredBy(r, j))
      PROVE  SecretHolds(p, i)'
  <2> SUFFICES ASSUME p.name = Credentials[i].path, CephX(i)
               PROVE  LET f == vault'[p].data.fields
                      IN  /\ f.kind \in CSIKinds => f.user = UserOf(i, f.entity)
                          /\ KnownNext(f.fsid, f.entity, f.value)
    BY SecretNext
  <2>1. i \in Index /\ j \in Index /\ cfg[r] \in Config /\ cfg[r].gen \in Generation
    BY ConfigType, IncludedInIndex DEF StandardIndex
  <2>2. j = i
    BY <1>3, <2>1, OwnerOfPath
  <2> DEFINE c == ActiveCredential(Credentials[i], cfg[r].gen)
             f == DesiredBy(r, i).fields
  <2>3. vault'[p].data.fields = f
    BY <1>3, <2>2 DEF KVWritten
  <2>4. f.fsid = ClusterOf[r] /\ f.entity = c.entity /\ f.kind = c.kind
        /\ f.user = PublishedUser(c) /\ f.value = value[r][i]
    <3>1. Active(i, cfg[r]) = c
      BY <2>1, ConfigType
    <3> QED
      BY <2>1, <3>1, WrittenFields
  <2>5. f.kind \in CSIKinds => f.user = UserOf(i, f.entity)
    BY <2>1, <2>4, ActiveFacts
  <2>6. value[r][i] # NoValue
    BY <1>3, <2>2, CredentialsAssumption DEF BaseInv, CallsInv, LoopsInside, Planning
  <2>7. Known(f.fsid, f.entity, f.value)
    BY <2>1, <2>4, <2>6, ConfigType DEF ValuesHold
  <2>8. KnownNext(f.fsid, f.entity, f.value)
    BY <1>1, <2>4, <2>7, KnownStays
  <2> QED
    BY <2>3, <2>5, <2>8
<1> QED
  BY <1>1, <1>2, <1>3 DEF WrittenBy

LEMMA KeysInit == Init => KeysInv
<1> SUFFICES ASSUME Init
             PROVE  KeysInv
  OBVIOUS
<1>1. \A r \in Runner : value[r] = NoValues
  BY DEF Init, SyncInit
<1>2. \A r \in Runner : ValuesHold(r)
  BY <1>1 DEF ValuesHold, NoValues, StandardIndex
<1>3. \A p \in Path : ~Managed(vault[p].data)
  BY DEF Init, SyncInit, Managed, StoredFSID, Absent, NoData, KVWritten, Adopted
<1> QED
  BY <1>2, <1>3 DEF KeysInv, SecretHolds

LEMMA KeysNext == BaseInv /\ KeysInv /\ [Next]_vars => KeysInv'
<1> SUFFICES ASSUME BaseInv, KeysInv, [Next]_vars
             PROVE  KeysInv'
  OBVIOUS
<1>1. Step
  BY EveryStep
<1> QED
  BY <1>1, ValuesKept, SecretKept DEF KeysInv

\* Every identity that Vault offers for a rotated credential works, at the
\* stable path and in every archive: Ceph knows the entity, under the user
\* name and with the key that are published, in whatever generation and
\* wherever the rotations that made it stopped (ReadCredential asks for the
\* same identity that WriteSecret publishes; CreateKey replaces no key).
THEOREM OffersWork == Spec => []OfferedIdentitiesWork
<1>1. KeysInv => OfferedIdentitiesWork
  BY DEF KeysInv, SecretHolds, Known, OfferedIdentitiesWork
<1> QED
  BY <1>1, BaseInit, BaseNext, KeysInit, KeysNext, PTL DEF Spec

-----------------------------------------------------------------------------
(* Archives.  The order of the calls of rotateCredentials, and what a call *)
(* has done when it returns nil.                                           *)

\* The loops of r: what has been visited is in the plan, what needed no
\* write is there, and what has been written stays.
Visited(r) ==
    LET there(i) == vault[PathOf(i, cfg[r])].exists
        visited == Included(cfg[r]) \ todo[r]
    IN  /\ mode[r] = "sync"
        /\ pc[r] \in {"read", "metadata"} =>
               \A i \in visited : /\ plan[r][i].action # "none"
                                  /\ plan[r][i].action = "unchanged" => there(i)
        /\ pc[r] = "write" => \A i \in visited : there(i)
        /\ (pc[r] = "nil" /\ cfg[r].archive) => \A i \in Included(cfg[r]) : there(i)

\* The calls of a rotation find its host to be the active one, as its own check
\* did: the active manager has not moved meanwhile, or coordination is "none".
AsksAsActive == \A x \in Rotator : pc[x] = "coordinate" => Eligible(x)

LEMMA NoStandbys ==
    ASSUME Coordination = "none"
    PROVE  AsksAsActive
BY DEF AsksAsActive, Eligible

\* Nothing in Rotation deletes a secret.
Remain == \A p \in Path : vault[p].exists => vault'[p].exists

LEMMA SecretsRemain == Step => Remain
<1>1. \A entry, data : KVWritten(entry, data).exists
  BY DEF KVWritten
<1>2. \A p \in Path, r \in Runner :
        (vault[p].exists /\ WrittenBy(r, p)) => vault'[p].exists
  BY <1>1 DEF WrittenBy
<1> QED
  BY <1>2 DEF Step, Remain

LEMMA InPath ==
    ASSUME NEW c \in Config, NEW i \in Included(c)
    PROVE  i \in Index /\ PathOf(i, c) \in Path
BY IncludedInIndex, PathOfType

LEMMA VisitedStill ==
    ASSUME BaseInv, Remain, NEW r \in Runner, Visited(r), Still(r)
    PROVE  Visited(r)'
<1>1. cfg[r] \in Config
  BY ConfigType
<1> QED
  BY <1>1, InPath DEF Visited, Still, Remain

LEMMA VisitedError ==
    ASSUME BaseInv, NEW r \in Runner, Visited(r), Return(r, "error")
    PROVE  Visited(r)'
<1>1. pc'[r] = "error" /\ mode'[r] = "sync"
  BY ReturnShape DEF Visited
<1> QED
  BY <1>1 DEF Visited

\* A call that returns nil without having written anything more.
LEMMA VisitedNil ==
    ASSUME BaseInv, NEW r \in Runner, Visited(r), Return(r, "nil"),
           \A i \in Included(cfg[r]) : vault'[PathOf(i, cfg[r])].exists
    PROVE  Visited(r)'
<1>1. pc'[r] = "nil" /\ cfg'[r] = cfg[r] /\ mode'[r] = "sync"
  BY ReturnShape DEF Visited
<1> QED
  BY <1>1 DEF Visited

\* The i-th secret has been read: it joins the plan, or the loop ends.
LEMMA VisitedPlan ==
    ASSUME BaseInv, NEW r \in Runner, Visited(r), pc[r] \in {"read", "metadata"},
           NEW i \in todo[r], NEW item,
           item.action \in {"unchanged", "create", "update"},
           item.action = "unchanged" => vault[PathOf(i, cfg[r])].exists,
           Plan(r, i, item), UNCHANGED vault
    PROVE  Visited(r)'
<1> DEFINE newPlan == [plan[r] EXCEPT ![i] = item]
           rest == todo[r] \ {i}
           drift == {j \in Index : newPlan[j].action \in {"create", "update"}}
           there(j) == vault[PathOf(j, cfg[r])].exists
<1>1. /\ cfg[r] \in Config /\ todo[r] \subseteq Index /\ i \in Included(cfg[r])
      /\ todo[r] \subseteq Included(cfg[r]) /\ plan[r] \in [Index -> Planned] /\ mode[r] = "sync"
  BY ConfigType DEF BaseInv, CallsInv, SyncTypeOK, LoopsInside, Visited
<1>2. Included(cfg[r]) \subseteq Index
  BY <1>1, IncludedInIndex
<1>3. \A j \in Included(cfg[r]) \ rest :
        newPlan[j].action # "none" /\ (newPlan[j].action = "unchanged" => there(j))
  <2> TAKE j \in Included(cfg[r]) \ rest
  <2>1. CASE j = i
    BY <1>1, <1>2, <2>1
  <2>2. CASE j # i
    BY <1>1, <1>2, <2>2 DEF Visited
  <2> QED
    BY <2>1, <2>2
<1>4. \A j \in Index : newPlan[j].action \in {"none", "unchanged", "create", "update"}
  BY <1>1 DEF Planned
<1>5. CASE rest = {} /\ drift = {}
  <2>1. \A j \in Included(cfg[r]) : there(j)
    BY <1>2, <1>3, <1>4, <1>5
  <2>2. Return(r, "nil")
    BY <1>1, <1>5 DEF Plan
  <2> QED
    BY <2>1, <2>2, VisitedNil
<1>6. CASE rest = {} /\ drift # {}
  <2>1. /\ plan' = [plan EXCEPT ![r] = newPlan] /\ todo' = [todo EXCEPT ![r] = drift]
        /\ pc' = [pc EXCEPT ![r] = "write"] /\ UNCHANGED <<cfg, mode>>
    BY <1>1, <1>6 DEF Plan
  <2>2. pc'[r] = "write" /\ todo'[r] = drift /\ cfg'[r] = cfg[r] /\ mode'[r] = mode[r]
    BY <2>1 DEF BaseInv, CallsInv, SyncTypeOK
  <2>3. \A j \in Included(cfg[r]) \ drift : there(j)
    BY <1>2, <1>3, <1>4, <1>6
  <2> QED
    BY <1>1, <2>2, <2>3 DEF Visited
<1>7. CASE rest # {}
  <2>1. /\ plan' = [plan EXCEPT ![r] = newPlan] /\ todo' = [todo EXCEPT ![r] = rest]
        /\ pc' = [pc EXCEPT ![r] = "read"] /\ UNCHANGED <<cfg, mode>>
    BY <1>7 DEF Plan
  <2>2. /\ pc'[r] = "read" /\ todo'[r] = rest /\ plan'[r] = newPlan
        /\ cfg'[r] = cfg[r] /\ mode'[r] = mode[r]
    BY <2>1 DEF BaseInv, CallsInv, SyncTypeOK
  <2> QED
    BY <1>1, <1>3, <2>2 DEF Visited
<1> QED
  BY <1>5, <1>6, <1>7

LEMMA VisitedSync ==
    ASSUME BaseInv, NEW r \in Runner, Visited(r), SyncStep(r), Remain,
           pc[r] = "coordinate" => Eligible(r)
    PROVE  Visited(r)'
<1> DEFINE there(i) == vault[PathOf(i, cfg[r])].exists
<1>1. cfg[r] \in Config /\ mode[r] = "sync"
  BY ConfigType DEF Visited
<1>2. ASSUME NEW k \in {"collect", "read"}, pc'[r] = k, UNCHANGED <<cfg, mode>>,
             k = "read" => todo'[r] = Included(cfg[r])
      PROVE  Visited(r)'
  BY <1>1, <1>2 DEF Visited
<1>3. CASE Coordinate(r)
  <2>1. pc' = [pc EXCEPT ![r] = "collect"] /\ UNCHANGED <<cfg, mode>>
    BY <1>3 DEF Coordinate
  <2>2. pc'[r] = "collect"
    BY <2>1 DEF BaseInv, CallsInv, SyncTypeOK
  <2> QED
    BY <1>2, <2>1, <2>2
<1>4. CASE ReadCredential(r)
  <2>1. PICK i \in Index :
          LET rest == todo[r] \ {i}
          IN  \/ Return(r, "error")
              \/ /\ pc' = [pc EXCEPT ![r] = IF rest = {} THEN "read" ELSE @]
                 /\ todo' = [todo EXCEPT ![r] = IF rest = {} THEN Included(cfg[r]) ELSE rest]
                 /\ UNCHANGED <<cfg, mode, plan>>
    BY <1>4 DEF ReadCredential
  <2> DEFINE rest == todo[r] \ {i}
  <2>2. CASE Return(r, "error")
    BY <2>2, VisitedError
  <2>3. CASE /\ pc' = [pc EXCEPT ![r] = IF rest = {} THEN "read" ELSE @]
             /\ todo' = [todo EXCEPT ![r] = IF rest = {} THEN Included(cfg[r]) ELSE rest]
             /\ UNCHANGED <<cfg, mode, plan>>
    <3>1. pc[r] = "collect"
      BY <1>4 DEF ReadCredential
    <3>2. \/ pc'[r] = "collect"
          \/ pc'[r] = "read" /\ todo'[r] = Included(cfg[r])
      BY <2>3, <3>1 DEF BaseInv, CallsInv, SyncTypeOK
    <3> QED
      BY <1>2, <2>3, <3>2
  <2> QED
    BY <2>1, <2>2, <2>3
<1>5. CASE ReadSecret(r)
  <2>1. pc[r] = "read" /\ UNCHANGED vault
    BY <1>5 DEF ReadSecret
  <2>2. PICK i \in todo[r] :
          LET entry == vault[PathOf(i, cfg[r])]
          IN  \/ /\ pc' = [pc EXCEPT ![r] = "metadata"]
                 /\ UNCHANGED <<cfg, mode, todo, value, plan>>
              \/ Return(r, "error")
              \/ /\ entry.exists
                 /\ Plan(r, i, [action |-> ActionFor(entry.data, DesiredBy(r, i)),
                                current |-> entry])
    BY <1>5 DEF ReadSecret, NextIn
  <2>3. CASE pc' = [pc EXCEPT ![r] = "metadata"] /\ UNCHANGED <<cfg, mode, todo, value, plan>>
    <3>1. pc'[r] = "metadata"
      BY <2>3 DEF BaseInv, CallsInv, SyncTypeOK
    <3> QED
      BY <1>1, <2>1, <2>3, <3>1 DEF Visited
  <2>4. CASE Return(r, "error")
    BY <2>4, VisitedError
  <2> DEFINE entry == vault[PathOf(i, cfg[r])]
             item == [action |-> ActionFor(entry.data, DesiredBy(r, i)), current |-> entry]
  <2>5. CASE entry.exists /\ Plan(r, i, item)
    <3>1. item.action \in {"unchanged", "create", "update"}
      BY DEF ActionFor
    <3> QED
      BY <2>1, <2>5, <3>1, VisitedPlan
  <2> QED
    BY <2>2, <2>3, <2>4, <2>5
<1>6. CASE ReadMetadata(r)
  <2>1. pc[r] = "metadata" /\ UNCHANGED vault
    BY <1>6 DEF ReadMetadata
  <2>2. PICK i \in todo[r] :
          Plan(r, i, [action |-> "create",
                      current |-> [Absent EXCEPT !.version = vault[PathOf(i, cfg[r])].version]])
    BY <1>6 DEF ReadMetadata, NextIn
  <2> QED
    BY <2>1, <2>2, VisitedPlan
<1>7. CASE WriteSecret(r)
  <2>1. pc[r] = "write"
    BY <1>7 DEF WriteSecret
  <2>2. PICK i \in todo[r] :
          \/ /\ Applies(r, i)
             /\ IF todo[r] = {i}
                THEN Return(r, "nil")
                ELSE /\ todo' = [todo EXCEPT ![r] = @ \ {i}]
                     /\ UNCHANGED <<pc, cfg, mode, value, plan>>
          \/ Return(r, "error")
    BY <1>7 DEF WriteSecret, NextIn
  <2>3. CASE Return(r, "error")
    BY <2>3, VisitedError
  <2>4. CASE Applies(r, i)
    <3>1. i \in Included(cfg[r]) /\ vault \in [Path -> Entry]
      BY <2>1 DEF BaseInv, CallsInv, SyncTypeOK, LoopsInside
    <3>2. vault'[PathOf(i, cfg[r])].exists
      BY <1>1, <2>4, <3>1, InPath DEF Applies, KVWritten
    <3>3. \A j \in Included(cfg[r]) \ (todo[r] \ {i}) : vault'[PathOf(j, cfg[r])].exists
      BY <1>1, <2>1, <3>2, InPath DEF Visited, Remain
    <3>4. CASE todo[r] = {i} /\ Return(r, "nil")
      BY <3>3, <3>4, VisitedNil
    <3>5. CASE todo' = [todo EXCEPT ![r] = @ \ {i}] /\ UNCHANGED <<pc, cfg, mode, value, plan>>
      <4>1. todo'[r] = todo[r] \ {i}
        BY <3>5 DEF BaseInv, CallsInv, SyncTypeOK
      <4> QED
        BY <1>1, <2>1, <3>3, <3>5, <4>1 DEF Visited
    <3> QED
      BY <2>2, <2>3, <3>4, <3>5
  <2> QED
    BY <2>2, <2>3, <2>4
<1> QED
  BY <1>3, <1>4, <1>5, <1>6, <1>7 DEF SyncStep

\* Every standard credential of generation g is preserved, and of the
\* generation before it.
Preserved(g) == \A i \in StandardIndex : ArchiveEntry(i, g).exists
PairPreserved(g) == g > 0 => Preserved(g - 1) /\ Preserved(g)

\* A stable path is only asked to leave generation 0 when both are preserved.
CallHolds(r) == ~cfg[r].archive => PairPreserved(cfg[r].gen)

StageHolds(x) ==
    /\ stage[x] = "preserve old" => cfg[x] = ArchiveConfig(from[x])
    /\ stage[x] = "preserve new" => cfg[x] = ArchiveConfig(from[x] + 1) /\ Preserved(from[x])
    /\ stage[x] \in {"publish", "save"} => Preserved(from[x]) /\ Preserved(from[x] + 1)

ArchiveRight(i, g) ==
    ArchiveEntry(i, g).exists => ArchiveEntry(i, g).data.fields.entity.gen = g

StableRight(i) ==
    LET g == StableData(i).fields.entity.gen
    IN  Managed(StableData(i)) => g \in Generation /\ PairPreserved(g)

ArchivesInv ==
    /\ PairPreserved(config)
    /\ \A r \in Runner : CallHolds(r)
    /\ \A x \in Rotator : Visited(x) /\ StageHolds(x)
    /\ \A i \in StandardIndex, g \in Generation : ArchiveRight(i, g)
    /\ \A i \in StandardIndex : StableRight(i)

PreservedNext(g) == \A i \in StandardIndex : vault'[PathOf(i, ArchiveConfig(g))].exists
PairNext(g) == g > 0 => PreservedNext(g - 1) /\ PreservedNext(g)

LEMMA PreservedStays ==
    ASSUME Remain, NEW g \in Generation, Preserved(g)
    PROVE  PreservedNext(g)
<1>1. ArchiveConfig(g) \in Config
  BY GenerationFacts
<1>2. \A i \in StandardIndex : PathOf(i, ArchiveConfig(g)) \in Path
  BY <1>1, PathOfType DEF StandardIndex
<1> QED
  BY <1>2 DEF Preserved, PreservedNext, ArchiveEntry, Remain

LEMMA PairStays ==
    ASSUME Remain, NEW g \in Generation, PairPreserved(g)
    PROVE  PairNext(g)
<1>1. g > 0 => g - 1 \in Generation
  BY CredentialsAssumption DEF Generation
<1> QED
  BY <1>1, PreservedStays DEF PairPreserved, PairNext

\* A call for an archive that has returned nil has preserved its generation.
LEMMA NilPreserves ==
    ASSUME NEW r \in Runner, NEW g \in Generation, Visited(r),
           pc[r] = "nil", cfg[r] = ArchiveConfig(g)
    PROVE  Preserved(g)
<1>1. cfg[r].archive /\ Included(cfg[r]) = StandardIndex
  BY DEF ArchiveConfig, Included
<1> QED
  BY <1>1 DEF Visited, Preserved, ArchiveEntry

\* What an archive holds is of the generation it is named for.
LEMMA ArchiveKept ==
    ASSUME BaseInv, Step, NEW i \in StandardIndex, NEW g \in Generation, ArchiveRight(i, g)
    PROVE  ArchiveRight(i, g)'
<1> DEFINE p == PathOf(i, ArchiveConfig(g))
<1>1. i \in Index /\ p \in Path /\ p = [name |-> Credentials[i].path, gen |-> g]
  BY GenerationFacts, PathOfType DEF StandardIndex, PathOf, ArchiveConfig
<1>2. vault'[p] = vault[p] \/ \E r \in Runner : WrittenBy(r, p)
  BY <1>1 DEF Step
<1> HIDE DEF p
<1>3. CASE vault'[p] = vault[p]
  BY <1>3 DEF ArchiveRight, ArchiveEntry, p
<1>4. ASSUME NEW r \in Runner, NEW j \in Included(cfg[r]), p = PathOf(j, cfg[r]),
             vault'[p] = KVWritten(vault[p], DesiredBy(r, j))
      PROVE  ArchiveRight(i, g)'
  <2>1. cfg[r] \in Config /\ cfg[r].gen \in Generation /\ j \in Index
    BY ConfigType, IncludedInIndex
  <2>2. j = i
    BY <1>1, <1>4, <2>1, OwnerOfPath
  <2>3. cfg[r].gen = g
    BY <1>1, <1>4, GenerationFacts DEF PathOf, Stable
  <2>4. DesiredBy(r, i).fields.entity = ActiveCredential(Credentials[i], g).entity
    <3>1. Active(i, cfg[r]) = ActiveCredential(Credentials[i], g)
      BY <1>1, <2>3, ConfigType
    <3> QED
      BY <1>1, <3>1, WrittenFields
  <2>5. ActiveCredential(Credentials[i], g).entity.gen = g
    BY <1>1, ActiveFacts
  <2>6. vault'[p].data = DesiredBy(r, i)
    BY <1>4, <2>2 DEF KVWritten
  <2> QED
    BY <2>4, <2>5, <2>6 DEF ArchiveRight, ArchiveEntry, p
<1> QED
  BY <1>2, <1>3, <1>4 DEF WrittenBy

LEMMA StableKept ==
    ASSUME BaseInv, Step, NEW i \in StandardIndex, StableRight(i),
           \A r \in Runner : CallHolds(r)
    PROVE  StableRight(i)'
<1> DEFINE p == PathOf(i, PlainConfig(0))
<1>1. Remain
  BY SecretsRemain
<1>2. i \in Index /\ p \in Path /\ p = [name |-> Credentials[i].path, gen |-> Stable]
  <2>1. 0 \in Generation
    BY CredentialsAssumption DEF Generation
  <2> QED
    BY <2>1, GenerationFacts, PathOfType DEF StandardIndex, PathOf, PlainConfig
<1>3. vault'[p] = vault[p] \/ \E r \in Runner : WrittenBy(r, p)
  BY <1>2 DEF Step
<1> HIDE DEF p
<1>4. ASSUME LET g == vault'[p].data.fields.entity.gen
             IN  Managed(vault'[p].data) => g \in Generation /\ PairNext(g)
      PROVE  StableRight(i)'
  BY <1>4 DEF StableRight, StableData, p, PairNext, PreservedNext, PairPreserved, Preserved,
              ArchiveEntry, Managed, StoredFSID
<1>5. CASE vault'[p] = vault[p]
  <2>1. LET g == vault[p].data.fields.entity.gen
        IN  Managed(vault[p].data) => g \in Generation /\ PairNext(g)
    BY <1>1, PairStays DEF StableRight, StableData, p
  <2> QED
    BY <1>4, <1>5, <2>1
<1>6. ASSUME NEW r \in Runner, NEW j \in Included(cfg[r]), p = PathOf(j, cfg[r]),
             vault'[p] = KVWritten(vault[p], DesiredBy(r, j))
      PROVE  StableRight(i)'
  <2>1. cfg[r] \in Config /\ cfg[r].gen \in Generation /\ j \in Index
    BY ConfigType, IncludedInIndex
  <2>2. j = i
    BY <1>2, <1>6, <2>1, OwnerOfPath
  <2>3. ~cfg[r].archive
    <3>1. cfg[r].gen # Stable
      BY <2>1, GenerationFacts DEF Stable
    <3> QED
      BY <1>2, <1>6, <3>1 DEF PathOf
  <2>4. DesiredBy(r, i).fields.entity = ActiveCredential(Credentials[i], cfg[r].gen).entity
    BY <1>2, WrittenFields, ConfigType
  <2>5. ActiveCredential(Credentials[i], cfg[r].gen).entity.gen = cfg[r].gen
    BY <1>2, <2>1, ActiveFacts
  <2>6. vault'[p].data = DesiredBy(r, i)
    BY <1>6, <2>2 DEF KVWritten
  <2>7. PairNext(cfg[r].gen)
    BY <1>1, <2>1, <2>3, PairStays DEF CallHolds
  <2> QED
    BY <1>4, <2>1, <2>4, <2>5, <2>6, <2>7
<1> QED
  BY <1>3, <1>5, <1>6 DEF WrittenBy

Calls ==
    /\ \A r \in Runner : CallHolds(r)
    /\ \A x \in Rotator : Visited(x)

\* The call of r keeps its configuration.
LEMMA HoldsStill ==
    ASSUME BaseInv, Remain, NEW r \in Runner, CallHolds(r), cfg'[r] = cfg[r]
    PROVE  CallHolds(r)'
<1>1. cfg[r].gen \in Generation
  BY ConfigType
<1>2. ~cfg[r].archive => PairNext(cfg[r].gen)
  BY <1>1, PairStays DEF CallHolds
<1> QED
  BY <1>2 DEF CallHolds, PairNext, PreservedNext, PairPreserved, Preserved, ArchiveEntry

\* The calls that a step leaves alone.
LEMMA OthersHold ==
    ASSUME BaseInv, Remain, Calls, NEW q \in Runner, Still(q)
    PROVE  CallHolds(q)' /\ (q \in Rotator => Visited(q)')
BY VisitedStill, HoldsStill DEF Calls, Still

LEMMA CallsStill ==
    ASSUME BaseInv, Remain, Calls, UNCHANGED locals
    PROVE  Calls'
<1>1. \A r \in Runner : Still(r)
  BY DEF locals, Still
<1> QED
  BY <1>1, OthersHold DEF Calls

LEMMA CallsCall ==
    ASSUME BaseInv, Remain, Calls, NEW r \in Runner, NEW c \in Config, Call(r, c, "sync"),
           ~c.archive => PairPreserved(c.gen)
    PROVE  Calls'
<1>1. \A q \in Runner \ {r} : Still(q)
  BY CallShape
<1>2. pc'[r] = "coordinate" /\ cfg'[r] = c /\ mode'[r] = "sync"
  BY CallShape DEF Starts
<1>3. Visited(r)'
  BY <1>2 DEF Visited
<1>4. ~c.archive => PairNext(c.gen)
  BY PairStays DEF Config
<1>5. CallHolds(r)'
  BY <1>2, <1>4 DEF CallHolds, PairNext, PreservedNext, PairPreserved, Preserved, ArchiveEntry
<1> QED
  BY <1>1, <1>3, <1>5, OthersHold DEF Calls

LEMMA CallsSync ==
    ASSUME BaseInv, Remain, Calls, NEW r \in Runner, SyncStep(r), AsksAsActive
    PROVE  Calls'
<1>1. cfg' = cfg /\ \A q \in Runner \ {r} : Still(q)
  BY SyncShape
<1>2. CallHolds(r)'
  BY <1>1, HoldsStill DEF Calls
<1>3. r \in Rotator => Visited(r)'
  BY VisitedSync DEF Calls, AsksAsActive
<1> QED
  BY <1>1, <1>2, <1>3, OthersHold DEF Calls

LEMMA CallsError ==
    ASSUME BaseInv, Remain, Calls, NEW r \in Runner, Return(r, "error")
    PROVE  Calls'
<1>1. cfg' = cfg /\ \A q \in Runner \ {r} : Still(q)
  BY ReturnShape
<1>2. CallHolds(r)'
  BY <1>1, HoldsStill DEF Calls
<1>3. r \in Rotator => Visited(r)'
  BY VisitedError DEF Calls
<1> QED
  BY <1>1, <1>2, <1>3, OthersHold DEF Calls

LEMMA CallsNext ==
    ASSUME BaseInv, ArchivesInv, [Next]_vars, Remain, AsksAsActive
    PROVE  Calls'
<1>1. Calls
  BY DEF ArchivesInv, Calls
<1>2. config \in Generation
  BY DEF BaseInv, CommandTypeOK
<1>3. ASSUME NEW r \in Service, Poll(r)
      PROVE  Calls'
  <2>1. PlainConfig(config) \in Config /\ PlainConfig(config).gen = config /\ r \in Runner
    BY <1>2, GenerationFacts DEF PlainConfig, Service
  <2>2. PairPreserved(config)
    BY DEF ArchivesInv
  <2> QED
    BY <1>1, <1>3, <2>1, <2>2, CallsCall DEF Poll
<1>4. ASSUME NEW r \in Runner, Work(r)
      PROVE  Calls'
  BY <1>1, <1>4, CallsSync DEF Work
<1>5. ASSUME NEW x \in Rotator, Rotate(x)
      PROVE  Calls'
  <2>1. x \in Runner /\ Visited(x)
    BY <1>1 DEF Calls
  <2>2. CASE LoadConfig(x) \/ CheckEligible(x) \/ CreateKey(x) \/ SaveConfig(x)
    BY <1>1, <2>2, CallsStill DEF LoadConfig, CheckEligible, CreateKey, SaveConfig
  <2>3. CASE Published(x) \/ GiveUp(x)
    BY <1>1, <2>3, CallsStill DEF Published, GiveUp
  <2>4. CASE PreserveOld(x) \/ PreserveNew(x) \/ Publish(x)
    <3>1. stage[x] # "idle"
      BY <2>4 DEF PreserveOld, PreserveNew, Publish
    <3>2. from[x] \in Generation /\ from[x] + 1 \in Generation
      BY <3>1, TwoGenerations
    <3>3. CASE PreserveOld(x) \/ PreserveNew(x)
      <4>1. \E g \in Generation : Call(x, ArchiveConfig(g), "sync")
        BY <3>2, <3>3 DEF PreserveOld, PreserveNew
      <4>2. \A g : ArchiveConfig(g).archive
        BY DEF ArchiveConfig
      <4> QED
        BY <1>1, <2>1, <4>1, <4>2, CallsCall, GenerationFacts
    <3>4. CASE Publish(x)
      <4>1. /\ Call(x, PlainConfig(from[x] + 1), "sync") /\ pc[x] = "nil"
            /\ cfg[x] = ArchiveConfig(from[x] + 1) /\ Preserved(from[x])
        BY <3>4 DEF Publish, ArchivesInv, StageHolds
      <4>2. Preserved(from[x] + 1)
        BY <2>1, <3>2, <4>1, NilPreserves
      <4>3. from[x] + 1 > 0 /\ (from[x] + 1) - 1 = from[x]
        BY <3>2, GenerationFacts
      <4>4. PairPreserved(from[x] + 1)
        BY <4>1, <4>2, <4>3 DEF PairPreserved
      <4>5. PlainConfig(from[x] + 1).gen = from[x] + 1 /\ PlainConfig(from[x] + 1) \in Config
        BY <3>2, GenerationFacts DEF PlainConfig
      <4> QED
        BY <1>1, <2>1, <4>1, <4>4, <4>5, CallsCall
    <3> QED
      BY <2>4, <3>3, <3>4
  <2> QED
    BY <1>5, <2>2, <2>3, <2>4 DEF Rotate, Advance
<1>6. CASE Disturb
  <2>1. ASSUME NEW c \in Cluster, Failover(c) \/ CephChanges(c)
        PROVE  Calls'
    BY <1>1, <2>1, CallsStill DEF Failover, CephChanges
  <2>2. ASSUME NEW r \in Runner, CallFails(r) \/ AnswerLost(r)
        PROVE  Calls'
    BY <1>1, <2>2, CallsError DEF CallFails, AnswerLost
  <2>3. ASSUME NEW x \in Rotator, Abort(x)
        PROVE  Calls'
    BY <1>1, <2>3, CallsError, CallsStill DEF Abort
  <2> QED
    BY <1>6, <2>1, <2>2, <2>3 DEF Disturb
<1>7. CASE UNCHANGED vars
  BY <1>1, <1>7, CallsStill DEF vars, locals
<1> QED
  BY <1>3, <1>4, <1>5, <1>6, <1>7 DEF Next

-----------------------------------------------------------------------------
(* The stages of a rotation.                                               *)

\* What is left to show of the stage of x.
StageNext(x) ==
    /\ stage'[x] = "preserve old" => cfg'[x] = ArchiveConfig(from'[x])
    /\ stage'[x] = "preserve new" =>
           cfg'[x] = ArchiveConfig(from'[x] + 1) /\ PreservedNext(from'[x])
    /\ stage'[x] \in {"publish", "save"} =>
           PreservedNext(from'[x]) /\ PreservedNext(from'[x] + 1)

LEMMA StageShown ==
    ASSUME NEW x \in Rotator, StageNext(x)
    PROVE  StageHolds(x)'
BY DEF StageNext, StageHolds, PreservedNext, Preserved, ArchiveEntry, ArchiveConfig

LEMMA StageStill ==
    ASSUME BaseInv, Remain, NEW x \in Rotator, StageHolds(x),
           stage'[x] = stage[x], from'[x] = from[x], cfg'[x] = cfg[x]
    PROVE  StageNext(x)
<1>1. CASE stage[x] = "idle"
  BY <1>1 DEF StageNext
<1>2. CASE stage[x] # "idle"
  <2>1. from[x] \in Generation /\ from[x] + 1 \in Generation
    BY <1>2, TwoGenerations
  <2> QED
    BY <2>1, PreservedStays DEF StageHolds, StageNext
<1> QED
  BY <1>1, <1>2

\* The stages in which nothing is claimed.
LEMMA StageOpen ==
    ASSUME NEW x \in Rotator, stage'[x] \in {"idle", "loaded", "create"}
    PROVE  StageNext(x)
BY DEF StageNext

\* A step of x's own command.
LEMMA StageCommand ==
    ASSUME BaseInv, Remain, NEW x \in Rotator, StageHolds(x), Visited(x), Rotate(x)
    PROVE  StageNext(x)
<1>1. /\ stage \in [Rotator -> Stage] /\ from \in [Rotator -> Generation]
      /\ cfg \in [Runner -> Config] /\ x \in Runner
  BY DEF BaseInv, CommandTypeOK, CallsInv, SyncTypeOK
<1>2. CASE LoadConfig(x) \/ CheckEligible(x) \/ SaveConfig(x)
  <2>1. stage'[x] \in {"idle", "loaded", "create"}
    BY <1>1, <1>2 DEF LoadConfig, CheckEligible, SaveConfig, Goto
  <2> QED
    BY <2>1, StageOpen
<1>3. CASE CreateKey(x)
  BY <1>3, StageStill DEF CreateKey, locals
<1>4. CASE Advance(x)
  <2>1. from' = from /\ stage[x] # "idle"
    BY <1>4 DEF Advance, PreserveOld, PreserveNew, Publish, Published, GiveUp, Synchronizing
  <2>2. from[x] \in Generation /\ from[x] + 1 \in Generation
    BY <2>1, TwoGenerations
  <2>3. CASE PreserveOld(x)
    <3>1. stage'[x] = "preserve old" /\ cfg'[x] = ArchiveConfig(from[x])
      BY <1>1, <2>3 DEF PreserveOld, Goto, Call
    <3> QED
      BY <2>1, <3>1 DEF StageNext
  <2>4. CASE PreserveNew(x)
    <3>1. stage'[x] = "preserve new" /\ cfg'[x] = ArchiveConfig(from[x] + 1)
      BY <1>1, <2>4 DEF PreserveNew, Goto, Call
    <3>2. pc[x] = "nil" /\ cfg[x] = ArchiveConfig(from[x])
      BY <2>4 DEF PreserveNew, StageHolds
    <3>3. PreservedNext(from[x])
      BY <1>1, <2>2, <3>2, NilPreserves, PreservedStays
    <3> QED
      BY <2>1, <3>1, <3>3 DEF StageNext
  <2>5. CASE Publish(x)
    <3>1. stage'[x] = "publish"
      BY <1>1, <2>5 DEF Publish, Goto
    <3>2. pc[x] = "nil" /\ cfg[x] = ArchiveConfig(from[x] + 1) /\ Preserved(from[x])
      BY <2>5 DEF Publish, StageHolds
    <3>3. PreservedNext(from[x]) /\ PreservedNext(from[x] + 1)
      BY <1>1, <2>2, <3>2, NilPreserves, PreservedStays
    <3> QED
      BY <2>1, <3>1, <3>3 DEF StageNext
  <2>6. CASE Published(x)
    <3>1. stage'[x] = "save" /\ stage[x] = "publish"
      BY <1>1, <2>6 DEF Published, Goto
    <3>2. PreservedNext(from[x]) /\ PreservedNext(from[x] + 1)
      BY <2>2, <3>1, PreservedStays DEF StageHolds
    <3> QED
      BY <2>1, <3>1, <3>2 DEF StageNext
  <2>7. CASE GiveUp(x)
    <3>1. stage'[x] = "idle"
      BY <1>1, <2>7 DEF GiveUp, Goto
    <3> QED
      BY <3>1, StageOpen
  <2> QED
    BY <1>4, <2>3, <2>4, <2>5, <2>6, <2>7 DEF Advance
<1> QED
  BY <1>2, <1>3, <1>4 DEF Rotate

\* What any step does to the stage of x: nothing, an end, or a step of x.
LEMMA StageStep ==
    ASSUME BaseInv, [Next]_vars, NEW x \in Rotator
    PROVE  \/ Rotate(x)
           \/ stage'[x] = "idle"
           \/ stage'[x] = stage[x] /\ from'[x] = from[x] /\ cfg'[x] = cfg[x]
<1> DEFINE Same == stage'[x] = stage[x] /\ from'[x] = from[x] /\ cfg'[x] = cfg[x]
<1>1. /\ stage \in [Rotator -> Stage] /\ from \in [Rotator -> Generation]
      /\ cfg \in [Runner -> Config] /\ x \in Runner
  BY DEF BaseInv, CommandTypeOK, CallsInv, SyncTypeOK
<1>2. ASSUME NEW r \in Service, Poll(r)
      PROVE  Same
  BY <1>1, <1>2 DEF Poll, Call, rotation, Service
<1>3. ASSUME NEW r \in Runner, Work(r)
      PROVE  Same
  BY <1>3, SyncShape DEF Work, rotation
<1>4. ASSUME NEW y \in Rotator \ {x}, Rotate(y)
      PROVE  Same
  <2>1. CASE LoadConfig(y) \/ CheckEligible(y) \/ CreateKey(y) \/ SaveConfig(y)
    BY <1>1, <1>4, <2>1 DEF LoadConfig, CheckEligible, CreateKey, SaveConfig, Goto, locals
  <2>2. CASE Advance(y)
    <3>1. from' = from /\ \E s \in Stage : stage' = [stage EXCEPT ![y] = s]
      BY <2>2 DEF Advance, PreserveOld, PreserveNew, Publish, Published, GiveUp, Goto,
                  Stage, Synchronizing
    <3>2. cfg' = cfg \/ \E c : cfg' = [cfg EXCEPT ![y] = c]
      BY <2>2 DEF Advance, PreserveOld, PreserveNew, Publish, Published, GiveUp, Call, locals
    <3> QED
      BY <1>1, <1>4, <3>1, <3>2
  <2> QED
    BY <1>4, <2>1, <2>2 DEF Rotate
<1>5. CASE Disturb
  <2>1. ASSUME NEW y \in Rotator, Abort(y)
        PROVE  stage'[x] = "idle" \/ Same
    <3>1. stage' = [stage EXCEPT ![y] = "idle"] /\ from' = from /\ cfg' = cfg
      BY <2>1 DEF Abort, Goto, Return, locals
    <3> QED
      BY <1>1, <3>1
  <2>2. ASSUME UNCHANGED rotation,
               \/ \E c \in Cluster : Failover(c) \/ CephChanges(c)
               \/ \E r \in Runner : CallFails(r) \/ AnswerLost(r)
        PROVE  Same
    BY <2>2 DEF Failover, CephChanges, CallFails, AnswerLost, Return, locals, rotation
  <2> QED
    BY <1>5, <2>1, <2>2 DEF Disturb
<1>6. CASE UNCHANGED vars
  BY <1>6 DEF vars
<1> QED
  BY <1>2, <1>3, <1>4, <1>5, <1>6 DEF Next

LEMMA StagesNext ==
    ASSUME BaseInv, ArchivesInv, [Next]_vars, Remain, NEW x \in Rotator
    PROVE  StageHolds(x)'
<1>1. StageHolds(x) /\ Visited(x) /\ x \in Runner
  BY DEF ArchivesInv
<1>2. CASE Rotate(x)
  BY <1>1, <1>2, StageCommand, StageShown
<1>3. CASE stage'[x] = "idle"
  BY <1>3, StageOpen, StageShown
<1>4. CASE stage'[x] = stage[x] /\ from'[x] = from[x] /\ cfg'[x] = cfg[x]
  BY <1>1, <1>4, StageStill, StageShown
<1> QED
  BY <1>2, <1>3, <1>4, StageStep

\* The configuration file changes when a rotation that has preserved both
\* generations saves it.
LEMMA ConfigNext ==
    ASSUME BaseInv, ArchivesInv, [Next]_vars, Remain
    PROVE  PairPreserved(config)'
<1>1. config \in Generation /\ PairPreserved(config)
  BY DEF BaseInv, CommandTypeOK, ArchivesInv
<1>2. PairNext(config') => PairPreserved(config)'
  BY DEF PairNext, PreservedNext, PairPreserved, Preserved, ArchiveEntry, ArchiveConfig
<1>3. CASE config' = config
  BY <1>1, <1>2, <1>3, PairStays
<1>4. ASSUME NEW x \in Rotator, SaveConfig(x)
      PROVE  PairPreserved(config)'
  <2>1. stage[x] = "save" /\ config' = from[x] + 1
    BY <1>4 DEF SaveConfig
  <2>2. from[x] \in Generation /\ from[x] + 1 \in Generation
    <3>1. stage[x] # "idle"
      BY <2>1
    <3> QED
      BY <3>1, TwoGenerations
  <2>3. PreservedNext(from[x]) /\ PreservedNext(from[x] + 1)
    BY <2>1, <2>2, PreservedStays DEF ArchivesInv, StageHolds
  <2>4. config' - 1 = from[x]
    BY <2>1, <2>2, GenerationFacts
  <2> QED
    BY <1>2, <2>1, <2>3, <2>4 DEF PairNext
<1>5. config' = config \/ \E x \in Rotator : SaveConfig(x)
  BY DEF Next, vars, Poll, Work, Rotate, Advance, LoadConfig, CheckEligible, CreateKey,
         Disturb, Abort, rotation
<1> QED
  BY <1>3, <1>4, <1>5

-----------------------------------------------------------------------------

LEMMA ArchivesInit == Init => ArchivesInv
<1> SUFFICES ASSUME Init
             PROVE  ArchivesInv
  OBVIOUS
<1>1. \A r \in Runner : Visited(r) /\ CallHolds(r)
  BY DEF Init, SyncInit, Visited, CallHolds, PairPreserved
<1>2. \A x \in Rotator : StageHolds(x)
  BY DEF Init, StageHolds
<1>3. ASSUME NEW i \in StandardIndex, NEW g \in Generation
      PROVE  ArchiveRight(i, g)
  <2>1. PathOf(i, ArchiveConfig(g)) \in Path /\ PathOf(i, ArchiveConfig(g)).gen # Stable
    <3>1. PathOf(i, ArchiveConfig(g)).gen = g /\ g \in Nat /\ ArchiveConfig(g) \in Config
      BY GenerationFacts DEF PathOf, ArchiveConfig
    <3> QED
      BY <3>1, PathOfType DEF StandardIndex, Stable
  <2> QED
    BY <2>1 DEF Init, SyncInit, Absent, ArchiveRight, ArchiveEntry
<1>4. ASSUME NEW i \in StandardIndex
      PROVE  StableRight(i)
  <2>1. PathOf(i, PlainConfig(0)) \in Path
    <3>1. 0 \in Generation
      BY CredentialsAssumption DEF Generation
    <3> QED
      BY <3>1, GenerationFacts, PathOfType DEF StandardIndex
  <2> QED
    BY <2>1 DEF Init, SyncInit, StableRight, StableData, Managed, StoredFSID, Absent, NoData,
                KVWritten, Adopted
<1>5. PairPreserved(config)
  BY DEF Init, PairPreserved
<1> QED
  BY <1>1, <1>2, <1>3, <1>4, <1>5 DEF ArchivesInv

LEMMA ArchivesNext == BaseInv /\ ArchivesInv /\ AsksAsActive /\ [Next]_vars => ArchivesInv'
<1> SUFFICES ASSUME BaseInv, ArchivesInv, AsksAsActive, [Next]_vars
             PROVE  ArchivesInv'
  OBVIOUS
<1>1. Step /\ Remain
  BY EveryStep, SecretsRemain
<1>2. \A i \in StandardIndex, g \in Generation : ArchiveRight(i, g)'
  BY <1>1, ArchiveKept DEF ArchivesInv
<1>3. \A i \in StandardIndex : StableRight(i)'
  BY <1>1, StableKept DEF ArchivesInv
<1>4. Calls' /\ PairPreserved(config)' /\ \A x \in Rotator : StageHolds(x)'
  BY <1>1, CallsNext, ConfigNext, StagesNext
<1> QED
  BY <1>2, <1>3, <1>4 DEF ArchivesInv, Calls

\* Whenever the configuration names generation g > 0, Vault preserves every
\* standard credential of g - 1 and of g, each under its own number, unless a
\* rotation becomes a standby half-way: whatever rotations overlap, fail or are
\* killed, and however often the active manager moves between other hosts (order
\* of the calls in rotateCredentials; runRotate replaces the configuration last).
THEOREM ArchivedFirst == Spec /\ []AsksAsActive => []ArchivedBeforeActive
<1>1. BaseInv /\ ArchivesInv => ArchivedBeforeActive
  <2> SUFFICES ASSUME BaseInv, ArchivesInv, config > 0,
                      NEW i \in StandardIndex, NEW g \in {config - 1, config}
               PROVE  ArchiveEntry(i, g).exists /\ ArchiveEntry(i, g).data.fields.entity.gen = g
    BY DEF ArchivedBeforeActive
  <2>1. g \in Generation
    BY CredentialsAssumption DEF BaseInv, CommandTypeOK, Generation
  <2>2. Preserved(g)
    BY DEF ArchivesInv, PairPreserved
  <2> QED
    BY <2>1, <2>2 DEF ArchivesInv, ArchiveRight, Preserved
<1> QED
  BY <1>1, BaseInit, BaseNext, ArchivesInit, ArchivesNext, PTL DEF Spec

\* A stable path never runs ahead of what is preserved: a generation beyond
\* the configured one is only published once both archives exist, under the
\* same condition (order of the calls in rotateCredentials).
THEOREM NeverAhead == Spec /\ []AsksAsActive => []NeverAheadOfArchives
<1>1. BaseInv /\ ArchivesInv => NeverAheadOfArchives
  <2> SUFFICES ASSUME BaseInv, ArchivesInv, NEW i \in StandardIndex, Managed(StableData(i)),
                      StableData(i).fields.entity.gen > config,
                      NEW h \in {StableData(i).fields.entity.gen - 1,
                                 StableData(i).fields.entity.gen}
               PROVE  ArchiveEntry(i, h).exists
    BY DEF NeverAheadOfArchives
  <2>1. StableData(i).fields.entity.gen \in Generation /\ config \in Generation
        /\ PairPreserved(StableData(i).fields.entity.gen)
    BY DEF ArchivesInv, StableRight, BaseInv, CommandTypeOK
  <2>2. \A g, k \in Generation : g > k => g > 0
    BY CredentialsAssumption DEF Generation
  <2> QED
    BY <2>1, <2>2 DEF PairPreserved, Preserved
<1> QED
  BY <1>1, BaseInit, BaseNext, ArchivesInit, ArchivesNext, PTL DEF Spec
=============================================================================
