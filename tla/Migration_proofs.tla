--------------------------- MODULE Migration_proofs ---------------------------
(***************************************************************************)
(* The safety of Migration for any number of runs, overlapping or not, of  *)
(* daemons, Rook entities, polls and faults.                               *)
(*                                                                         *)
(* SecureInv relates what a run remembers, its inventory, the daemon it is *)
(* at and the key it has staged, to the keys that the monitors and the     *)
(* daemons hold.  Its heart is that a key that is secure stays secure, so  *)
(* that an inventory is right about secure keys for as long as it is used. *)
(***************************************************************************)
EXTENDS Migration, TLAPS

USE MigrationAssumption

-----------------------------------------------------------------------------
(* Types.                                                                  *)

\* The generation a run works on: each run advances it at most once.
GenerationsHold ==
    /\ config <= runs
    /\ \A x \in Migrator :
        /\ gen[x] <= serial[x]
        /\ stage[x] \notin {"idle", "save"} => gen[x] < serial[x]
        /\ stage[x] \in {"stage", "install", "restart", "await"} => next[x] <= Len(Daemons)

TypeInv == TypeOK /\ GenerationsHold

LEMMA ThisDaemon ==
    ASSUME TypeInv, NEW x \in Migrator, next[x] <= Len(Daemons)
    PROVE  /\ next[x] \in DOMAIN Daemons /\ This(x) \in Daemon
BY DEF TypeInv, TypeOK, This, Daemon

\* A run that ends has no state of its own.
LEMMA EndTypes ==
    ASSUME TypeInv, NEW x \in Migrator, NEW result \in {"none", "done", "failed"},
           End(x, result)
    PROVE  /\ stage' \in [Migrator -> Stage]
           /\ outcome' \in [Migrator -> {"none", "done", "failed"}]
           /\ states' \in [Migrator -> Inventory]
           /\ next' \in [Migrator -> 1..Len(Daemons) + 1]
           /\ key' \in [Migrator -> Key]
           /\ polls' \in [Migrator -> 0..Polls - 1]
           /\ missing' \in [Migrator -> SUBSET RookEntity]
           /\ \A y \in Migrator : stage'[y] = IF y = x THEN "idle" ELSE stage[y]
           /\ \A y \in Migrator \ {x} : next'[y] = next[y]
<1>1. NoInventory \in Inventory
  BY DEF NoInventory, Inventory, KeyState, KeyType, Absent
<1>2. NoKey \in Key
  BY DEF NoKey, Key, KeyType
<1>3. 1 \in 1..Len(Daemons) + 1 /\ 0 \in 0..Polls - 1
  OBVIOUS
<1>4. stage' = [stage EXCEPT ![x] = "idle"] /\ "idle" \in Stage
  BY DEF End, Goto, Stage
<1> QED
  BY <1>1, <1>2, <1>3, <1>4 DEF End, TypeInv, TypeOK

\* A run that ends leaves the invariant as it is.
LEMMA EndKeeps ==
    ASSUME TypeInv, NEW x \in Migrator, NEW result \in {"none", "done", "failed"},
           End(x, result), UNCHANGED <<monitors, running, gen, serial, runs>>,
           keyring' \in [Daemon -> Key], config' \in Generation, config' <= runs,
           faults' \in 0..MaxFaults
    PROVE  TypeInv'
<1>1. TypeOK'
  BY EndTypes DEF TypeInv, TypeOK, monitors
<1>2. GenerationsHold'
  BY EndTypes DEF TypeInv, GenerationsHold
<1> QED
  BY <1>1, <1>2 DEF TypeInv

\* A run that goes on with the same generation.
LEMMA GoOn ==
    ASSUME TypeInv, NEW x \in Migrator, NEW s, Goto(x, s),
           stage[x] \notin {"idle", "save"},
           s \in {"stage", "install", "restart", "await"} => next[x] <= Len(Daemons),
           UNCHANGED <<gen, serial, config, runs, next>>
    PROVE  GenerationsHold'
BY DEF Goto, TypeInv, TypeOK, GenerationsHold

\* What no action of a run but its first touches.
LEMMA RunTypes ==
    ASSUME TypeInv, NEW x \in Migrator, Migrate(x)
    PROVE  TypeInv'
<1> USE DEF Generation
<1>s. \A s \in Stage : Goto(x, s) =>
          /\ stage' \in [Migrator -> Stage]
          /\ \A y \in Migrator : stage'[y] = IF y = x THEN s ELSE stage[y]
  BY DEF Goto, TypeInv, TypeOK
<1>n. /\ faults' = faults /\ runs' = runs /\ serial' = serial
      /\ faults \in 0..MaxFaults /\ runs \in 0..MaxRuns
      /\ serial \in [Migrator -> 0..runs]
  BY DEF Migrate, RunMigrationHelper, TakeInventory, CheckPendingKeyPromotion,
         InspectDaemon, StagePendingKey, InstallRGWKey, RestartRGW, AwaitKeyPromotion,
         DecideRotation, CreateKey, Publish, SaveConfig, TypeInv, TypeOK
<1>1. CASE RunMigrationHelper(x)
  BY <1>1, <1>n, <1>s DEF RunMigrationHelper, hosts, TypeInv, TypeOK, GenerationsHold, Stage
<1>2. CASE TakeInventory(x)
  <2>1. [d \in Daemon |-> [current |-> current[d].type, pending |-> pending[d].type]]
            \in [Daemon -> KeyState]
    BY DEF TypeInv, TypeOK, Key, KeyState
  <2>2. states' \in [Migrator -> Inventory]
    BY <1>2, <2>1 DEF TakeInventory, Inventory, TypeInv, TypeOK
  <2> QED
    BY <1>2, <1>n, <1>s, <2>2
       DEF TakeInventory, monitors, hosts, TypeInv, TypeOK, GenerationsHold, Stage
<1>3. CASE CheckPendingKeyPromotion(x)
  <2>1. CASE End(x, "failed")
    BY <1>3, <1>n, <2>1, EndKeeps
       DEF CheckPendingKeyPromotion, hosts, TypeInv, TypeOK, GenerationsHold
  <2>2. CASE Goto(x, "daemon") /\ UNCHANGED <<outcome, states, next, key, polls, missing>>
    BY <1>3, <1>n, <1>s, <2>2
       DEF CheckPendingKeyPromotion, monitors, hosts, TypeInv, TypeOK, GenerationsHold, Stage
  <2> QED
    BY <1>3, <2>1, <2>2 DEF CheckPendingKeyPromotion
<1>4. CASE InspectDaemon(x)
  <2>1. CASE End(x, "failed")
    BY <1>4, <1>n, <2>1, EndKeeps
       DEF InspectDaemon, hosts, TypeInv, TypeOK, GenerationsHold
  <2>2. CASE Goto(x, "stage") /\ UNCHANGED <<outcome, states, next, key, polls, missing>>
    BY <1>4, <1>n, <1>s, <2>2
       DEF InspectDaemon, monitors, hosts, TypeInv, TypeOK, GenerationsHold, Stage
  <2>3. CASE /\ next' = [next EXCEPT ![x] = @ + 1]
             /\ UNCHANGED <<stage, outcome, states, key, polls, missing>>
    BY <1>4, <1>n, <2>3
       DEF InspectDaemon, monitors, hosts, TypeInv, TypeOK, GenerationsHold
  <2> QED
    BY <1>4, <2>1, <2>2, <2>3 DEF InspectDaemon
<1>5. CASE StagePendingKey(x)
  <2>1. This(x) \in Daemon
    BY <1>5, ThisDaemon DEF StagePendingKey, TypeInv, GenerationsHold
  <2>2. PICK k : /\ k = IF pending[This(x)] = NoKey THEN NewKey(x) ELSE pending[This(x)]
                 /\ pending' = [pending EXCEPT ![This(x)] = k]
                 /\ key' = [key EXCEPT ![x] = k]
    BY <1>5 DEF StagePendingKey
  <2>3. NewKey(x) \in Key
    <3>1. serial[x] + 1 \in 0..MaxRuns + 1 /\ next[x] \in 0..Len(Daemons)
      BY <1>5, <1>n DEF StagePendingKey, TypeInv, TypeOK, GenerationsHold
    <3> QED
      BY <3>1 DEF NewKey, Key, KeyType
  <2>4. k \in Key
    BY <2>1, <2>2, <2>3 DEF TypeInv, TypeOK
  <2>5. pending' \in [Daemon -> Key] /\ key' \in [Migrator -> Key]
    BY <2>2, <2>4 DEF TypeInv, TypeOK
  <2>6. stage' \in [Migrator -> Stage]
    BY <1>5, <1>s DEF StagePendingKey, Stage
  <2>7. TypeOK'
    BY <1>5, <1>n, <2>5, <2>6 DEF StagePendingKey, hosts, TypeInv, TypeOK
  <2>8. GenerationsHold'
    BY <1>5, <1>n, GoOn DEF StagePendingKey, TypeInv, GenerationsHold
  <2> QED
    BY <2>7, <2>8 DEF TypeInv
<1>6. CASE InstallRGWKey(x)
  BY <1>6, <1>n, <1>s
     DEF InstallRGWKey, monitors, TypeInv, TypeOK, GenerationsHold, Stage
<1>7. CASE RestartRGW(x)
  <2>1. This(x) \in Daemon
    BY <1>7, ThisDaemon DEF RestartRGW, TypeInv, GenerationsHold
  <2>2. TypeOK'
    BY <1>7, <1>n, <1>s, <2>1 DEF RestartRGW, monitors, TypeInv, TypeOK, Stage
  <2>3. GenerationsHold'
    BY <1>7, <1>n, GoOn DEF RestartRGW, TypeInv, GenerationsHold
  <2> QED
    BY <2>2, <2>3 DEF TypeInv
<1>8. CASE AwaitKeyPromotion(x)
  <2>1. CASE End(x, "failed")
    BY <1>8, <1>n, <2>1, EndKeeps
       DEF AwaitKeyPromotion, hosts, TypeInv, TypeOK, GenerationsHold
  <2>2. CASE Promoted(x)
    <3>1. next[x] <= Len(Daemons) /\ next[x] \in 1..Len(Daemons) + 1
      BY <1>8 DEF AwaitKeyPromotion, TypeInv, TypeOK, GenerationsHold
    <3>2. next' \in [Migrator -> 1..Len(Daemons) + 1]
      BY <2>2, <3>1 DEF Promoted, TypeInv, TypeOK
    <3>3. key' \in [Migrator -> Key] /\ polls' \in [Migrator -> 0..Polls - 1]
      BY <2>2 DEF Promoted, TypeInv, TypeOK, NoKey, Key, KeyType
    <3> QED
      BY <1>8, <1>n, <1>s, <2>2, <3>2, <3>3
         DEF AwaitKeyPromotion, Promoted, monitors, hosts, TypeInv, TypeOK,
             GenerationsHold, Stage
  <2>3. CASE /\ polls[x] + 1 < Polls
             /\ polls' = [polls EXCEPT ![x] = @ + 1]
             /\ UNCHANGED <<stage, outcome, states, next, key, missing>>
    BY <1>8, <1>n, <2>3
       DEF AwaitKeyPromotion, monitors, hosts, TypeInv, TypeOK, GenerationsHold
  <2> QED
    BY <1>8, <2>1, <2>2, <2>3 DEF AwaitKeyPromotion
<1>9. CASE DecideRotation(x)
  <2>1. CASE \E result \in {"failed", "done"} : End(x, result)
    BY <1>9, <1>n, <2>1, EndKeeps
       DEF DecideRotation, hosts, TypeInv, TypeOK, GenerationsHold
  <2>2. CASE /\ Goto(x, "create")
             /\ missing' = [missing EXCEPT ![x] = RookEntity]
             /\ UNCHANGED <<outcome, states, next, key, polls>>
    BY <1>9, <1>n, <1>s, <2>2
       DEF DecideRotation, monitors, hosts, TypeInv, TypeOK, GenerationsHold, Stage
  <2> QED
    BY <1>9, <2>1, <2>2 DEF DecideRotation
<1>10. CASE CreateKey(x)
  <2>1. PICK e \in missing[x] :
            /\ rook' = [rook EXCEPT ![e][gen[x] + 1] = IF @ = Absent THEN Secure ELSE @]
            /\ missing' = [missing EXCEPT ![x] = @ \ {e}]
    BY <1>10 DEF CreateKey
  <2>2. e \in RookEntity /\ gen[x] + 1 \in 0..MaxRuns
    <3>1. gen[x] < serial[x]
      BY <1>10 DEF CreateKey, TypeInv, GenerationsHold
    <3>2. e \in RookEntity /\ gen[x] \in 0..MaxRuns
      BY DEF TypeInv, TypeOK
    <3> QED
      BY <1>n, <3>1, <3>2
  <2>3. rook' \in [RookEntity -> [Generation -> KeyType]]
    BY <2>1, <2>2 DEF TypeInv, TypeOK, KeyType
  <2>4. missing' \in [Migrator -> SUBSET RookEntity]
    BY <2>1 DEF TypeInv, TypeOK
  <2> QED
    BY <1>10, <1>n, <2>3, <2>4 DEF CreateKey, hosts, TypeInv, TypeOK, GenerationsHold
<1>11. CASE Publish(x)
  <2>1. gen[x] \in 0..MaxRuns /\ gen[x] + 1 <= serial[x] /\ serial[x] \in 0..MaxRuns
    <3>1. gen[x] < serial[x] /\ gen[x] \in 0..MaxRuns
      BY <1>11 DEF Publish, TypeInv, TypeOK, GenerationsHold
    <3> QED
      BY <1>n, <3>1
  <2>2. gen' \in [Migrator -> Generation]
    BY <1>11, <2>1 DEF Publish, TypeInv, TypeOK
  <2>3. stage' \in [Migrator -> Stage]
    BY <1>11, <1>s DEF Publish, Stage
  <2>4. TypeOK'
    BY <1>11, <1>n, <2>2, <2>3 DEF Publish, monitors, hosts, TypeInv, TypeOK
  <2>5. \A y \in Migrator : /\ gen'[y] = IF y = x THEN gen[x] + 1 ELSE gen[y]
                            /\ stage'[y] = IF y = x THEN "save" ELSE stage[y]
    BY <1>11, <1>s DEF Publish, Stage, TypeInv, TypeOK
  <2>6. GenerationsHold'
    BY <1>11, <1>n, <2>1, <2>5 DEF Publish, TypeInv, GenerationsHold
  <2> QED
    BY <2>4, <2>6 DEF TypeInv
<1>12. CASE SaveConfig(x)
  <2>1. gen[x] \in 0..MaxRuns /\ gen[x] <= serial[x] /\ serial[x] <= runs
    BY <1>n DEF TypeInv, TypeOK, GenerationsHold
  <2>2. End(x, "done") /\ config' = gen[x] /\ runs' = runs
    BY <1>12 DEF SaveConfig
  <2>3. /\ UNCHANGED <<monitors, running, gen, serial, runs>> /\ keyring' = keyring
        /\ keyring \in [Daemon -> Key]
    BY <1>12 DEF SaveConfig, hosts, TypeInv, TypeOK
  <2> QED
    BY <1>n, <2>1, <2>2, <2>3, EndKeeps
<1> QED
  BY <1>1, <1>2, <1>3, <1>4, <1>5, <1>6, <1>7, <1>8, <1>9, <1>10, <1>11, <1>12 DEF Migrate

LEMMA StepTypes ==
    ASSUME TypeInv, [Next]_vars
    PROVE  TypeInv'
<1> USE DEF Generation
<1>1. ASSUME NEW x \in Migrator, LoadConfig(x), faults' = faults
      PROVE  TypeInv'
  <2>1. runs \in Nat /\ runs + 1 \in 0..MaxRuns /\ serial \in [Migrator -> 0..runs]
    BY <1>1 DEF LoadConfig, TypeInv, TypeOK
  <2>2. serial' \in [Migrator -> 0..runs']
    BY <1>1, <2>1 DEF LoadConfig
  <2>3. /\ stage' \in [Migrator -> Stage]
        /\ outcome' \in [Migrator -> {"none", "done", "failed"}]
        /\ gen' \in [Migrator -> Generation]
    BY <1>1 DEF LoadConfig, Goto, Stage, TypeInv, TypeOK
  <2>4. TypeOK'
    BY <1>1, <2>1, <2>2, <2>3 DEF LoadConfig, monitors, hosts, TypeInv, TypeOK
  <2>5. \A y \in Migrator : /\ gen'[y] = IF y = x THEN config ELSE gen[y]
                            /\ serial'[y] = IF y = x THEN runs + 1 ELSE serial[y]
                            /\ stage'[y] = IF y = x THEN "helper" ELSE stage[y]
                            /\ next'[y] = next[y]
    BY <1>1 DEF LoadConfig, Goto, TypeInv, TypeOK
  <2>6. config' = config /\ runs' = runs + 1 /\ config <= runs /\ config \in Nat
    BY <1>1 DEF LoadConfig, TypeInv, TypeOK, GenerationsHold
  <2> QED
    BY <2>1, <2>4, <2>5, <2>6 DEF TypeInv, GenerationsHold
<1>2. ASSUME NEW x \in Migrator, Fails(x) \/ InstallNothing(x), faults' \in 0..MaxFaults
      PROVE  TypeInv'
  <2>1. End(x, "failed")
    BY <1>2 DEF Fails, InstallNothing
  <2>2. keyring' \in [Daemon -> Key]
    <3>1. NoKey \in Key
      BY DEF NoKey, Key, KeyType
    <3> QED
      BY <1>2, <3>1 DEF Fails, InstallNothing, hosts, TypeInv, TypeOK, NoKey, Key, KeyType
  <2> QED
    BY <1>2, <2>1, <2>2, EndKeeps
       DEF Fails, InstallNothing, hosts, TypeInv, TypeOK, GenerationsHold
<1>3. ASSUME NEW d \in Daemon, DaemonRestarts(d), faults' \in 0..MaxFaults
      PROVE  TypeInv'
  BY <1>3 DEF DaemonRestarts, monitors, locals, TypeInv, TypeOK, GenerationsHold
<1>4. ASSUME PromotionChanges, faults' \in 0..MaxFaults
      PROVE  TypeInv'
  <2>1. promotes' \in BOOLEAN
    BY <1>4 DEF PromotionChanges
  <2> QED
    BY <1>4, <2>1 DEF PromotionChanges, hosts, locals, TypeInv, TypeOK, GenerationsHold
<1>5. ASSUME NEW d \in Daemon, Authenticate(d)
      PROVE  TypeInv'
  <2>1. NoKey \in Key
    BY DEF NoKey, Key, KeyType
  <2>2. current' \in [Daemon -> Key] /\ pending' \in [Daemon -> Key]
    BY <1>5, <2>1 DEF Authenticate, TypeInv, TypeOK
  <2> QED
    BY <1>5, <2>2 DEF Authenticate, hosts, locals, TypeInv, TypeOK, GenerationsHold
<1>6. CASE UNCHANGED vars
  BY <1>6 DEF vars, TypeInv, TypeOK, GenerationsHold
<1>7. Disturb => faults' \in 0..MaxFaults
  BY DEF Disturb, TypeInv, TypeOK
<1> QED
  BY <1>1, <1>2, <1>3, <1>4, <1>5, <1>6, <1>7, RunTypes DEF Next, Disturb

LEMMA InitTypes == Init => TypeInv
<1> SUFFICES ASSUME Init PROVE TypeInv
  OBVIOUS
<1> USE DEF Generation
<1>1. current \in [Daemon -> Key]
  BY DEF Init, Key
<1>2. pending \in [Daemon -> Key]
  <2>1. NoKey \in Key /\ [type |-> "aes", n |-> 1, at |-> 0] \in Key
    BY DEF NoKey, Key, KeyType
  <2> QED
    BY <2>1 DEF Init
<1>3. rook \in [RookEntity -> [Generation -> KeyType]]
  BY DEF Init, KeyType
<1>4. states \in [Migrator -> Inventory]
  BY DEF Init, NoInventory, Inventory, KeyState, KeyType, Absent
<1>5. key \in [Migrator -> Key]
  BY DEF Init, NoKey, Key, KeyType
<1>6. keyring \in [Daemon -> Key] /\ running \in [Daemon -> Key]
  BY <1>1 DEF Init
<1>7. stage \in [Migrator -> Stage]
  BY DEF Init, Stage
<1>8. next \in [Migrator -> 1..Len(Daemons) + 1] /\ polls \in [Migrator -> 0..Polls - 1]
  BY DEF Init
<1>9. /\ outcome \in [Migrator -> {"none", "done", "failed"}]
      /\ serial \in [Migrator -> 0..runs] /\ gen \in [Migrator -> Generation]
      /\ missing \in [Migrator -> SUBSET RookEntity]
      /\ promotes \in BOOLEAN /\ config \in Generation
      /\ runs \in 0..MaxRuns /\ faults \in 0..MaxFaults
  BY DEF Init
<1>10. TypeOK
  BY <1>1, <1>2, <1>3, <1>4, <1>5, <1>6, <1>7, <1>8, <1>9 DEF TypeOK
<1>11. GenerationsHold
  BY DEF Init, GenerationsHold
<1> QED
  BY <1>10, <1>11 DEF TypeInv

\* Every variable keeps its type: in particular no run works on a generation
\* above the number of runs started, so that the generation it creates exists.
\* (runMigrate, rotateCredentials.)
THEOREM TypeCorrect == Spec => []TypeOK
<1>1. TypeInv => TypeOK
  BY DEF TypeInv
<1> QED
  BY InitTypes, StepTypes, <1>1, PTL DEF Spec

-----------------------------------------------------------------------------
(* Secure keys.                                                            *)

ByHand == [type |-> "aes", n |-> 1, at |-> 0]

\* The keys: the only key that is not secure and was not there from the
\* beginning is the one staged by hand, and it is installed nowhere.
KeysHold ==
    \A d \in Daemon :
        /\ pending[d] \in {NoKey, ByHand} \/ IsSecure(pending[d])
        /\ IsSecure(keyring[d]) \/ keyring[d].n = 0
        /\ IsSecure(running[d]) \/ running[d].n = 0

RookHolds == \A e \in RookEntity, g \in Generation : rook[e][g] = "aes" => g = 0

Uninformed == {"idle", "helper", "inventory"}

\* What the inventory of x says of secure keys, and of a key staged by hand, is
\* still true.
InventoryHolds(x) ==
    stage[x] \notin Uninformed =>
        /\ \A d \in Daemon :
            /\ states[x].rgw[d].current = Secure => IsSecure(current[d])
            /\ pending[d] = ByHand => states[x].rgw[d].pending = "aes"
        /\ \A e \in RookEntity, g \in Generation :
            states[x].rook[e][g] = Secure => rook[e][g] = Secure

\* The run of x has given every daemon before the one it is at a secure key,
\* and offers the one it is at no other.
DaemonsHold(x) ==
    /\ \A j \in DOMAIN Daemons : j < next[x] => IsSecure(current[Daemons[j]])
    /\ stage[x] = "stage" => states[x].rgw[Daemons[next[x]]].pending # "aes"
    /\ stage[x] \in {"install", "restart", "await"} => IsSecure(key[x])

RotationHolds(x) ==
    /\ stage[x] \in {"create", "save"} => next[x] > Len(Daemons)
    /\ stage[x] = "create" =>
        \A e \in RookEntity \ missing[x] : rook[e][gen[x] + 1] = Secure
    /\ stage[x] = "save" => \A e \in RookEntity : rook[e][gen[x]] = Secure

\* A run that reports success leaves no insecure key behind.
OutcomeHolds(x) ==
    /\ stage[x] # "idle" => outcome[x] = "none"
    /\ outcome[x] = "done" =>
        /\ \A d \in Daemon : IsSecure(current[d])
        /\ \A e \in RookEntity : rook[e][gen[x]] = Secure

RunHolds(x) ==
    InventoryHolds(x) /\ DaemonsHold(x) /\ RotationHolds(x) /\ OutcomeHolds(x)

SecureInv ==
    /\ TypeInv /\ KeysHold /\ RookHolds
    /\ \A x \in Migrator : RunHolds(x)

\* What the run of y knows and where it is.
Same(y) ==
    /\ stage'[y] = stage[y] /\ outcome'[y] = outcome[y] /\ gen'[y] = gen[y]
    /\ states'[y] = states[y] /\ next'[y] = next[y] /\ key'[y] = key[y]
    /\ missing'[y] = missing[y] /\ serial'[y] = serial[y]

\* A step of one run.
RunStep(x) == LoadConfig(x) \/ Migrate(x) \/ Fails(x) \/ InstallNothing(x)

\* It changes nothing of the other runs.
LEMMA OthersSame ==
    ASSUME TypeInv, NEW x \in Migrator, RunStep(x), NEW y \in Migrator, y # x
    PROVE  Same(y)
<1> USE DEF Same, Goto
<1>e. ASSUME NEW result, End(x, result), UNCHANGED <<gen, serial>>
      PROVE  Same(y)
  BY <1>e DEF End, TypeInv, TypeOK
<1>1. CASE LoadConfig(x)
  BY <1>1 DEF LoadConfig, TypeInv, TypeOK
<1>2. CASE Fails(x) \/ InstallNothing(x)
  BY <1>2, <1>e DEF Fails, InstallNothing
<1>3. CASE RunMigrationHelper(x) \/ TakeInventory(x)
  BY <1>3 DEF RunMigrationHelper, TakeInventory, TypeInv, TypeOK
<1>4. CASE CheckPendingKeyPromotion(x)
  BY <1>4, <1>e DEF CheckPendingKeyPromotion, TypeInv, TypeOK
<1>5. CASE InspectDaemon(x)
  BY <1>5, <1>e DEF InspectDaemon, TypeInv, TypeOK
<1>6. CASE StagePendingKey(x) \/ InstallRGWKey(x) \/ RestartRGW(x)
  BY <1>6 DEF StagePendingKey, InstallRGWKey, RestartRGW, TypeInv, TypeOK
<1>7. CASE AwaitKeyPromotion(x)
  BY <1>7, <1>e DEF AwaitKeyPromotion, Promoted, TypeInv, TypeOK
<1>8. CASE DecideRotation(x)
  BY <1>8, <1>e DEF DecideRotation, TypeInv, TypeOK
<1>9. CASE CreateKey(x) \/ Publish(x)
  BY <1>9 DEF CreateKey, Publish, TypeInv, TypeOK
<1>10. CASE SaveConfig(x)
  BY <1>10, <1>e DEF SaveConfig
<1> QED
  BY <1>1, <1>2, <1>3, <1>4, <1>5, <1>6, <1>7, <1>8, <1>9, <1>10 DEF RunStep, Migrate

\* The steps, by what they do to the keys: most do nothing, four stage, install,
\* load and retire a key of one daemon, one creates a Rook credential.
LEMMA KeySteps ==
    ASSUME [Next]_vars
    PROVE  \/ UNCHANGED <<current, pending, keyring, running, rook>>
           \/ \E x \in Migrator : StagePendingKey(x) \/ InstallRGWKey(x)
                                    \/ InstallNothing(x) \/ RestartRGW(x) \/ CreateKey(x)
           \/ \E d \in Daemon : Authenticate(d) \/ DaemonRestarts(d)
<1> USE DEF monitors, hosts
<1>1. ASSUME NEW x \in Migrator, Migrate(x)
      PROVE  \/ UNCHANGED <<current, pending, keyring, running, rook>>
             \/ StagePendingKey(x) \/ InstallRGWKey(x) \/ RestartRGW(x) \/ CreateKey(x)
  BY <1>1 DEF Migrate, RunMigrationHelper, TakeInventory, CheckPendingKeyPromotion,
      InspectDaemon, AwaitKeyPromotion, DecideRotation, Publish, SaveConfig
<1>2. ASSUME NEW x \in Migrator, LoadConfig(x) \/ Fails(x)
      PROVE  UNCHANGED <<current, pending, keyring, running, rook>>
  BY <1>2 DEF LoadConfig, Fails
<1>3. PromotionChanges => UNCHANGED <<current, pending, keyring, running, rook>>
  BY DEF PromotionChanges
<1>4. UNCHANGED vars => UNCHANGED <<current, pending, keyring, running, rook>>
  BY DEF vars
<1> QED
  BY <1>1, <1>2, <1>3, <1>4 DEF Next, Disturb

\* A secure key stays secure, and nobody stages an insecure one.
KeysStay ==
    /\ \A d \in Daemon : /\ IsSecure(current[d]) => IsSecure(current'[d])
                         /\ pending'[d] = ByHand => pending[d] = ByHand
    /\ \A e \in RookEntity, g \in Generation : rook[e][g] = Secure => rook'[e][g] = Secure

LEMMA KeysStep ==
    ASSUME SecureInv, [Next]_vars
    PROVE  KeysHold' /\ RookHolds' /\ KeysStay
<1> USE DEF SecureInv
<1>t. /\ current \in [Daemon -> Key] /\ pending \in [Daemon -> Key]
      /\ keyring \in [Daemon -> Key] /\ running \in [Daemon -> Key]
      /\ rook \in [RookEntity -> [Generation -> KeyType]]
  BY DEF TypeInv, TypeOK
<1>1. CASE UNCHANGED <<current, pending, keyring, running, rook>>
  BY <1>1 DEF KeysHold, RookHolds, KeysStay, IsSecure
<1>2. ASSUME NEW x \in Migrator, StagePendingKey(x)
      PROVE  KeysHold' /\ RookHolds' /\ KeysStay
  <2>1. This(x) \in Daemon /\ This(x) = Daemons[next[x]]
    BY <1>2, ThisDaemon DEF StagePendingKey, TypeInv, GenerationsHold, This
  <2>2. pending[This(x)] # ByHand
    BY <1>2, <2>1
       DEF StagePendingKey, RunHolds, InventoryHolds, DaemonsHold, Uninformed
  <2>3. PICK k : /\ IsSecure(k)
                 /\ pending' = [pending EXCEPT ![This(x)] = k]
    BY <1>2, <2>1, <2>2 DEF StagePendingKey, KeysHold, IsSecure, NewKey
  <2>4. UNCHANGED <<current, keyring, running, rook>>
    BY <1>2 DEF StagePendingKey, hosts
  <2>5. ByHand.type # Secure
    BY DEF ByHand, Secure
  <2> QED
    BY <1>t, <2>3, <2>4, <2>5 DEF KeysHold, RookHolds, KeysStay, IsSecure
<1>3. ASSUME NEW x \in Migrator, InstallRGWKey(x) \/ InstallNothing(x)
      PROVE  KeysHold' /\ RookHolds' /\ KeysStay
  <2>1. PICK k : /\ IsSecure(k) \/ k.n = 0
                 /\ keyring' = [keyring EXCEPT ![This(x)] = k]
    BY <1>3 DEF InstallRGWKey, InstallNothing, RunHolds, DaemonsHold, NoKey
  <2>2. UNCHANGED <<current, pending, running, rook>>
    BY <1>3 DEF InstallRGWKey, InstallNothing, monitors
  <2> QED
    BY <1>t, <2>1, <2>2 DEF KeysHold, RookHolds, KeysStay, IsSecure
<1>4. ASSUME NEW d, running' = [running EXCEPT ![d] = keyring[d]],
             d \in Daemon, UNCHANGED <<monitors, keyring>>
      PROVE  KeysHold' /\ RookHolds' /\ KeysStay
  BY <1>t, <1>4 DEF KeysHold, RookHolds, KeysStay, IsSecure, monitors
<1>5. ASSUME NEW x \in Migrator, RestartRGW(x)
      PROVE  KeysHold' /\ RookHolds' /\ KeysStay
  <2>1. This(x) \in Daemon
    BY <1>5, ThisDaemon DEF RestartRGW, TypeInv, GenerationsHold
  <2> QED
    BY <1>4, <1>5, <2>1 DEF RestartRGW
<1>6. ASSUME NEW d \in Daemon, DaemonRestarts(d)
      PROVE  KeysHold' /\ RookHolds' /\ KeysStay
  BY <1>4, <1>6 DEF DaemonRestarts
<1>7. ASSUME NEW x \in Migrator, CreateKey(x)
      PROVE  KeysHold' /\ RookHolds' /\ KeysStay
  <2>1. PICK e \in RookEntity :
            rook' = [rook EXCEPT ![e][gen[x] + 1] = IF @ = Absent THEN Secure ELSE @]
    BY <1>7 DEF CreateKey, TypeInv, TypeOK
  <2>2. UNCHANGED <<current, pending, keyring, running>>
    BY <1>7 DEF CreateKey, hosts
  <2>3. \A f \in RookEntity, g \in Generation :
            \/ rook'[f][g] = rook[f][g]
            \/ rook[f][g] = Absent /\ rook'[f][g] = Secure
    BY <1>t, <2>1
  <2>4. "aes" # Secure /\ Absent # Secure
    BY DEF Secure, Absent
  <2> QED
    BY <2>2, <2>3, <2>4 DEF KeysHold, RookHolds, KeysStay, IsSecure
<1>8. ASSUME NEW d \in Daemon, Authenticate(d)
      PROVE  KeysHold' /\ RookHolds' /\ KeysStay
  <2>1. IsSecure(pending[d])
    BY <1>8 DEF Authenticate, KeysHold, ByHand
  <2>2. /\ current' = [current EXCEPT ![d] = pending[d]]
        /\ pending' = [pending EXCEPT ![d] = NoKey]
        /\ UNCHANGED <<keyring, running, rook>>
    BY <1>8 DEF Authenticate, hosts
  <2>3. NoKey # ByHand
    BY DEF NoKey, ByHand
  <2> QED
    BY <1>t, <2>1, <2>2, <2>3 DEF KeysHold, RookHolds, KeysStay, IsSecure
<1> QED
  BY <1>1, <1>2, <1>3, <1>5, <1>6, <1>7, <1>8, KeySteps

\* A run that does not move, while the keys stay secure.
LEMMA SameHolds ==
    ASSUME SecureInv, NEW y \in Migrator, Same(y), KeysStay
    PROVE  RunHolds(y)'
<1>t. /\ stage[y] \notin Uninformed => states[y] \in Inventory
      /\ next[y] \in 1..Len(Daemons) + 1 /\ gen[y] \in Generation
      /\ stage[y] = "create" => gen[y] + 1 \in Generation
  <2>1. /\ next[y] \in 1..Len(Daemons) + 1 /\ gen[y] \in 0..MaxRuns
        /\ serial[y] \in 0..runs /\ runs \in 0..MaxRuns /\ states[y] \in Inventory
    BY DEF SecureInv, TypeInv, TypeOK, Generation
  <2>2. stage[y] = "create" => gen[y] < serial[y]
    BY DEF SecureInv, TypeInv, GenerationsHold
  <2> QED
    BY <2>1, <2>2 DEF Generation
<1>h. RunHolds(y)
  BY DEF SecureInv
<1>1. InventoryHolds(y)'
  BY <1>h DEF Same, KeysStay, RunHolds, InventoryHolds, IsSecure
<1>2. DaemonsHold(y)'
  BY <1>h DEF Same, KeysStay, RunHolds, DaemonsHold, IsSecure, Daemon
<1>3. RotationHolds(y)'
  BY <1>h, <1>t DEF Same, KeysStay, RunHolds, RotationHolds
<1>4. OutcomeHolds(y)'
  BY <1>h, <1>t DEF Same, KeysStay, RunHolds, OutcomeHolds
<1> QED
  BY <1>1, <1>2, <1>3, <1>4 DEF RunHolds

\* A run that ends, and has done its work if it says so.
LEMMA EndHolds ==
    ASSUME SecureInv, NEW x \in Migrator, NEW result, End(x, result), gen' = gen,
           result = "done" =>
                /\ \A d \in Daemon : IsSecure(current'[d])
                /\ \A e \in RookEntity : rook'[e][gen[x]] = Secure
    PROVE  RunHolds(x)'
<1>1. stage'[x] = "idle" /\ next'[x] = 1 /\ outcome'[x] = result
  BY DEF End, Goto, SecureInv, TypeInv, TypeOK
<1>2. \A j \in DOMAIN Daemons : ~(j < 1)
  OBVIOUS
<1>3. InventoryHolds(x)' /\ RotationHolds(x)'
  BY <1>1 DEF InventoryHolds, RotationHolds, Uninformed
<1>4. DaemonsHold(x)'
  BY <1>1, <1>2 DEF DaemonsHold
<1>5. OutcomeHolds(x)'
  BY <1>1 DEF OutcomeHolds, IsSecure
<1> QED
  BY <1>3, <1>4, <1>5 DEF RunHolds

\* A run behind its last daemon has given every daemon a secure key.
LEMMA AllDaemons ==
    ASSUME SecureInv, NEW x \in Migrator, next[x] > Len(Daemons)
    PROVE  \A d \in Daemon : IsSecure(current[d])
<1>1. next[x] \in Nat /\ \A j \in DOMAIN Daemons : j < next[x]
  BY DEF SecureInv, TypeInv, TypeOK
<1> QED
  BY <1>1 DEF SecureInv, RunHolds, DaemonsHold, Daemon

\* A step of a run that keeps the inventory, the generation and the outcome.
LEMMA MoveHolds ==
    ASSUME SecureInv, NEW x \in Migrator, NEW s, Goto(x, s), KeysStay,
           stage[x] \notin Uninformed, s \notin {"idle", "create", "save"},
           UNCHANGED <<states, outcome, gen>>, DaemonsHold(x)'
    PROVE  RunHolds(x)'
<1>1. stage'[x] = s /\ stage[x] # "idle" /\ outcome[x] = "none"
  BY DEF Goto, SecureInv, TypeInv, TypeOK, Uninformed, RunHolds, OutcomeHolds
<1>2. InventoryHolds(x)'
  BY DEF SecureInv, KeysStay, RunHolds, InventoryHolds, IsSecure
<1>3. RotationHolds(x)' /\ OutcomeHolds(x)'
  BY <1>1 DEF RotationHolds, OutcomeHolds
<1> QED
  BY <1>2, <1>3 DEF RunHolds

LEMMA RunStepHolds ==
    ASSUME SecureInv, [Next]_vars, NEW x \in Migrator, RunStep(x)
    PROVE  RunHolds(x)'
<1>k. KeysStay /\ KeysHold' /\ RookHolds'
  BY KeysStep
<1>t. TypeInv /\ TypeInv' /\ RunHolds(x)
  BY StepTypes DEF SecureInv
<1>s. \A s : Goto(x, s) => stage'[x] = s
  BY <1>t DEF Goto, TypeInv, TypeOK
<1>n. next[x] \in 1..Len(Daemons) + 1
  BY <1>t DEF TypeInv, TypeOK
<1>d. /\ \A j \in DOMAIN Daemons : Daemons[j] \in Daemon
      /\ \A j \in DOMAIN Daemons : j < next[x] => IsSecure(current'[Daemons[j]])
  BY <1>t, <1>k DEF RunHolds, DaemonsHold, KeysStay, Daemon
<1>1. CASE LoadConfig(x)
  <2>1. stage'[x] = "helper" /\ outcome'[x] = "none" /\ next' = next
    BY <1>1, <1>s, <1>t DEF LoadConfig, TypeInv, TypeOK
  <2>2. DaemonsHold(x)'
    BY <1>d, <2>1 DEF DaemonsHold
  <2>3. InventoryHolds(x)' /\ RotationHolds(x)' /\ OutcomeHolds(x)'
    BY <2>1 DEF InventoryHolds, RotationHolds, OutcomeHolds, Uninformed
  <2> QED
    BY <2>2, <2>3 DEF RunHolds
<1>2. CASE Fails(x) \/ InstallNothing(x)
  BY <1>2, EndHolds DEF Fails, InstallNothing
<1>3. CASE RunMigrationHelper(x)
  <2>1. /\ stage[x] = "helper" /\ stage'[x] = "inventory" /\ next' = next
        /\ outcome' = outcome
    BY <1>3, <1>s DEF RunMigrationHelper
  <2>2. DaemonsHold(x)'
    BY <1>d, <2>1 DEF DaemonsHold
  <2>3. outcome[x] = "none"
    BY <1>t, <2>1 DEF RunHolds, OutcomeHolds
  <2>4. InventoryHolds(x)' /\ RotationHolds(x)' /\ OutcomeHolds(x)'
    BY <2>1, <2>3 DEF InventoryHolds, RotationHolds, OutcomeHolds, Uninformed
  <2> QED
    BY <2>2, <2>4 DEF RunHolds
<1>4. CASE TakeInventory(x)
  <2>1. /\ stage[x] = "inventory" /\ stage'[x] = "check" /\ next' = next
        /\ outcome' = outcome
        /\ UNCHANGED <<current, pending, rook>>
    BY <1>4, <1>s DEF TakeInventory, monitors
  <2>2. /\ \A d \in Daemon : /\ states'[x].rgw[d].current = current[d].type
                             /\ states'[x].rgw[d].pending = pending[d].type
        /\ states'[x].rook = rook
    BY <1>4, <1>t DEF TakeInventory, TypeInv, TypeOK
  <2>3. InventoryHolds(x)'
    BY <2>1, <2>2 DEF InventoryHolds, IsSecure, ByHand
  <2>4. DaemonsHold(x)'
    BY <1>d, <2>1 DEF DaemonsHold
  <2>5. outcome[x] = "none"
    BY <1>t, <2>1 DEF RunHolds, OutcomeHolds
  <2>6. RotationHolds(x)' /\ OutcomeHolds(x)'
    BY <2>1, <2>5 DEF RotationHolds, OutcomeHolds
  <2> QED
    BY <2>3, <2>4, <2>6 DEF RunHolds
<1>5. CASE CheckPendingKeyPromotion(x)
  <2>1. CASE End(x, "failed")
    BY <1>5, <2>1, EndHolds DEF CheckPendingKeyPromotion
  <2>2. CASE Goto(x, "daemon") /\ UNCHANGED <<outcome, states, next, key, polls, missing>>
    <3>1. DaemonsHold(x)'
      BY <1>d, <1>s, <2>2 DEF DaemonsHold
    <3> QED
      BY <1>5, <1>k, <2>2, <3>1, MoveHolds DEF CheckPendingKeyPromotion, Uninformed
  <2> QED
    BY <1>5, <2>1, <2>2 DEF CheckPendingKeyPromotion
<1>6. CASE InspectDaemon(x)
  <2>0. /\ stage[x] = "daemon" /\ next[x] <= Len(Daemons) /\ gen' = gen
        /\ This(x) = Daemons[next[x]]
        /\ UNCHANGED monitors
    BY <1>6 DEF InspectDaemon, This
  <2>1. CASE End(x, "failed")
    BY <2>0, <2>1, EndHolds
  <2>2. CASE /\ states[x].rgw[This(x)].pending \in {Absent, Secure}
             /\ Goto(x, "stage")
             /\ UNCHANGED <<outcome, states, next, key, polls, missing>>
    <3>1. stage'[x] = "stage" /\ "aes" \notin {Absent, Secure}
      BY <1>s, <2>2 DEF Absent, Secure
    <3>2. DaemonsHold(x)'
      BY <1>d, <2>0, <2>2, <3>1 DEF DaemonsHold
    <3> QED
      BY <1>k, <2>0, <2>2, <3>2, MoveHolds DEF Uninformed
  <2>3. CASE /\ states[x].rgw[This(x)].current = Secure
             /\ next' = [next EXCEPT ![x] = @ + 1]
             /\ UNCHANGED <<stage, outcome, states, key, polls, missing>>
    <3>1. IsSecure(current[Daemons[next[x]]]) /\ current' = current
      BY <1>d, <1>n, <1>t, <2>0, <2>3
         DEF RunHolds, InventoryHolds, Uninformed, monitors
    <3>2. next'[x] = next[x] + 1
      BY <1>t, <2>3 DEF TypeInv, TypeOK
    <3>3. \A j \in DOMAIN Daemons : j < next'[x] => IsSecure(current'[Daemons[j]])
      BY <1>d, <1>n, <3>1, <3>2
    <3>4. DaemonsHold(x)'
      BY <2>0, <2>3, <3>3 DEF DaemonsHold
    <3>5. Goto(x, "daemon")
      BY <1>t, <2>0, <2>3 DEF Goto, TypeInv, TypeOK
    <3> QED
      BY <1>k, <2>0, <2>3, <3>4, <3>5, MoveHolds DEF Uninformed
  <2> QED
    BY <1>6, <2>1, <2>2, <2>3 DEF InspectDaemon
<1>7. CASE StagePendingKey(x)
  <2>1. /\ stage[x] = "stage" /\ next[x] <= Len(Daemons)
        /\ This(x) \in Daemon /\ This(x) = Daemons[next[x]]
    BY <1>7, <1>t, ThisDaemon DEF StagePendingKey, TypeInv, GenerationsHold, This
  <2>2. pending[This(x)] # ByHand
    BY <1>t, <2>1 DEF RunHolds, InventoryHolds, DaemonsHold, Uninformed
  <2>3. IsSecure(key'[x])
    BY <1>7, <1>t, <2>1, <2>2
       DEF StagePendingKey, SecureInv, KeysHold, IsSecure, NewKey, TypeInv, TypeOK
  <2>4. Goto(x, "install") /\ next' = next /\ UNCHANGED <<states, outcome, gen>>
    BY <1>7 DEF StagePendingKey
  <2>5. DaemonsHold(x)'
    BY <1>d, <1>s, <2>3, <2>4 DEF DaemonsHold, IsSecure
  <2> QED
    BY <1>k, <2>1, <2>4, <2>5, MoveHolds DEF Uninformed
<1>8. CASE InstallRGWKey(x) \/ RestartRGW(x)
  <2>1. PICK s \in {"restart", "await"} :
            /\ Goto(x, s) /\ stage[x] \in {"install", "restart"}
            /\ UNCHANGED <<next, key, states, outcome, gen>>
    BY <1>8 DEF InstallRGWKey, RestartRGW
  <2>2. DaemonsHold(x)'
    BY <1>d, <1>s, <1>t, <2>1 DEF DaemonsHold, RunHolds, IsSecure
  <2> QED
    BY <1>k, <2>1, <2>2, MoveHolds DEF Uninformed
<1>9. CASE AwaitKeyPromotion(x)
  <2>0. stage[x] = "await" /\ next[x] <= Len(Daemons) /\ gen' = gen /\ current' = current
    BY <1>9, <1>t DEF AwaitKeyPromotion, TypeInv, GenerationsHold, monitors
  <2>1. CASE End(x, "failed")
    BY <2>0, <2>1, EndHolds
  <2>2. CASE IsSecure(current[This(x)]) /\ Promoted(x)
    <3>1. next'[x] = next[x] + 1 /\ stage'[x] = "daemon"
      BY <1>t, <1>s, <2>2 DEF Promoted, TypeInv, TypeOK
    <3>2. \A j \in DOMAIN Daemons : j < next'[x] => IsSecure(current'[Daemons[j]])
      BY <1>d, <1>n, <2>0, <2>2, <3>1 DEF This
    <3>3. DaemonsHold(x)'
      BY <3>1, <3>2 DEF DaemonsHold
    <3> QED
      BY <1>k, <2>0, <2>2, <3>3, MoveHolds DEF Promoted, Uninformed
  <2>3. CASE UNCHANGED <<stage, outcome, states, next, key, missing>>
    <3>1. DaemonsHold(x)'
      BY <1>d, <1>t, <2>3 DEF DaemonsHold, RunHolds, IsSecure
    <3>2. Goto(x, "await")
      BY <1>t, <2>0, <2>3 DEF Goto, TypeInv, TypeOK
    <3> QED
      BY <1>k, <2>0, <2>3, <3>1, <3>2, MoveHolds DEF Uninformed
  <2> QED
    BY <1>9, <2>1, <2>2, <2>3 DEF AwaitKeyPromotion
<1>10. CASE DecideRotation(x)
  <2>0. /\ stage[x] = "daemon" /\ next[x] > Len(Daemons) /\ gen' = gen
        /\ UNCHANGED <<current, rook>>
        /\ gen[x] \in Generation
    BY <1>10, <1>t DEF DecideRotation, monitors, TypeInv, TypeOK
  <2>1. CASE End(x, "failed")
    BY <2>0, <2>1, EndHolds
  <2>2. CASE ~RookNeedsSecureKeys(x) /\ End(x, "done")
    <3>1. \A e \in RookEntity : rook'[e][gen[x]] = Secure
      BY <1>t, <2>0, <2>2 DEF RookNeedsSecureKeys, RunHolds, InventoryHolds, Uninformed
    <3>2. \A d \in Daemon : IsSecure(current'[d])
      BY <2>0, AllDaemons
    <3> QED
      BY <2>0, <2>2, <3>1, <3>2, EndHolds
  <2>3. CASE /\ Goto(x, "create")
             /\ missing' = [missing EXCEPT ![x] = RookEntity]
             /\ UNCHANGED <<outcome, states, next, key, polls>>
    <3>1. stage'[x] = "create" /\ missing'[x] = RookEntity
      BY <1>s, <1>t, <2>3 DEF TypeInv, TypeOK
    <3>2. InventoryHolds(x)'
      BY <1>t, <1>k, <2>0, <2>3 DEF KeysStay, RunHolds, InventoryHolds, IsSecure, Uninformed
    <3>3. DaemonsHold(x)'
      BY <1>d, <2>3, <3>1 DEF DaemonsHold
    <3>4. RotationHolds(x)'
      BY <2>0, <2>3, <3>1 DEF RotationHolds
    <3>5. OutcomeHolds(x)'
      BY <1>t, <2>0, <2>3 DEF RunHolds, OutcomeHolds
    <3> QED
      BY <3>2, <3>3, <3>4, <3>5 DEF RunHolds
  <2> QED
    BY <1>10, <2>1, <2>2, <2>3 DEF DecideRotation
<1>11. CASE CreateKey(x)
  <2>1. PICK e \in missing[x] :
            /\ rook' = [rook EXCEPT ![e][gen[x] + 1] = IF @ = Absent THEN Secure ELSE @]
            /\ missing' = [missing EXCEPT ![x] = @ \ {e}]
    BY <1>11 DEF CreateKey
  <2>2. /\ stage[x] = "create"
        /\ UNCHANGED <<stage, outcome, gen, states, next, key>>
    BY <1>11 DEF CreateKey
  <2>3. e \in RookEntity /\ gen[x] \in 0..MaxRuns /\ gen[x] + 1 \in Generation
    <3>1. gen[x] < serial[x] /\ gen[x] \in 0..MaxRuns /\ serial[x] \in 0..runs
            /\ runs \in 0..MaxRuns /\ e \in RookEntity
      BY <1>t, <2>2 DEF TypeInv, TypeOK, GenerationsHold, Generation
    <3> QED
      BY <3>1 DEF Generation
  <2>4. rook[e][gen[x] + 1] \in {Absent, Secure}
    <3>1. rook[e][gen[x] + 1] \in KeyType
      BY <1>t, <2>3 DEF TypeInv, TypeOK
    <3>2. gen[x] + 1 # 0
      BY <2>3
    <3> QED
      BY <2>3, <3>1, <3>2 DEF SecureInv, RookHolds, KeyType
  <2>5. rook'[e][gen[x] + 1] = Secure
    BY <1>t, <2>1, <2>3, <2>4 DEF TypeInv, TypeOK
  <2>6. missing'[x] = missing[x] \ {e}
    BY <1>t, <2>1 DEF TypeInv, TypeOK
  <2>7. RotationHolds(x)'
    BY <1>t, <1>k, <2>2, <2>3, <2>5, <2>6 DEF RunHolds, RotationHolds, KeysStay
  <2>8. InventoryHolds(x)'
    BY <1>t, <1>k, <2>2 DEF KeysStay, RunHolds, InventoryHolds, IsSecure
  <2>9. DaemonsHold(x)'
    BY <1>d, <2>2 DEF DaemonsHold
  <2>10. OutcomeHolds(x)'
    BY <1>t, <2>2 DEF RunHolds, OutcomeHolds
  <2> QED
    BY <2>7, <2>8, <2>9, <2>10 DEF RunHolds
<1>12. CASE Publish(x)
  <2>1. /\ stage[x] = "create" /\ stage'[x] = "save" /\ missing[x] = {}
        /\ gen'[x] = gen[x] + 1
        /\ UNCHANGED <<current, pending, rook, outcome, states, next>>
    BY <1>12, <1>s, <1>t DEF Publish, monitors, TypeInv, TypeOK
  <2>2. RotationHolds(x)'
    BY <1>t, <2>1 DEF RunHolds, RotationHolds
  <2>3. InventoryHolds(x)'
    BY <1>t, <2>1 DEF RunHolds, InventoryHolds, IsSecure, Uninformed
  <2>4. DaemonsHold(x)'
    BY <1>d, <2>1 DEF DaemonsHold
  <2>5. OutcomeHolds(x)'
    BY <1>t, <2>1 DEF RunHolds, OutcomeHolds
  <2> QED
    BY <2>2, <2>3, <2>4, <2>5 DEF RunHolds
<1>13. CASE SaveConfig(x)
  <2>1. /\ stage[x] = "save" /\ End(x, "done") /\ gen' = gen
        /\ UNCHANGED <<current, rook>>
    BY <1>13 DEF SaveConfig, monitors
  <2>2. next[x] > Len(Daemons) /\ \A e \in RookEntity : rook[e][gen[x]] = Secure
    BY <1>t, <2>1 DEF RunHolds, RotationHolds
  <2>3. \A d \in Daemon : IsSecure(current'[d])
    BY <2>1, <2>2, AllDaemons
  <2> QED
    BY <2>1, <2>2, <2>3, EndHolds
<1> QED
  BY <1>1, <1>2, <1>3, <1>4, <1>5, <1>6, <1>7, <1>8, <1>9, <1>10, <1>11, <1>12, <1>13
     DEF RunStep, Migrate

LEMMA SecureStep ==
    ASSUME SecureInv, [Next]_vars
    PROVE  SecureInv'
<1>1. TypeInv' /\ KeysHold' /\ RookHolds' /\ KeysStay
  BY KeysStep, StepTypes DEF SecureInv
<1>2. ASSUME NEW y \in Migrator
      PROVE  RunHolds(y)'
  <2>1. CASE Same(y)
    BY <1>1, <2>1, SameHolds
  <2>2. ASSUME NEW x \in Migrator, RunStep(x)
        PROVE  RunHolds(y)'
    <3>1. CASE x = y
      BY <2>2, <3>1, RunStepHolds
    <3>2. CASE x # y
      BY <2>1, <2>2, <3>2, OthersSame DEF SecureInv
    <3> QED
      BY <3>1, <3>2
  <2>3. CASE UNCHANGED locals
    BY <2>1, <2>3 DEF locals, Same
  <2>4. \/ UNCHANGED locals
        \/ \E x \in Migrator : RunStep(x)
    BY DEF Next, Disturb, Authenticate, DaemonRestarts, PromotionChanges, RunStep,
           vars, locals
  <2> QED
    BY <2>2, <2>3, <2>4
<1> QED
  BY <1>1, <1>2 DEF SecureInv

LEMMA SecureInit == Init => SecureInv
<1> SUFFICES ASSUME Init PROVE SecureInv
  OBVIOUS
<1>1. TypeInv
  BY InitTypes
<1>2. KeysHold
  <2>1. \A d \in Daemon : current[d].n = 0 /\ pending[d] \in {NoKey, ByHand}
    BY DEF Init, ByHand
  <2> QED
    BY <2>1 DEF Init, KeysHold
<1>3. RookHolds
  BY DEF Init, RookHolds, Absent
<1>4. ASSUME NEW x \in Migrator
      PROVE  RunHolds(x)
  <2>1. stage[x] = "idle" /\ next[x] = 1 /\ outcome[x] = "none"
    BY DEF Init
  <2>2. \A j \in DOMAIN Daemons : ~(j < 1)
    OBVIOUS
  <2> QED
    BY <2>1, <2>2 DEF RunHolds, InventoryHolds, DaemonsHold, RotationHolds,
       OutcomeHolds, Uninformed
<1> QED
  BY <1>1, <1>2, <1>3, <1>4 DEF SecureInv

LEMMA SecureAlways == Spec => []SecureInv
BY SecureInit, SecureStep, PTL DEF Spec

\* For any number of overlapping runs: a run that reports success leaves no
\* insecure key behind, although the inventory it decided by was taken at its
\* start.  (rookNeedsSecureKeys, migrateRGWDaemon.)
THEOREM NoInsecureKeyLeft == Spec => []SecureWhenDone
<1>1. SecureInv => SecureWhenDone
  BY DEF SecureInv, RunHolds, OutcomeHolds, SecureWhenDone
<1> QED
  BY SecureAlways, <1>1, PTL

Waits ==
    /\ \A d \in Daemon : Touched(d) =>
        \E i \in DOMAIN Daemons :
            /\ Daemons[i] = d
            /\ \A j \in 1..i - 1 : IsSecure(current[Daemons[j]])
    /\ rook' # rook => \A d \in Daemon : IsSecure(current[d])

\* Only the run that is at a daemon touches it.
LEMMA StepWaits ==
    ASSUME SecureInv, [Next]_vars
    PROVE  Waits
<1>t. /\ pending \in [Daemon -> Key] /\ keyring \in [Daemon -> Key]
      /\ \A i \in DOMAIN Daemons : Daemons[i] \in Daemon
  BY DEF SecureInv, TypeInv, TypeOK, Daemon
<1>1. ASSUME UNCHANGED <<pending, keyring, rook>>
      PROVE  Waits
  BY <1>1 DEF Waits, Touched
<1>2. ASSUME NEW x \in Migrator,
             StagePendingKey(x) \/ InstallRGWKey(x) \/ InstallNothing(x)
      PROVE  Waits
  <2>1. next[x] \in DOMAIN Daemons /\ This(x) = Daemons[next[x]]
    BY <1>2, ThisDaemon
       DEF StagePendingKey, InstallRGWKey, InstallNothing, SecureInv, TypeInv,
           GenerationsHold, This
  <2>2. /\ \E k : pending' = pending \/ pending' = [pending EXCEPT ![This(x)] = k]
        /\ \E k : keyring' = keyring \/ keyring' = [keyring EXCEPT ![This(x)] = k]
        /\ rook' = rook
    BY <1>2 DEF StagePendingKey, InstallRGWKey, InstallNothing, monitors, hosts
  <2>3. \A d \in Daemon : Touched(d) => d = This(x)
    BY <1>t, <2>2 DEF Touched
  <2>4. \A j \in 1..next[x] - 1 : IsSecure(current[Daemons[j]])
    BY <2>1 DEF SecureInv, RunHolds, DaemonsHold
  <2> QED
    BY <2>1, <2>2, <2>3, <2>4 DEF Waits
<1>3. ASSUME NEW x \in Migrator, CreateKey(x)
      PROVE  Waits
  <2>1. \A d \in Daemon : IsSecure(current[d])
    BY <1>3, AllDaemons DEF CreateKey, SecureInv, RunHolds, RotationHolds
  <2>2. UNCHANGED <<pending, keyring>>
    BY <1>3 DEF CreateKey, hosts
  <2> QED
    BY <2>1, <2>2 DEF Waits, Touched
<1>4. ASSUME NEW d \in Daemon, Authenticate(d)
      PROVE  Waits
  BY <1>t, <1>4 DEF Authenticate, hosts, Waits, Touched
<1>5. ASSUME NEW x, RestartRGW(x) \/ DaemonRestarts(x)
      PROVE  UNCHANGED <<pending, keyring, rook>>
  BY <1>5 DEF RestartRGW, DaemonRestarts, monitors
<1> QED
  BY <1>1, <1>2, <1>3, <1>4, <1>5, KeySteps

\* For any number of overlapping runs that fail anywhere: a daemon is touched
\* only when every daemon before it has a secure key, and Rook credentials only
\* when all have.  (README.md:268; migrateToSecureKeys.)
THEOREM LaterWait == Spec => LaterDaemonsWait
<1>1. SecureInv /\ [Next]_vars => [Waits]_vars
  BY StepWaits
<1>2. LaterDaemonsWait <=> [][Waits]_vars
  BY DEF LaterDaemonsWait, Waits
<1> QED
  BY SecureAlways, <1>1, <1>2, PTL DEF Spec

-----------------------------------------------------------------------------
(* Any number of runs: the keyrings of daemons without a secure key.       *)

Staged == {"install", "restart", "await"}

Working(d) == Accepted(d) \cup {k \in {NoKey} : SessionsCut}

\* What a run has staged for a daemon is what every other one would stage.
OffersPending(x) ==
    stage[x] \in Staged /\ ~IsSecure(current[This(x)]) =>
        key[x] # NoKey /\ key[x] = pending[This(x)]

WorkingInv ==
    /\ SecureInv
    /\ \A d \in Daemon : ~IsSecure(current[d]) =>
            keyring[d] \in Working(d) /\ running[d] \in Working(d)
    /\ \A x \in Migrator : OffersPending(x)

\* The current key of a daemon changes to a secure one; the pending key is given
\* up only then, and otherwise a daemon gets a pending key when it had none.
LEMMA PendingStays ==
    ASSUME SecureInv, [Next]_vars, NEW d \in Daemon, ~IsSecure(current'[d])
    PROVE  /\ current'[d] = current[d]
           /\ pending[d] # NoKey => pending'[d] = pending[d]
<1>t. current \in [Daemon -> Key] /\ pending \in [Daemon -> Key]
  BY DEF SecureInv, TypeInv, TypeOK
<1>1. ASSUME NEW x \in Migrator, StagePendingKey(x)
      PROVE  current' = current /\ (pending[d] # NoKey => pending'[d] = pending[d])
  BY <1>t, <1>1 DEF StagePendingKey
<1>2. ASSUME NEW e \in Daemon, Authenticate(e)
      PROVE  current'[d] = current[d] /\ pending'[d] = pending[d]
  <2>1. IsSecure(pending[e])
    BY <1>2 DEF Authenticate, SecureInv, KeysHold, ByHand
  <2>2. /\ current' = [current EXCEPT ![e] = pending[e]]
        /\ pending' = [pending EXCEPT ![e] = NoKey]
    BY <1>2 DEF Authenticate
  <2>3. e # d
    BY <1>t, <2>1, <2>2
  <2> QED
    BY <1>t, <2>2, <2>3
<1>3. ASSUME NEW x \in Migrator,
             InstallRGWKey(x) \/ InstallNothing(x) \/ RestartRGW(x) \/ CreateKey(x)
      PROVE  UNCHANGED <<current, pending>>
  BY <1>3 DEF InstallRGWKey, InstallNothing, RestartRGW, CreateKey, monitors
<1>4. ASSUME NEW e \in Daemon, DaemonRestarts(e)
      PROVE  UNCHANGED <<current, pending>>
  BY <1>4 DEF DaemonRestarts, monitors
<1> QED
  BY <1>1, <1>2, <1>3, <1>4, KeySteps

\* A run reaches these stages by staging; then it keeps its daemon and its key.
LEMMA StagedRun ==
    ASSUME SecureInv, [Next]_vars, NEW x \in Migrator, stage'[x] \in Staged
    PROVE  \/ StagePendingKey(x)
           \/ stage[x] \in Staged /\ next'[x] = next[x] /\ key'[x] = key[x]
<1> USE DEF Staged
<1>t. TypeInv
  BY DEF SecureInv
<1>s. \A s : Goto(x, s) => stage'[x] = s
  BY <1>t DEF Goto, TypeInv, TypeOK
<1>e. \A result : ~End(x, result)
  BY <1>s DEF End
<1>1. ASSUME RunStep(x)
      PROVE  StagePendingKey(x) \/ (stage[x] \in Staged /\ next'[x] = next[x] /\ key'[x] = key[x])
  <2>1. CASE LoadConfig(x) \/ Fails(x) \/ InstallNothing(x) \/ SaveConfig(x)
    BY <1>s, <1>e, <2>1 DEF LoadConfig, Fails, InstallNothing, SaveConfig
  <2>2. CASE RunMigrationHelper(x) \/ TakeInventory(x) \/ CheckPendingKeyPromotion(x)
    BY <1>s, <1>e, <2>2 DEF RunMigrationHelper, TakeInventory, CheckPendingKeyPromotion
  <2>3. CASE InspectDaemon(x) \/ DecideRotation(x)
    BY <1>s, <1>e, <2>3 DEF InspectDaemon, DecideRotation
  <2>4. CASE InstallRGWKey(x) \/ RestartRGW(x)
    BY <2>4 DEF InstallRGWKey, RestartRGW
  <2>5. CASE AwaitKeyPromotion(x)
    BY <1>s, <1>e, <2>5 DEF AwaitKeyPromotion, Promoted
  <2>6. CASE CreateKey(x) \/ Publish(x)
    BY <1>s, <2>6 DEF CreateKey, Publish
  <2> QED
    BY <1>1, <2>1, <2>2, <2>3, <2>4, <2>5, <2>6 DEF RunStep, Migrate
<1>2. ASSUME Same(x)
      PROVE  stage[x] \in Staged /\ next'[x] = next[x] /\ key'[x] = key[x]
  BY <1>2 DEF Same
<1>3. UNCHANGED locals \/ \E y \in Migrator : RunStep(y)
  BY DEF Next, Disturb, Authenticate, DaemonRestarts, PromotionChanges, RunStep,
     vars, locals
<1> QED
  BY <1>t, <1>1, <1>2, <1>3, OthersSame DEF locals, Same

LEMMA OffersStep ==
    ASSUME WorkingInv, [Next]_vars, NEW x \in Migrator
    PROVE  OffersPending(x)'
<1> SUFFICES ASSUME stage'[x] \in Staged, ~IsSecure(current'[Daemons[next'[x]]])
             PROVE  key'[x] # NoKey /\ key'[x] = pending'[Daemons[next'[x]]]
  BY DEF OffersPending, This, IsSecure
<1>t. /\ TypeInv /\ SecureInv
      /\ pending \in [Daemon -> Key] /\ key \in [Migrator -> Key]
  BY DEF WorkingInv, SecureInv, TypeInv, TypeOK
<1>1. CASE StagePendingKey(x)
  <2>1. This(x) \in Daemon /\ next' = next
    BY <1>t, <1>1, ThisDaemon DEF StagePendingKey, TypeInv, GenerationsHold
  <2> DEFINE k == IF pending[This(x)] = NoKey THEN NewKey(x) ELSE pending[This(x)]
  <2>2. NewKey(x) # NoKey
    BY DEF NewKey, NoKey, Secure, Absent
  <2>3. /\ pending' = [pending EXCEPT ![This(x)] = k]
        /\ key' = [key EXCEPT ![x] = k]
    BY <1>1 DEF StagePendingKey
  <2> QED
    BY <1>t, <2>1, <2>2, <2>3 DEF This
<1>2. CASE stage[x] \in Staged /\ next'[x] = next[x] /\ key'[x] = key[x]
  <2>1. This(x) \in Daemon /\ This(x) = Daemons[next'[x]]
    BY <1>t, <1>2, ThisDaemon DEF Staged, TypeInv, GenerationsHold, This
  <2>2. /\ current'[This(x)] = current[This(x)]
        /\ pending[This(x)] # NoKey => pending'[This(x)] = pending[This(x)]
    BY <1>t, <2>1, PendingStays
  <2>3. key[x] # NoKey /\ key[x] = pending[This(x)]
    BY <1>2, <2>1, <2>2 DEF WorkingInv, OffersPending
  <2> QED
    BY <1>2, <2>1, <2>2, <2>3
<1> QED
  BY <1>t, <1>1, <1>2, StagedRun

LEMMA KeyringStep ==
    ASSUME WorkingInv, [Next]_vars, NEW d \in Daemon, ~IsSecure(current'[d])
    PROVE  keyring'[d] \in Working(d)' /\ running'[d] \in Working(d)'
<1>t. /\ TypeInv /\ SecureInv
      /\ keyring \in [Daemon -> Key] /\ running \in [Daemon -> Key]
  BY DEF WorkingInv, SecureInv, TypeInv, TypeOK
<1>1. /\ current'[d] = current[d]
      /\ pending[d] # NoKey => pending'[d] = pending[d]
  BY <1>t, PendingStays
<1>2. \A k \in Working(d) : k \in Working(d)'
  BY <1>1 DEF Working, Accepted
<1>3. /\ keyring[d] \in Working(d) /\ running[d] \in Working(d)
      /\ keyring[d] \in Working(d)' /\ running[d] \in Working(d)'
  BY <1>1, <1>2 DEF WorkingInv
<1>4. CASE UNCHANGED <<keyring, running>>
  BY <1>3, <1>4
<1>5. ASSUME NEW x \in Migrator, InstallRGWKey(x)
      PROVE  keyring'[d] \in Working(d)' /\ running'[d] \in Working(d)'
  <2>1. /\ keyring' = [keyring EXCEPT ![This(x)] = key[x]]
        /\ UNCHANGED running /\ stage[x] \in Staged
    BY <1>5 DEF InstallRGWKey, Staged
  <2>2. CASE d = This(x)
    <3>1. key[x] \in Working(d)
      BY <1>1, <2>1, <2>2 DEF WorkingInv, OffersPending, Working, Accepted
    <3> QED
      BY <1>2, <1>3, <1>t, <2>1, <2>2, <3>1
  <2> QED
    BY <1>3, <1>t, <2>1, <2>2
<1>6. ASSUME NEW x \in Migrator, InstallNothing(x)
      PROVE  keyring'[d] \in Working(d)' /\ running'[d] \in Working(d)'
  <2>1. /\ keyring' = [keyring EXCEPT ![This(x)] = NoKey]
        /\ UNCHANGED running /\ NoKey \in Working(d)
    BY <1>6 DEF InstallNothing, Working
  <2> QED
    BY <1>2, <1>3, <1>t, <2>1
<1>7. ASSUME NEW e, running' = [running EXCEPT ![e] = keyring[e]], UNCHANGED keyring
      PROVE  keyring'[d] \in Working(d)' /\ running'[d] \in Working(d)'
  BY <1>3, <1>t, <1>7
<1>8. ASSUME NEW x \in Migrator, StagePendingKey(x) \/ CreateKey(x)
      PROVE  UNCHANGED <<keyring, running>>
  BY <1>8 DEF StagePendingKey, CreateKey, hosts
<1> QED
  BY <1>4, <1>5, <1>6, <1>7, <1>8, KeySteps DEF RestartRGW, DaemonRestarts, Authenticate, hosts

LEMMA WorkingInit == Init => WorkingInv
<1> SUFFICES ASSUME Init PROVE WorkingInv
  OBVIOUS
<1>1. \A d \in Daemon : keyring[d] \in Working(d) /\ running[d] \in Working(d)
  BY DEF Init, Working, Accepted
<1>2. \A x \in Migrator : OffersPending(x)
  BY DEF Init, OffersPending, Staged
<1> QED
  BY <1>1, <1>2, SecureInit DEF WorkingInv

LEMMA WorkingStep ==
    ASSUME WorkingInv, [Next]_vars
    PROVE  WorkingInv'
<1>1. SecureInv'
  BY SecureStep DEF WorkingInv
<1>2. \A d \in Daemon : ~IsSecure(current'[d]) =>
            keyring'[d] \in Working(d)' /\ running'[d] \in Working(d)'
  BY KeyringStep
<1>3. \A x \in Migrator : OffersPending(x)'
  BY OffersStep
<1> QED
  BY <1>1, <1>2, <1>3 DEF WorkingInv, IsSecure

\* For any number of overlapping runs, cut sessions included: no run takes a
\* working key from a daemon that has no secure key yet.
THEOREM WorkUntilSecure == Spec => []InsecureDaemonsWork
<1>1. WorkingInv => InsecureDaemonsWork
  BY DEF WorkingInv, Working, InsecureDaemonsWork
<1> QED
  BY <1>1, WorkingInit, WorkingStep, PTL DEF Spec

-----------------------------------------------------------------------------
(* One run at a time: the keyrings.                                        *)

Alone == \A x, y \in Migrator : x = y

\* A daemon whose process has loaded the pending key has it in its keyring too:
\* the key that a promotion retires is not in use.
HandsOver(d) ==
    /\ keyring[d] \in Accepted(d)
    /\ running[d] = pending[d] /\ pending[d] # NoKey => keyring[d] = pending[d]

\* The key that x has staged is still accepted.
StagedHolds(x) ==
    stage[x] \in Staged =>
        /\ key[x] # NoKey
        /\ \/ key[x] = pending[Daemons[next[x]]]
           \/ key[x] = current[Daemons[next[x]]] /\ pending[Daemons[next[x]]] = NoKey

Older(d, n) ==
    current[d].n <= n /\ pending[d].n <= n /\ keyring[d].n <= n /\ running[d].n <= n

\* The key k is not of place j, or a later one, in the loop of run s.
Before(k, s, j) == k.n <= s \/ (k.n = s + 1 /\ k.at < j)

OlderFor(d, s, j) ==
    /\ Before(current[d], s, j) /\ Before(pending[d], s, j)
    /\ Before(keyring[d], s, j) /\ Before(running[d], s, j)

\* A key that x is going to stage for a daemon differs from all its keys, also
\* when the daemon is listed twice and x was there before.
KeysOlder(x) ==
    \A j \in DOMAIN Daemons :
        stage[x] # "idle" /\ j >= next[x] /\ (j = next[x] => stage[x] \notin Staged)
            => OlderFor(Daemons[j], serial[x], j)

HandoverInv ==
    /\ TypeInv
    /\ \A d \in Daemon : HandsOver(d) /\ Older(d, runs + 1)
    /\ \A x \in Migrator : StagedHolds(x) /\ KeysOlder(x)

\* How a run moves when it touches no key of a daemon.
Moves(x) ==
    /\ UNCHANGED <<current, pending, keyring, running>>
    /\ \/ LoadConfig(x)
       \/ /\ UNCHANGED <<runs, serial>>
          /\ \/ stage'[x] = "idle"
             \/ stage[x] # "idle" /\ next'[x] = next[x] + 1 /\ stage'[x] = "daemon"
             \/ /\ stage[x] \notin Staged \cup {"idle"} /\ stage'[x] \notin Staged
                /\ next'[x] = next[x]
             \/ UNCHANGED <<stage, next, key>>

LEMMA RunMoves ==
    ASSUME TypeInv, ~SessionsCut, NEW x \in Migrator, RunStep(x)
    PROVE  StagePendingKey(x) \/ InstallRGWKey(x) \/ RestartRGW(x) \/ Moves(x)
<1> USE DEF Staged, monitors, hosts, Moves
<1>s. \A s : Goto(x, s) => stage'[x] = s
  BY DEF Goto, TypeInv, TypeOK
<1>e. \A result : End(x, result) => stage'[x] = "idle"
  BY <1>s DEF End
<1>1. CASE LoadConfig(x)
  BY <1>1 DEF LoadConfig
<1>2. CASE Fails(x) \/ InstallNothing(x)
  BY <1>2, <1>e DEF Fails, InstallNothing
<1>3. CASE RunMigrationHelper(x) \/ TakeInventory(x)
  BY <1>3, <1>s DEF RunMigrationHelper, TakeInventory
<1>4. CASE CheckPendingKeyPromotion(x)
  BY <1>4, <1>e, <1>s DEF CheckPendingKeyPromotion
<1>5. CASE InspectDaemon(x)
  <2>1. next' = [next EXCEPT ![x] = @ + 1] => next'[x] = next[x] + 1
    BY DEF TypeInv, TypeOK
  <2> QED
    BY <1>5, <1>e, <1>s, <2>1 DEF InspectDaemon
<1>6. CASE AwaitKeyPromotion(x)
  <2>1. Promoted(x) => next'[x] = next[x] + 1 /\ stage'[x] = "daemon"
    BY <1>s DEF Promoted, TypeInv, TypeOK
  <2> QED
    BY <1>6, <1>e, <2>1 DEF AwaitKeyPromotion
<1>7. CASE DecideRotation(x)
  BY <1>7, <1>e, <1>s DEF DecideRotation
<1>8. CASE CreateKey(x) \/ Publish(x)
  BY <1>8, <1>s DEF CreateKey, Publish
<1>9. CASE SaveConfig(x)
  BY <1>9, <1>e DEF SaveConfig
<1> QED
  BY <1>1, <1>2, <1>3, <1>4, <1>5, <1>6, <1>7, <1>8, <1>9 DEF RunStep, Migrate

\* Types, for the arithmetic on the numbers of keys.
LEMMA KeyNumbers ==
    ASSUME TypeInv
    PROVE  /\ \A d \in Daemon : /\ current[d].n \in Nat /\ pending[d].n \in Nat
                                /\ keyring[d].n \in Nat /\ running[d].n \in Nat
                                /\ current[d].at \in Nat /\ pending[d].at \in Nat
                                /\ keyring[d].at \in Nat /\ running[d].at \in Nat
           /\ \A x \in Migrator : serial[x] \in Nat /\ serial[x] <= runs /\ next[x] \in Nat
           /\ runs \in Nat
           /\ \A j \in DOMAIN Daemons : j \in Nat /\ Daemons[j] \in Daemon
<1>1. \A k \in Key : k.n \in Nat /\ k.at \in Nat
  BY DEF Key
<1> QED
  BY <1>1 DEF TypeInv, TypeOK, Daemon

LEMMA MovesHold ==
    ASSUME HandoverInv, NEW x \in Migrator, Moves(x)
    PROVE  /\ \A d \in Daemon : HandsOver(d)' /\ Older(d, runs + 1)'
           /\ StagedHolds(x)' /\ KeysOlder(x)'
<1>t. TypeInv
  BY DEF HandoverInv
<1>u. UNCHANGED <<current, pending, keyring, running>>
  BY DEF Moves
<1>1. \A d \in Daemon : HandsOver(d)'
  BY <1>u DEF HandoverInv, HandsOver, Accepted
<1>2. runs' \in {runs, runs + 1}
  BY DEF Moves, LoadConfig
<1>3. \A d \in Daemon : Older(d, runs + 1)'
  BY <1>t, <1>u, <1>2, KeyNumbers DEF HandoverInv, Older
<1>4. CASE LoadConfig(x)
  <2>1. stage'[x] = "helper" /\ serial'[x] = runs + 1
    BY <1>4, <1>t DEF LoadConfig, Goto, TypeInv, TypeOK
  <2>2. StagedHolds(x)'
    BY <2>1 DEF StagedHolds, Staged
  <2>3. KeysOlder(x)'
    BY <1>t, <1>u, <2>1, KeyNumbers DEF HandoverInv, KeysOlder, Older, OlderFor, Before
  <2> QED
    BY <1>1, <1>3, <2>2, <2>3
<1>5. CASE UNCHANGED <<runs, serial>> /\ stage'[x] = "idle"
  BY <1>1, <1>3, <1>5 DEF StagedHolds, KeysOlder, Staged
<1>6. CASE /\ UNCHANGED <<runs, serial>>
           /\ stage[x] # "idle" /\ next'[x] = next[x] + 1 /\ stage'[x] = "daemon"
  <2>1. StagedHolds(x)'
    BY <1>6 DEF StagedHolds, Staged
  <2>2. KeysOlder(x)'
    BY <1>t, <1>u, <1>6, KeyNumbers DEF HandoverInv, KeysOlder, OlderFor
  <2> QED
    BY <1>1, <1>3, <2>1, <2>2
<1>7. CASE /\ UNCHANGED <<runs, serial>>
           /\ stage[x] \notin Staged \cup {"idle"} /\ stage'[x] \notin Staged
           /\ next'[x] = next[x]
  BY <1>1, <1>3, <1>u, <1>7 DEF HandoverInv, StagedHolds, KeysOlder, OlderFor
<1>8. CASE UNCHANGED <<runs, serial>> /\ UNCHANGED <<stage, next, key>>
  BY <1>1, <1>3, <1>u, <1>8 DEF HandoverInv, StagedHolds, KeysOlder, OlderFor
<1> QED
  BY <1>4, <1>5, <1>6, <1>7, <1>8 DEF Moves

LEMMA StageHolds ==
    ASSUME HandoverInv, NEW x \in Migrator, StagePendingKey(x)
    PROVE  /\ \A d \in Daemon : HandsOver(d)' /\ Older(d, runs + 1)'
           /\ StagedHolds(x)' /\ KeysOlder(x)'
           /\ \/ UNCHANGED pending
              \/ /\ pending[This(x)] = NoKey /\ NewKey(x) # current[This(x)]
                 /\ pending' = [pending EXCEPT ![This(x)] = NewKey(x)]
<1>t. TypeInv /\ pending \in [Daemon -> Key] /\ key \in [Migrator -> Key]
  BY DEF HandoverInv, TypeInv, TypeOK
<1>0. PICK d : d = This(x)
  OBVIOUS
<1>k. PICK k : k = IF pending[d] = NoKey THEN NewKey(x) ELSE pending[d]
  OBVIOUS
<1>1. /\ next[x] \in DOMAIN Daemons /\ d \in Daemon /\ d = Daemons[next[x]]
      /\ stage[x] = "stage"
  BY <1>0, <1>t, ThisDaemon DEF StagePendingKey, TypeInv, GenerationsHold, This
<1>2. OlderFor(d, serial[x], next[x])
  <2>1. KeysOlder(x) /\ next[x] >= next[x]
    BY <1>t, KeyNumbers DEF HandoverInv
  <2> QED
    BY <1>1, <2>1 DEF KeysOlder, Staged
<1>3. /\ NewKey(x).n = serial[x] + 1 /\ NewKey(x).at = next[x]
      /\ NewKey(x) # NoKey /\ NewKey(x) # current[d] /\ NewKey(x) # running[d]
  <2>1. NewKey(x).n = serial[x] + 1 /\ NewKey(x).at = next[x]
    BY DEF NewKey
  <2>2. NewKey(x) # current[d] /\ NewKey(x) # running[d]
    BY <1>t, <1>1, <1>2, <2>1, KeyNumbers DEF OlderFor, Before
  <2>3. NewKey(x) # NoKey
    <3>1. NoKey.n = 0 /\ serial[x] + 1 # 0
      BY <1>t, KeyNumbers DEF NoKey
    <3> QED
      BY <2>1, <3>1
  <2> QED
    BY <2>1, <2>2, <2>3
<1>4. /\ pending' = [pending EXCEPT ![d] = k] /\ key' = [key EXCEPT ![x] = k]
      /\ UNCHANGED <<current, keyring, running, next, serial, runs>>
  BY <1>0, <1>k DEF StagePendingKey, hosts
<1>5. /\ stage'[x] = "install" /\ key'[x] = k /\ pending'[d] = k
      /\ \A e \in Daemon : e # d => pending'[e] = pending[e]
  BY <1>t, <1>1, <1>4 DEF StagePendingKey, Goto, TypeInv, TypeOK
<1>6. k # NoKey
  BY <1>3, <1>k
<1>7. \A e \in Daemon : HandsOver(e)'
  <2>1. ASSUME NEW e \in Daemon, e # d
        PROVE  HandsOver(e)'
    BY <1>4, <1>5, <2>1 DEF HandoverInv, HandsOver, Accepted
  <2>2. CASE pending[d] = NoKey
    <3>1. keyring[d] = current[d] /\ k = NewKey(x)
      BY <1>1, <1>k, <2>2 DEF HandoverInv, HandsOver, Accepted
    <3>2. HandsOver(d)'
      BY <1>3, <1>4, <1>5, <3>1 DEF HandsOver, Accepted
    <3> QED
      BY <2>1, <3>2
  <2>3. CASE pending[d] # NoKey
    <3>1. HandsOver(d)'
      BY <1>1, <1>4, <1>5, <1>k, <2>3 DEF HandoverInv, HandsOver, Accepted
    <3> QED
      BY <2>1, <3>1
  <2> QED
    BY <2>2, <2>3
<1>8. k.n <= runs + 1
  <2>1. serial[x] + 1 <= runs + 1
    BY <1>t, KeyNumbers
  <2> QED
    BY <1>1, <1>3, <1>k, <2>1 DEF HandoverInv, Older
<1>9. \A e \in Daemon : Older(e, runs + 1)'
  BY <1>4, <1>5, <1>8 DEF HandoverInv, Older
<1>10. StagedHolds(x)'
  BY <1>1, <1>4, <1>5, <1>6 DEF StagedHolds
<1>11. KeysOlder(x)'
  <2>1. ASSUME NEW j \in DOMAIN Daemons, j >= next[x], j # next[x]
        PROVE  OlderFor(Daemons[j], serial[x], j)'
    <3>1. PICK e, s : e \in Daemon /\ e = Daemons[j] /\ s = serial[x]
      BY DEF Daemon
    <3>2. OlderFor(e, s, j)
      BY <1>1, <2>1, <3>1 DEF HandoverInv, KeysOlder
    <3>3. Before(NewKey(x), s, j)
      BY <1>3, <1>t, <2>1, <3>1, KeyNumbers DEF Before
    <3>4. Before(pending'[e], s, j)
      BY <1>5, <1>k, <3>1, <3>2, <3>3 DEF OlderFor
    <3>5. OlderFor(e, s, j)'
      BY <1>4, <3>2, <3>4 DEF OlderFor, Before
    <3> QED
      BY <1>4, <3>1, <3>5 DEF OlderFor, Before
  <2> QED
    BY <1>4, <1>5, <2>1 DEF KeysOlder, Staged
<1>12. \/ UNCHANGED pending
       \/ /\ pending[d] = NoKey /\ NewKey(x) # current[d]
          /\ pending' = [pending EXCEPT ![d] = NewKey(x)]
  BY <1>t, <1>1, <1>3, <1>4, <1>k
<1> QED
  BY <1>0, <1>7, <1>9, <1>10, <1>11, <1>12

LEMMA InstallHolds ==
    ASSUME HandoverInv, NEW x \in Migrator, InstallRGWKey(x)
    PROVE  /\ \A d \in Daemon : HandsOver(d)' /\ Older(d, runs + 1)'
           /\ StagedHolds(x)' /\ KeysOlder(x)'
           /\ key[x] \in Accepted(This(x))
<1>t. TypeInv /\ keyring \in [Daemon -> Key]
  BY DEF HandoverInv, TypeInv, TypeOK
<1>0. PICK d : d = This(x)
  OBVIOUS
<1>k. PICK k : k = key[x]
  OBVIOUS
<1>1. /\ next[x] \in DOMAIN Daemons /\ d \in Daemon /\ d = Daemons[next[x]]
      /\ stage[x] = "install"
  BY <1>0, <1>t, ThisDaemon DEF InstallRGWKey, TypeInv, GenerationsHold, This
<1>2. k # NoKey /\ (k = pending[d] \/ (k = current[d] /\ pending[d] = NoKey))
  BY <1>1, <1>k DEF HandoverInv, StagedHolds, Staged
<1>3. k \in Accepted(d)
  BY <1>2 DEF Accepted
<1>4. /\ keyring' = [keyring EXCEPT ![d] = k]
      /\ UNCHANGED <<current, pending, running, next, key, serial, runs>>
  BY <1>0, <1>k DEF InstallRGWKey, monitors
<1>5. /\ stage'[x] = "restart" /\ keyring'[d] = k
      /\ \A e \in Daemon : e # d => keyring'[e] = keyring[e]
  BY <1>t, <1>1, <1>4 DEF InstallRGWKey, Goto, TypeInv, TypeOK
<1>6. ASSUME NEW e \in Daemon
      PROVE  HandsOver(e)'
  <2>1. CASE e # d
    BY <1>4, <1>5, <2>1 DEF HandoverInv, HandsOver, Accepted
  <2>2. CASE e = d
    BY <1>2, <1>3, <1>4, <1>5, <2>2 DEF HandsOver, Accepted
  <2> QED
    BY <2>1, <2>2
<1>7. k.n <= runs + 1
  BY <1>1, <1>2 DEF HandoverInv, Older
<1>8. \A e \in Daemon : Older(e, runs + 1)'
  BY <1>4, <1>5, <1>7 DEF HandoverInv, Older
<1>9. StagedHolds(x)'
  BY <1>1, <1>4, <1>5 DEF HandoverInv, StagedHolds, Staged
<1>10. KeysOlder(x)'
  <2>1. ASSUME NEW j \in DOMAIN Daemons, j >= next[x], j # next[x]
        PROVE  OlderFor(Daemons[j], serial[x], j)'
    <3>1. PICK e, s : e \in Daemon /\ e = Daemons[j] /\ s = serial[x]
      BY DEF Daemon
    <3>2. OlderFor(e, s, j)
      BY <1>1, <2>1, <3>1 DEF HandoverInv, KeysOlder
    <3>3. Before(keyring'[e], s, j)
      BY <1>2, <1>5, <3>1, <3>2 DEF OlderFor
    <3>4. OlderFor(e, s, j)'
      BY <1>4, <3>2, <3>3 DEF OlderFor, Before
    <3> QED
      BY <1>4, <3>1, <3>4 DEF OlderFor, Before
  <2> QED
    BY <1>4, <1>5, <2>1 DEF KeysOlder, Staged
<1> QED
  BY <1>0, <1>3, <1>6, <1>8, <1>9, <1>10, <1>k

\* The process of a daemon loads its keyring: by the hand of a run, or not.
LEMMA LoadsKeyring ==
    ASSUME HandoverInv, NEW d \in Daemon, running' = [running EXCEPT ![d] = keyring[d]],
           UNCHANGED <<current, pending, keyring, runs>>
    PROVE  \A e \in Daemon : HandsOver(e)' /\ Older(e, runs + 1)'
<1>1. /\ running'[d] = keyring[d]
      /\ \A e \in Daemon : e # d => running'[e] = running[e]
  BY DEF HandoverInv, TypeInv, TypeOK
<1>2. ASSUME NEW e \in Daemon
      PROVE  HandsOver(e)' /\ Older(e, runs + 1)'
  BY <1>1 DEF HandoverInv, HandsOver, Accepted, Older
<1> QED
  BY <1>2

LEMMA RestartHolds ==
    ASSUME HandoverInv, NEW x \in Migrator, RestartRGW(x)
    PROVE  /\ \A d \in Daemon : HandsOver(d)' /\ Older(d, runs + 1)'
           /\ StagedHolds(x)' /\ KeysOlder(x)'
<1>t. TypeInv /\ running \in [Daemon -> Key]
  BY DEF HandoverInv, TypeInv, TypeOK
<1>0. PICK d : d = This(x)
  OBVIOUS
<1>1. /\ next[x] \in DOMAIN Daemons /\ d \in Daemon /\ d = Daemons[next[x]]
      /\ stage[x] = "restart"
  BY <1>0, <1>t, ThisDaemon DEF RestartRGW, TypeInv, GenerationsHold, This
<1>2. /\ running' = [running EXCEPT ![d] = keyring[d]]
      /\ UNCHANGED <<current, pending, keyring, next, key, serial, runs>>
  BY <1>0 DEF RestartRGW, monitors
<1>3. /\ stage'[x] = "await" /\ running'[d] = keyring[d]
      /\ \A e \in Daemon : e # d => running'[e] = running[e]
  BY <1>t, <1>1, <1>2 DEF RestartRGW, Goto, TypeInv, TypeOK
<1>4. StagedHolds(x)'
  BY <1>1, <1>2, <1>3 DEF HandoverInv, StagedHolds, Staged
<1>5. KeysOlder(x)'
  <2>1. ASSUME NEW j \in DOMAIN Daemons, j >= next[x], j # next[x]
        PROVE  OlderFor(Daemons[j], serial[x], j)'
    <3>1. PICK e, s : e \in Daemon /\ e = Daemons[j] /\ s = serial[x]
      BY DEF Daemon
    <3>2. OlderFor(e, s, j)
      BY <1>1, <2>1, <3>1 DEF HandoverInv, KeysOlder
    <3>3. Before(running'[e], s, j)
      BY <1>3, <3>1, <3>2 DEF OlderFor
    <3>4. OlderFor(e, s, j)'
      BY <1>2, <3>2, <3>3 DEF OlderFor, Before
    <3> QED
      BY <1>2, <3>1, <3>4 DEF OlderFor, Before
  <2> QED
    BY <1>2, <1>3, <2>1 DEF KeysOlder, Staged
<1> QED
  BY <1>1, <1>2, <1>4, <1>5, LoadsKeyring

LEMMA AuthenticateHolds ==
    ASSUME HandoverInv, NEW d \in Daemon, Authenticate(d)
    PROVE  /\ \A e \in Daemon : HandsOver(e)' /\ Older(e, runs + 1)'
           /\ \A x \in Migrator : StagedHolds(x)' /\ KeysOlder(x)'
           /\ keyring[d] = pending[d]
<1>t. TypeInv /\ current \in [Daemon -> Key] /\ pending \in [Daemon -> Key]
  BY DEF HandoverInv, TypeInv, TypeOK
<1>1. /\ current' = [current EXCEPT ![d] = pending[d]]
      /\ pending' = [pending EXCEPT ![d] = NoKey]
      /\ UNCHANGED <<keyring, running, stage, next, key, serial, runs>>
  BY DEF Authenticate, hosts, locals
<1>2. /\ current'[d] = pending[d] /\ pending'[d] = NoKey
      /\ \A e \in Daemon : e # d => current'[e] = current[e] /\ pending'[e] = pending[e]
  BY <1>t, <1>1
<1>3. keyring[d] = pending[d] /\ pending[d] # NoKey
  BY DEF Authenticate, HandoverInv, HandsOver
<1>4. ASSUME NEW e \in Daemon
      PROVE  HandsOver(e)'
  <2>1. CASE e # d
    BY <1>1, <1>2, <2>1 DEF HandoverInv, HandsOver, Accepted
  <2>2. CASE e = d
    BY <1>1, <1>2, <1>3, <2>2 DEF HandsOver, Accepted
  <2> QED
    BY <2>1, <2>2
<1>5. ASSUME NEW e \in Daemon, NEW n \in Nat
      PROVE  /\ Older(e, n) => Older(e, n)'
             /\ \A j : OlderFor(e, n, j) => OlderFor(e, n, j)'
  <2>1. NoKey.n <= n /\ \A j : Before(NoKey, n, j)
    BY DEF NoKey, Before
  <2>2. Older(e, n) => Older(e, n)'
    BY <1>1, <1>2, <2>1 DEF Older
  <2>3. ASSUME NEW j, OlderFor(e, n, j)
        PROVE  OlderFor(e, n, j)'
    BY <1>1, <1>2, <2>1, <2>3 DEF OlderFor, Before
  <2> QED
    BY <2>2, <2>3
<1>6. \A e \in Daemon : Older(e, runs + 1)'
  <2>1. runs + 1 \in Nat
    BY <1>t, KeyNumbers
  <2>2. PICK n : n = runs + 1
    OBVIOUS
  <2>3. \A e \in Daemon : Older(e, n)'
    BY <1>5, <2>1, <2>2 DEF HandoverInv
  <2> QED
    BY <1>1, <2>2, <2>3 DEF Older
<1>7. ASSUME NEW x \in Migrator
      PROVE  StagedHolds(x)'
  <2>1. stage[x] \in Staged => Daemons[next[x]] \in Daemon
    BY <1>t DEF TypeInv, TypeOK, GenerationsHold, Staged, Daemon
  <2> QED
    BY <1>1, <1>2, <1>3, <2>1 DEF HandoverInv, StagedHolds
<1>8. ASSUME NEW x \in Migrator
      PROVE  KeysOlder(x)'
  <2>1. PICK n : n = serial[x]
    OBVIOUS
  <2>2. n \in Nat
    BY <1>t, <2>1, KeyNumbers
  <2>3. ASSUME NEW j \in DOMAIN Daemons, stage[x] # "idle", j >= next[x],
               j = next[x] => stage[x] \notin Staged
        PROVE  OlderFor(Daemons[j], n, j)'
    <3>1. OlderFor(Daemons[j], n, j) /\ Daemons[j] \in Daemon
      BY <2>1, <2>3 DEF HandoverInv, KeysOlder, Daemon
    <3> QED
      BY <1>5, <2>2, <3>1
  <2> QED
    BY <1>1, <2>1, <2>3 DEF KeysOlder, OlderFor, Before
<1> QED
  BY <1>3, <1>4, <1>6, <1>7, <1>8

-----------------------------------------------------------------------------
(* A migration implements KeyHandover.                                     *)

AcceptedNow == [d \in Daemon |-> Accepted(d)]

\* A step of the promise that is none: no key is accepted that was not before.
LEMMA Stutters ==
    ASSUME UNCHANGED <<current, pending, keyring>>
    PROVE  UNCHANGED <<AcceptedNow, keyring>>
BY DEF AcceptedNow, Accepted

LEMMA StageOffers ==
    ASSUME HandoverInv, NEW x \in Migrator, StagePendingKey(x)
    PROVE  \/ UNCHANGED <<AcceptedNow, keyring>>
           \/ \E d \in Daemon : Promise!Offer(d)
<1>1. UNCHANGED <<current, keyring>>
  BY DEF StagePendingKey, hosts
<1>2. CASE UNCHANGED pending
  BY <1>1, <1>2, Stutters
<1>3. CASE /\ pending[This(x)] = NoKey /\ NewKey(x) # current[This(x)]
           /\ pending' = [pending EXCEPT ![This(x)] = NewKey(x)]
  <2>1. PICK d, k : d = This(x) /\ k = NewKey(x)
    OBVIOUS
  <2>2. d \in Daemon /\ TypeInv
    BY <2>1, ThisDaemon DEF HandoverInv, StagePendingKey, TypeInv, GenerationsHold
  <2>3. k \in Key /\ k # NoKey
    <3>1. /\ serial[x] + 1 \in 0..MaxRuns + 1 /\ serial[x] + 1 # 0
          /\ next[x] \in 0..Len(Daemons)
      BY <2>2 DEF StagePendingKey, TypeInv, TypeOK, GenerationsHold
    <3>2. k = [type |-> Secure, n |-> serial[x] + 1, at |-> next[x]]
      BY <2>1 DEF NewKey
    <3>3. k \in Key
      BY <3>1, <3>2 DEF Key, KeyType
    <3>4. NoKey.n = 0 /\ k.n = serial[x] + 1
      BY <3>2 DEF NoKey
    <3> QED
      BY <3>1, <3>3, <3>4
  <2>4. AcceptedNow[d] = {keyring[d]} /\ keyring[d] = current[d]
    BY <1>3, <2>1, <2>2 DEF AcceptedNow, Accepted, HandoverInv, HandsOver
  <2>5. /\ \A e \in Daemon : pending'[e] = IF e = d THEN k ELSE pending[e]
    BY <1>3, <2>1, <2>2 DEF TypeInv, TypeOK
  <2>6. AcceptedNow' = [AcceptedNow EXCEPT ![d] = @ \cup {k}]
    <3>1. \A e \in Daemon : AcceptedNow'[e] = IF e = d THEN AcceptedNow[d] \cup {k}
                                                       ELSE AcceptedNow[e]
      BY <1>1, <1>3, <2>1, <2>3, <2>5 DEF AcceptedNow, Accepted
    <3> QED
      BY <2>2, <3>1 DEF AcceptedNow
  <2>7. k \notin AcceptedNow[d]
    BY <1>3, <2>1, <2>4
  <2>8. Promise!Offer(d)
    BY <1>1, <2>3, <2>4, <2>6, <2>7 DEF Promise!Offer, AcceptedNow
  <2> QED
    BY <2>2, <2>8
<1> QED
  BY <1>2, <1>3, StageHolds

LEMMA InstallTakesOver ==
    ASSUME HandoverInv, NEW x \in Migrator, InstallRGWKey(x)
    PROVE  \E d \in Daemon : Promise!TakeOver(d)
<1>1. PICK d, k : d = This(x) /\ k = key[x]
  OBVIOUS
<1>2. d \in Daemon
  BY <1>1, ThisDaemon DEF HandoverInv, InstallRGWKey, TypeInv, GenerationsHold
<1>3. k \in AcceptedNow[d]
  BY <1>1, <1>2, InstallHolds DEF AcceptedNow
<1>4. keyring' = [keyring EXCEPT ![d] = k] /\ UNCHANGED <<current, pending>>
  BY <1>1 DEF InstallRGWKey, monitors
<1>5. AcceptedNow' = AcceptedNow
  BY <1>4 DEF AcceptedNow, Accepted
<1>6. Promise!TakeOver(d)
  BY <1>3, <1>4, <1>5 DEF Promise!TakeOver, AcceptedNow
<1> QED
  BY <1>2, <1>6

LEMMA AuthenticateRetires ==
    ASSUME HandoverInv, NEW d \in Daemon, Authenticate(d)
    PROVE  Promise!Retire(d)
<1>1. keyring' = keyring /\ keyring[d] = pending[d]
  BY AuthenticateHolds DEF Authenticate, hosts
<1>2. \A e \in Daemon : /\ current'[e] = IF e = d THEN keyring[d] ELSE current[e]
                        /\ pending'[e] = IF e = d THEN NoKey ELSE pending[e]
  BY <1>1 DEF Authenticate, HandoverInv, TypeInv, TypeOK
<1>3. \A e \in Daemon : AcceptedNow'[e] = IF e = d THEN {keyring[d]} ELSE AcceptedNow[e]
  BY <1>2 DEF AcceptedNow, Accepted
<1>4. AcceptedNow' = [AcceptedNow EXCEPT ![d] = {keyring[d]}]
  BY <1>3 DEF AcceptedNow
<1> QED
  BY <1>1, <1>4 DEF Promise!Retire, AcceptedNow

\* One step, of the invariant and of the promise.
LEMMA HandoverStep ==
    ASSUME Alone, ~SessionsCut, HandoverInv, [Next]_vars
    PROVE  HandoverInv' /\ [Promise!HandoverNext]_<<AcceptedNow, keyring>>
<1>t. TypeInv'
  BY StepTypes DEF HandoverInv
<1> DEFINE Goal == HandoverInv' /\ [Promise!HandoverNext]_<<AcceptedNow, keyring>>
<1>1. ASSUME NEW x \in Migrator, RunStep(x)
      PROVE  Goal
  <2>1. ASSUME \A d \in Daemon : HandsOver(d)' /\ Older(d, runs + 1)',
               StagedHolds(x)' /\ KeysOlder(x)'
        PROVE  HandoverInv'
    BY <1>t, <2>1 DEF Alone, HandoverInv
  <2>2. CASE StagePendingKey(x)
    BY <2>1, <2>2, StageHolds, StageOffers DEF Promise!HandoverNext
  <2>3. CASE InstallRGWKey(x)
    BY <2>1, <2>3, InstallHolds, InstallTakesOver DEF Promise!HandoverNext
  <2>4. CASE RestartRGW(x)
    BY <2>1, <2>4, RestartHolds, Stutters DEF RestartRGW, monitors
  <2>5. CASE Moves(x)
    BY <2>1, <2>5, MovesHold, Stutters DEF Moves
  <2> QED
    BY <1>1, <2>2, <2>3, <2>4, <2>5, RunMoves DEF HandoverInv
<1>2. ASSUME NEW d \in Daemon, Authenticate(d)
      PROVE  Goal
  BY <1>t, <1>2, AuthenticateHolds, AuthenticateRetires
     DEF HandoverInv, Promise!HandoverNext
<1>3. ASSUME NEW d \in Daemon, DaemonRestarts(d)
      PROVE  Goal
  <2>1. /\ running' = [running EXCEPT ![d] = keyring[d]]
        /\ UNCHANGED <<current, pending, keyring, stage, next, key, serial, runs>>
    BY <1>3 DEF DaemonRestarts, monitors, locals
  <2>2. \A e \in Daemon : \/ running'[e] = running[e]
                         \/ running'[e] = keyring[e]
    BY <2>1 DEF HandoverInv, TypeInv, TypeOK
  <2>3. \A j \in DOMAIN Daemons : Daemons[j] \in Daemon
    BY DEF Daemon
  <2>4. \A x \in Migrator : StagedHolds(x)' /\ KeysOlder(x)'
    BY <2>1, <2>2, <2>3 DEF HandoverInv, StagedHolds, KeysOlder, OlderFor
  <2> QED
    BY <1>t, <2>1, <2>4, LoadsKeyring, Stutters DEF HandoverInv
<1>4. ASSUME UNCHANGED <<current, pending, hosts, locals, runs>>
      PROVE  Goal
  <2>1. HandoverInv'
    BY <1>t, <1>4 DEF hosts, locals, HandoverInv, HandsOver, Accepted, StagedHolds,
                      KeysOlder, Older, OlderFor
  <2> QED
    BY <1>4, <2>1, Stutters DEF hosts
<1>5. PromotionChanges \/ UNCHANGED vars => UNCHANGED <<current, pending, hosts, locals, runs>>
  BY DEF PromotionChanges, vars, hosts, locals
<1> QED
  BY <1>1, <1>2, <1>3, <1>4, <1>5 DEF Next, Disturb, RunStep

LEMMA HandoverStarts ==
    ASSUME Init
    PROVE  HandoverInv /\ Promise!HandoverInit
<1>t. TypeInv
  BY InitTypes
<1>1. \A d \in Daemon : /\ current[d].n = 0 /\ pending[d] \in {NoKey, ByHand}
                        /\ keyring[d] = current[d] /\ running[d] = current[d]
  BY DEF Init, ByHand
<1>2. runs = 0 /\ \A x \in Migrator : stage[x] = "idle"
  BY DEF Init
<1>3. NoKey.n = 0 /\ ByHand.n = 1
  BY DEF NoKey, ByHand
<1>4. \A d \in Daemon : HandsOver(d) /\ Older(d, runs + 1)
  BY <1>1, <1>2, <1>3 DEF HandsOver, Accepted, Older
<1>5. \A x \in Migrator : StagedHolds(x) /\ KeysOlder(x)
  BY <1>2 DEF StagedHolds, KeysOlder, Staged
<1>6. ASSUME NEW d \in Daemon
      PROVE  \E k \in Key : AcceptedNow[d] = {keyring[d], k}
  <2>1. AcceptedNow[d] = {keyring[d]} \cup ({pending[d]} \ {NoKey})
    BY <1>1 DEF AcceptedNow, Accepted
  <2>2. pending[d] \in Key /\ keyring[d] \in Key
    BY <1>t DEF TypeInv, TypeOK
  <2>3. CASE pending[d] = NoKey
    BY <2>1, <2>2, <2>3
  <2>4. CASE pending[d] # NoKey
    <3>1. AcceptedNow[d] = {keyring[d], pending[d]}
      BY <2>1, <2>4
    <3> QED
      BY <2>2, <3>1
  <2> QED
    BY <2>3, <2>4
<1>7. AcceptedNow \in [Daemon -> SUBSET Key]
  BY <1>t DEF AcceptedNow, Accepted, TypeInv, TypeOK
<1>8. Promise!HandoverInit
  BY <1>t, <1>6, <1>7 DEF Promise!HandoverInit, AcceptedNow, TypeInv, TypeOK
<1> QED
  BY <1>t, <1>4, <1>5, <1>8 DEF HandoverInv

\* For any number of runs, one at a time, and of daemons, restarts and failures,
\* but with no session cut while it installs a keyring: the key in the keyring of
\* a daemon is one that the monitors accept, and only a key that is in no keyring
\* is retired.  (README.md:268; StagePendingKey, InstallRGWKey, promotion.)
THEOREM HandsOverKeys ==
    ASSUME Alone, ~SessionsCut
    PROVE  Spec => KeepsDaemonsWorking
<1>1. Init => HandoverInv /\ Promise!HandoverInit
  BY HandoverStarts
<1>2. HandoverInv /\ [Next]_vars
         => HandoverInv' /\ [Promise!HandoverNext]_<<AcceptedNow, keyring>>
  BY HandoverStep
<1>3. [][Promise!HandoverNext]_<<AcceptedNow, keyring>>
         <=> [][Promise!HandoverNext]_<<[d \in Daemon |-> Accepted(d)], keyring>>
  BY DEF AcceptedNow
<1> QED
  BY <1>1, <1>2, <1>3, PTL DEF Spec, KeepsDaemonsWorking, Promise!Handover
=============================================================================
