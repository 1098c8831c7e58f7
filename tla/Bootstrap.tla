------------------------------ MODULE Bootstrap ------------------------------
(***************************************************************************)
(* "bootstrap" (bootstrap.go): creates the Ceph users that a configuration *)
(* names and that do not exist.  Several runs may overlap with each other  *)
(* and with operators, and each command of a run may fail; repeating the   *)
(* command has to complete what an earlier run has left.                   *)
(***************************************************************************)
EXTENDS Integers

CONSTANTS
    User,           \* positions of the users in the list of credentials
    RGWUser,        \* those of kind "rook-rgw-admin"
    StandardUser,   \* CephX entities that rookCephXProfile knows
    Key, NoKey,     \* keys that Ceph may generate; no user
    Bootstrapper    \* the processes

ASSUME BootstrapAssumption ==
    /\ User \subseteq Nat
    /\ RGWUser \subseteq User /\ StandardUser \subseteq User \ RGWUser
    /\ NoKey \notin Key

VARIABLES
    key,            \* key[u]: the key of u in Ceph
    caps,           \* caps[u]: the capabilities of u
    step,           \* step[b]: what the run of b does next, or how it ended
    left            \* left[b]: users that b has still to visit

bootstrapVars == <<key, caps, step, left>>

Busy == {"look", "create", "add caps"}

\* Capabilities that differ: those of a profile, those of "user create", the
\* one that is added to them, and whatever somebody else has given.
Cap == {"profile", "admin", "info", "own"}

BootstrapTypeOK ==
    /\ key \in [User -> Key \cup {NoKey}]
    /\ caps \in [User -> SUBSET Cap]
    /\ step \in [Bootstrapper -> Busy \cup {"idle", "failed", "done"}]
    /\ left \in [Bootstrapper -> SUBSET User]

BootstrapInit ==
    /\ key = [u \in User |-> NoKey]
    /\ caps = [u \in User |-> {}]
    /\ step = [b \in Bootstrapper |-> "idle"]
    /\ left = [b \in Bootstrapper |-> {}]

Exists(u) == key[u] # NoKey

\* The loop visits the users in the order of the configuration.
Visits(b, u) == u \in left[b] /\ \A v \in left[b] : u <= v

Goto(b, s) == step' = [step EXCEPT ![b] = s] /\ UNCHANGED left

\* b is done with u.
NextUser(b, u) ==
    /\ left' = [left EXCEPT ![b] = @ \ {u}]
    /\ step' = [step EXCEPT ![b] = IF left[b] = {u} THEN "done" ELSE "look"]

Fail(b) ==
    /\ step' = [step EXCEPT ![b] = "failed"]
    /\ left' = [left EXCEPT ![b] = {}]

\* bootstrap(ctx, cfg, ...) with a configuration that names the users in wanted.
BeginBootstrap(b, wanted) ==
    /\ step[b] = "idle"
    /\ step' = [step EXCEPT ![b] = "look"]
    /\ left' = [left EXCEPT ![b] = wanted]
    /\ UNCHANGED <<key, caps>>

\* Variants of LookUp: an RGW user that exists is left as it is; an RGW user
\* is created without looking.
LookUpOnly(b) ==
    /\ step[b] = "look"
    /\ \E u \in User :
        /\ Visits(b, u)
        /\ IF Exists(u) THEN NextUser(b, u) ELSE Goto(b, "create")
    /\ UNCHANGED <<key, caps>>

CreateWithoutLooking(b) ==
    /\ step[b] = "look"
    /\ \E u \in User :
        /\ Visits(b, u)
        /\ IF u \in RGWUser THEN Goto(b, "create")
           ELSE IF Exists(u) THEN NextUser(b, u) ELSE Goto(b, "create")
    /\ UNCHANGED <<key, caps>>

\* source.Key or RGWCredentials.  A CephX user that exists is left alone; an
\* RGW user still gets its capability.  Any other CephX entity is an error.
LookUp(b) ==
    /\ step[b] = "look"
    /\ \E u \in User :
        /\ Visits(b, u)
        /\ IF u \in RGWUser
           THEN Goto(b, IF Exists(u) THEN "add caps" ELSE "create")
           ELSE IF u \notin StandardUser
           THEN Fail(b)
           ELSE IF Exists(u) THEN NextUser(b, u) ELSE Goto(b, "create")
    /\ UNCHANGED <<key, caps>>

\* The command that looks fails: the run takes the user for missing.
LookUpFails(b) ==
    /\ step[b] = "look"
    /\ \E u \in StandardUser \cup RGWUser : Visits(b, u)
    /\ Goto(b, "create")
    /\ UNCHANGED <<key, caps>>

\* The capabilities that a run gives a user it creates.
Created(u) == {IF u \in RGWUser THEN "admin" ELSE "profile"}

\* Variant of Create: the user is written whether it exists or not.
CreateAnyway(b) ==
    /\ step[b] = "create"
    /\ \E u \in User, k \in Key :
        /\ Visits(b, u)
        /\ key' = [key EXCEPT ![u] = k]
        /\ caps' = [caps EXCEPT ![u] = Created(u)]
        /\ IF u \in RGWUser THEN Goto(b, "add caps") ELSE NextUser(b, u)

\* ceph auth get-or-create returns a user with the same capabilities and
\* refuses one with others; radosgw-admin user create refuses any.
Create(b) ==
    /\ step[b] = "create"
    /\ \E u \in User :
        /\ Visits(b, u)
        /\ IF ~Exists(u)
           THEN /\ \E k \in Key : key' = [key EXCEPT ![u] = k]
                /\ caps' = [caps EXCEPT ![u] = Created(u)]
                /\ IF u \in RGWUser THEN Goto(b, "add caps") ELSE NextUser(b, u)
           ELSE /\ IF u \in StandardUser /\ caps[u] = Created(u)
                   THEN NextUser(b, u)
                   ELSE Fail(b)
                /\ UNCHANGED <<key, caps>>

\* radosgw-admin caps add: the other capabilities stay.
AddCaps(b) ==
    /\ step[b] = "add caps"
    /\ \E u \in User :
        /\ Visits(b, u)
        /\ caps' = [caps EXCEPT ![u] = @ \cup {"info"}]
        /\ NextUser(b, u)
    /\ UNCHANGED key

BootstrapStep(b) == LookUp(b) \/ Create(b) \/ AddCaps(b)

\* A command fails, the deadline passes or the process is killed, before or
\* after a command has taken effect.
BootstrapFails(b) ==
    /\ step[b] \in Busy
    /\ Fail(b)
    /\ UNCHANGED <<key, caps>>

\* A run on another node creates a user at the same time, or an operator does,
\* with capabilities of their own.
SomebodyCreates(u) ==
    /\ ~Exists(u)
    /\ \E k \in Key : key' = [key EXCEPT ![u] = k]
    /\ \E given \in {Created(u), {"own"}} : caps' = [caps EXCEPT ![u] = given]
    /\ UNCHANGED <<step, left>>

-----------------------------------------------------------------------------
(* Properties.                                                             *)

Complete(u) == Exists(u) /\ (u \in RGWUser => "info" \in caps[u])

\* No run changes a user that exists, whoever created it and whenever, but
\* for the one capability that an RGW user must have.  (README "Existing
\* CephX users and their caps are left unchanged" and "creates or reuses
\* `rgw-admin-ops-user` and ensures its `info=read` capability".)
UsersAreLeftAlone ==
    [][\A u \in User : Exists(u) =>
            /\ key'[u] = key[u]
            /\ caps[u] \subseteq caps'[u]
            /\ caps'[u] \ caps[u] \subseteq IF u \in RGWUser THEN {"info"} ELSE {}
      ]_bootstrapVars
=============================================================================
