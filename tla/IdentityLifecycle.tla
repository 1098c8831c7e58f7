--------------------------- MODULE IdentityLifecycle ---------------------------
(***************************************************************************)
(* What "rotate" promises the consumers of the Rook identities, without    *)
(* saying how: identities only ever come into being, both generations of a *)
(* switch are preserved in Vault before consumers are offered the new one  *)
(* and before it becomes the configured one, and what a consumer is        *)
(* offered at the stable path is always an identity that Ceph knows.       *)
(* Rotation implements it.                                                 *)
(***************************************************************************)
EXTENDS Integers

CONSTANTS
    Rotatable,          \* the credentials whose identities are rotated
    MaxGeneration,
    Nobody,             \* the stable path names no identity yet
    OneAtATime          \* no two switches overlap

VARIABLES
    generation,         \* the configured generation
    identities,         \* the <<credential, generation>> that exist in Ceph
    archived,           \* those preserved under <vault_path>/generations/<n>
    offered             \* offered[c]: generation named at c's stable path

lifecycle == <<generation, identities, archived, offered>>

Preserved(g) == Rotatable \X {g - 1, g} \subseteq archived

\* What consumers may be offered: the identities of the start, or those of a
\* generation that is preserved together with the one before it.
Offerable(g) == g = 0 \/ Preserved(g)

\* A switch leads from the configured generation to the next one.  One that
\* overlaps with others leads from what was configured when it started.
SwitchesFrom(g) == IF OneAtATime THEN g = generation ELSE Offerable(g)

\* Identities of later generations may exist, under a name that is configured.
LifecycleInit ==
    /\ generation = 0
    /\ Rotatable \X {0} \subseteq identities
    /\ archived = {}
    /\ offered = [c \in Rotatable |-> Nobody]

\* Credentials may share an entity, and so an identity.
Create(C, g) ==
    /\ SwitchesFrom(g)
    /\ identities' = identities \cup (C \X {g + 1})
    /\ UNCHANGED <<generation, archived, offered>>

Archive(c, g) ==
    /\ <<c, g>> \in identities
    /\ archived' = archived \cup {<<c, g>>}
    /\ UNCHANGED <<generation, identities, offered>>

\* Older generations may be offered again: a slow writer overtakes nobody's
\* version, but may still hold what it read long ago.
Offer(c, g) ==
    /\ <<c, g>> \in identities
    /\ Offerable(g)
    /\ OneAtATime => g <= generation + 1
    /\ offered' = [offered EXCEPT ![c] = g]
    /\ UNCHANGED <<generation, identities, archived>>

\* A slow switch takes the configured generation back.
Activate(g) ==
    /\ SwitchesFrom(g)
    /\ Preserved(g + 1)
    /\ generation' = g + 1
    /\ UNCHANGED <<identities, archived, offered>>

LifecycleNext == \E g \in 0..MaxGeneration :
    \/ \E C \in SUBSET Rotatable : Create(C, g)
    \/ \E c \in Rotatable : Archive(c, g) \/ Offer(c, g)
    \/ Activate(g)

Lifecycle == LifecycleInit /\ [][LifecycleNext]_lifecycle
=============================================================================
