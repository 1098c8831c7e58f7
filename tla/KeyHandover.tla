------------------------------ MODULE KeyHandover ------------------------------
(***************************************************************************)
(* What a migration promises the owner of a daemon: the key in its keyring *)
(* is one that the monitors accept, whatever happens to the migration.  A  *)
(* second key is accepted beside the first, the daemon takes it over, and  *)
(* only then is the first one retired.                                     *)
(***************************************************************************)
CONSTANTS
    Daemon,
    Key

VARIABLES
    accepted,           \* accepted[d]: the keys with which d may authenticate
    held                \* held[d]: the key in the keyring of d

TypeOK ==
    /\ accepted \in [Daemon -> SUBSET Key]
    /\ held \in [Daemon -> Key]

HandoverInit ==
    /\ accepted \in [Daemon -> SUBSET Key]
    /\ held \in [Daemon -> Key]
    /\ \A d \in Daemon : \E k \in Key : accepted[d] = {held[d], k}

\* A second key is accepted, beside the one in use.
Offer(d) ==
    /\ accepted[d] = {held[d]}
    /\ \E k \in Key \ accepted[d] : accepted' = [accepted EXCEPT ![d] = @ \cup {k}]
    /\ UNCHANGED held

\* The keyring is replaced by one with another accepted key.
TakeOver(d) ==
    /\ \E k \in accepted[d] : held' = [held EXCEPT ![d] = k]
    /\ UNCHANGED accepted

\* Every key but the one in use is retired.
Retire(d) ==
    /\ accepted' = [accepted EXCEPT ![d] = {held[d]}]
    /\ UNCHANGED held

HandoverNext == \E d \in Daemon : Offer(d) \/ TakeOver(d) \/ Retire(d)

Handover == HandoverInit /\ [][HandoverNext]_<<accepted, held>>
=============================================================================
