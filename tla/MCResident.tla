----------------------------- MODULE MCResident -----------------------------
(* Instances of Resident for TLC: two users and a static token. *)
EXTENDS Resident

CONSTANTS alice, bob, static

MCIdentityOf == [s \in Section |-> s]
=============================================================================
