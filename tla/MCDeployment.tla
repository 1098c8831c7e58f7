----------------------------- MODULE MCDeployment -----------------------------
(* An instance of Deployment for TLC: the local configuration names a CephX    *)
(* user, the shared one an RGW user as well.                                   *)
EXTENDS Deployment

CONSTANTS plain, withRGW

MCWanted == [c \in Content |-> IF c = withRGW THEN {1, 2} ELSE {1, 3}]
=============================================================================
