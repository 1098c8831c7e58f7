------------------------------ MODULE MCRotation ------------------------------
(* Instances of Rotation for TLC: a service runner on one host, "rotate" on   *)
(* another (or beside it), and two credentials.                               *)
EXTENDS Rotation

CONSTANTS a1, a2, rotate1, rotate2, clusterA

NoEntity == [prefix |-> "", id |-> "", gen |-> 0]

MCCredentials ==
    <<[path |-> "rook-csi-rbd-node", kind |-> "rook-csi", userID |-> NoUser,
       entity |-> [prefix |-> "client.", id |-> "csi-rbd-node", gen |-> 0]],
      [path |-> "rook-ceph-config", kind |-> "rook-config", userID |-> NoUser,
       entity |-> NoEntity]>>

\* Two standard credentials, of kinds that publish the identity differently.
MCRotated ==
    <<MCCredentials[1],
      [path |-> "rook-healthchecker", kind |-> "rook-mon", userID |-> NoUser,
       entity |-> [prefix |-> "client.", id |-> "healthchecker", gen |-> 0]]>>

MCStandardIds == {"csi-rbd-node", "healthchecker"}

\* The command runs on host a1; the service runs on host a2.
MCHostOf == [r \in Runner |-> IF r \in {rotate1, rotate2} THEN a1 ELSE r]
MCClusterOf == [r \in Runner |-> clusterA]
=============================================================================
