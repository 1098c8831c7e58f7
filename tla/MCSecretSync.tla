----------------------------- MODULE MCSecretSync -----------------------------
(* Instances of SecretSync for TLC: one CephX credential and the monitor map. *)
EXTENDS SecretSync

CONSTANTS a1, a2, b1, clusterA, clusterB

NoEntity == [prefix |-> "", id |-> "", gen |-> 0]

MCCredentials ==
    <<[path |-> "rook-csi-rbd-node", kind |-> "rook-csi", userID |-> NoUser,
       entity |-> [prefix |-> "client.", id |-> "csi-rbd-node", gen |-> 0]],
      [path |-> "rook-ceph-config", kind |-> "rook-config", userID |-> NoUser,
       entity |-> NoEntity]>>

MCStandardIds == {"csi-rbd-node"}

\* Every runner has a host of its own.
MCHostOf == [r \in Runner |-> r]
\* a1 and a2 are nodes of cluster A, b1 is a node of cluster B.
MCClusterOf == [r \in Runner |-> IF r = b1 THEN clusterB ELSE clusterA]
=============================================================================
