--------------------------- MODULE DRClusterPair ---------------------------
(***************************************************************************)
(* The pair of managed clusters of a DRPolicy.                             *)
(***************************************************************************)
CONSTANTS Clusters,    \* the managed clusters of the DRPolicy
          NoCluster    \* the empty cluster name

ASSUME PairAssumption == \E a, b \in Clusters : a # b /\ Clusters = {a, b}

ASSUME NoClusterAssumption == NoCluster \notin Clusters

ClusterName == Clusters \cup {NoCluster}

(* The other cluster: createOrUpdateSecondaryManifestWork handles the      *)
(* first cluster that is not the source and returns.                       *)
Peer(c) == CHOOSE d \in Clusters : d # c
=============================================================================
