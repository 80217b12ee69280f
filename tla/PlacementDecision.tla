------------------------- MODULE PlacementDecision -------------------------
(***************************************************************************)
(* The decisions that the hub writes in the PlacementDecision resource of  *)
(* the workload's Placement.  A workload manager (GitOps, or the Placement *)
(* API of the hub) deploys the workload on every cluster with a decision.  *)
(*                                                                         *)
(* A decision is active, or retained: its reason is RetainedForFailover    *)
(* and it keeps the workload on the failed cluster until that cluster is   *)
(* seen to be Secondary.  The order of the decisions is never observed, so *)
(* the list is represented by how many decisions of each sort a cluster    *)
(* has.                                                                    *)
(***************************************************************************)
EXTENDS Integers, DRClusterPair

DecisionList == [Clusters -> [active : Nat, retained : Nat]]

NoDecisions == [c \in Clusters |-> [active |-> 0, retained |-> 0]]

ActiveClusters(d) == {c \in Clusters : d[c].active > 0}

RetainedClusters(d) == {c \in Clusters : d[c].retained > 0}

(* The clusters on which the workload is to run.                           *)
PlacedOn(d) == ActiveClusters(d) \cup RetainedClusters(d)

(* getPlacementDecisionFromPlacement refuses a Placement with more than    *)
(* one active decision.  Every operation below starts by calling it and    *)
(* returns its error, so they apply to readable lists only.                *)
Readable(d) ==
  \A c \in Clusters :
    /\ d[c].active <= 1
    /\ d[c].active = 1 => ActiveClusters(d) = {c}

(* The active decision.  An unreadable list yields the empty decision,     *)
(* because getClusterDecisionFromPlacement swallows the error.             *)
getClusterDecision(d) ==
  IF Readable(d) /\ ActiveClusters(d) # {}
  THEN CHOOSE c \in Clusters : d[c].active = 1
  ELSE NoCluster

(* Mutant: the former active decision stays.                               *)
createOrUpdatePlacementDecision_Appends(d, c) ==
  [x \in Clusters |-> [active |-> IF x = c THEN 1 ELSE d[x].active,
                       retained |-> d[x].retained]]

(* Replace the active decision by one for c, or by none when c is          *)
(* NoCluster, and keep the retained ones.                                  *)
createOrUpdatePlacementDecision(d, c) ==
  [x \in Clusters |-> [active |-> IF x = c THEN 1 ELSE 0,
                       retained |-> d[x].retained]]

(* Turn the active decision of c into a retained one.  With no decision at *)
(* all, a retained one is made up for c; without an active one for c,      *)
(* nothing changes.                                                        *)
retainClusterDecisionAsFailover(d, c) ==
  CASE PlacedOn(d) = {} -> [d EXCEPT ![c].retained = 1]
    [] d[c].active > 0  -> [d EXCEPT ![c] = [active |-> @.active - 1,
                                             retained |-> @.retained + 1]]
    [] OTHER            -> d

(* Drop every retained decision of c: its workload may be deleted.         *)
removeClusterDecisionForFailover(d, c) == [d EXCEPT ![c].retained = 0]
=============================================================================
