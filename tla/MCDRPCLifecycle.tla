-------------------------- MODULE MCDRPCLifecycle --------------------------
EXTENDS DRPCLifecycle, MCDRSystem

Scene(starts, acts, actions, answers, ng, nf) ==
  [starts |-> starts, acts |-> acts, actions |-> actions, answers |-> answers,
   generations |-> ng, faults |-> nf]

Starts == {"deployed", "failed over", "relocated", "relocated back",
           "failed back"}

(* The hub is lost when an action is completed, and restored.              *)
Recovered == Scene(Starts, {"lose", "stale"}, {}, {}, 0, 0)

RecoveredOld == Scene(Starts, {"lose", "stale failover"}, {}, {}, 0, 0)

(* The hub is lost in the middle of a failover.                            *)
LostFailingOver ==
  Scene({"deployed"}, {"lose", "hasty"}, {"Failover"}, {}, 1, 0)

(* The hub is lost with a cluster, and the user fails over.                *)
LostTogether == Scene(Starts, {"lose both"}, {}, {"Failover"}, 1, 0)

(* The DRPC is deleted, perhaps by a hub that has been restored.           *)
Deleted == Scene({"deployed", "failed over"}, {"delete", "lose"}, {}, {}, 1, 1)

(* The initial deployment.                                                 *)
Deploying == Scene({"new"}, {}, {}, {}, 0, 0)

(* A failover while a cluster is down, for a while or for ever.            *)
FailingOver ==
  Scene({"deployed"}, {"fail", "return"}, {"Failover"}, {}, 1, 1)

(* A relocation while a cluster is down for a while.                       *)
Relocating ==
  Scene({"deployed"}, {"fail", "return"}, {"Relocate"}, {}, 1, 1)

(* A relocation while the operator reconciles another DRPC as well.        *)
RelocatingBeside ==
  Scene({"deployed"}, {"other"}, {"Relocate"}, {}, 1, 1)

(* The same, and a cluster is down for a while.                            *)
RelocatingBesideDown ==
  Scene({"deployed"}, {"other", "fail", "return"}, {"Relocate"}, {}, 1, 1)

EveryScene == {Deploying, FailingOver, Relocating, RelocatingBeside, Recovered,
               LostFailingOver, LostTogether, Deleted}

StaleFailovers == {RecoveredOld}

BesideDown == {RelocatingBesideDown}

(* The workload was deployed on cluster c, and perhaps failed over,        *)
(* relocated, failed over and relocated back, or relocated and failed over *)
(* back.                                                                   *)
Began(s, c) ==
  LET d == Peer(c)
      deployed == Asked("", NoCluster, c)
      failedOver == Asked("Failover", d, c)
      relocated == Asked("Relocate", NoCluster, d)
      First == InBackup(deployed, [cluster |-> c, action |-> ""])
      Second == InBackup(failedOver, [cluster |-> d, action |-> "Failover"])
  IN
  \/ /\ "new" \in s.starts
     /\ Init /\ spec.preferredCluster = c /\ NewLife(s, {})
  \/ /\ "deployed" \in s.starts
     /\ CompletedOn(c, deployed, c) /\ NewLife(s, {})
  \/ /\ "failed over" \in s.starts
     /\ CompletedOn(d, failedOver, c) /\ NewLife(s, {First})
  \/ /\ "relocated" \in s.starts
     /\ CompletedOn(d, relocated, c) /\ NewLife(s, {First})
  \/ /\ "relocated back" \in s.starts
     /\ CompletedOn(c, Asked("Relocate", d, c), c)
     /\ NewLife(s, {First, Second})
  \/ /\ "failed back" \in s.starts
     /\ CompletedOn(c, Asked("Failover", c, d), c)
     /\ NewLife(s, {First, InBackup(relocated,
                                    [cluster |-> d, action |-> "Relocate"])})

(* The clusters are alike: any of them is the one of the deployment.       *)
InitLifecycle == \E s \in Scenes : Began(s, CHOOSE c \in Clusters : TRUE)

SpecLifecycle == InitLifecycle /\ [][NextLifecycle]_allVars

FairSpecLifecycle == SpecLifecycle /\ FairLifecycle
=============================================================================
