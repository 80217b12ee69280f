------------------------------ MODULE DRSystem ------------------------------
(***************************************************************************)
(* The hub, the two managed clusters, and the user.                        *)
(***************************************************************************)
EXTENDS DRPCActions

vars == <<hubVars, clusterVars>>

Init == InitDRPC /\ InitVRG

(* The user changes the spec of the DRPC.                                  *)
SetAction(action, c) ==
  /\ spec.generation < MaxGeneration
  /\ spec' = [spec EXCEPT
                !.action = action,
                !.failoverCluster = IF action = "Failover" THEN c ELSE @,
                !.preferredCluster = IF action = "Relocate" THEN c ELSE @,
                !.generation = @ + 1]
  /\ UNCHANGED <<lastAction, decisions, mw, view, status, reconcileVars,
                 faults, clusterVars>>

(* The ManagedClusterView of c is refreshed.                               *)
RefreshView(c) ==
  /\ view[c] # vrg[c]
  /\ view' = [view EXCEPT ![c] = vrg[c]]
  /\ UNCHANGED <<spec, lastAction, decisions, mw, status, reconcileVars,
                 faults, clusterVars>>

ClusterStep(c) ==
  /\ NextVRG(c, mw[c], PlacedOn(decisions))
  /\ UNCHANGED hubVars

Next ==
  \/ NextDRPC /\ UNCHANGED clusterVars
  \/ \E c \in Clusters : ClusterStep(c) \/ RefreshView(c)
  \/ \E action \in UserActions, c \in Clusters : SetAction(action, c)

Spec == Init /\ [][Next]_vars
-----------------------------------------------------------------------------
(* What a cluster that is up does sooner or later: it applies its          *)
(* ManifestWork, processes its VRG and follows the placement.  The storage *)
(* becomes ready in the end, and a final sync ends once the workload has   *)
(* released its volumes.                                                   *)

Quiesced(c) == ~(running[c] /\ (VolSync \/ vrg[c].status.protectedPVCs))

Works(c, w) ==
  \/ ApplyManifest(c, w)
  \/ processAsPrimary(c, TRUE, TRUE, VolSync /\ vrg[c].spec.runFinalSync)
  \/ resetInitialStatusAsSecondary(c)
  \/ processAsSecondary(c, Quiesced(c), Quiesced(c))

FollowsPlacement(c, placed) == StartWorkload(c, placed) \/ StopWorkload(c, placed)
-----------------------------------------------------------------------------
(* Every variable of the hub and of the clusters keeps its type.  In       *)
(* particular no PeerReady condition is of a generation that the DRPC      *)
(* does not have (addOrUpdateCondition).                                   *)
TypeOK == TypeOKDRPC /\ TypeOKVRG

(* The PlacementDecision never has two active decisions.  Otherwise        *)
(* getPlacementDecisionFromPlacement would fail from then on, and with it  *)
(* every operation on the placement.                                       *)
OneActiveDecision == Readable(decisions)

(* switchToCluster never finds its target ready: a VRG that is ready is    *)
(* Primary in the same snapshot, and RunFailover and RunRelocate handle    *)
(* that case before.  The rest of switchToCluster is dead code, as its     *)
(* comment says.                                                           *)
SwitchNeverPlaces == pc = "switch" => ~SwitchPlaces(target)

(* The workload does not run on both clusters at once.  A relocation keeps *)
(* this, see RelocatedNotCopied; a failover, made because the other        *)
(* cluster is not heard of, does not.                                      *)
AtMostOneRunning == \A c, d \in Clusters : running[c] /\ running[d] => c = d

Promotes(c) == mw[c].state # "Primary" /\ mw'[c].state = "Primary"

DemotesFirst ==
  \A c \in Clusters :
    Promotes(c) /\ inst.spec.action = "Relocate" =>
      /\ ReportsSecondary(vrg[Peer(c)])
      /\ vrg[Peer(c)].spec.state = "Secondary"
      /\ ~running[Peer(c)]

(* A relocation makes a VRG Primary only when the VRG of the peer really   *)
(* is Secondary, has been processed as such, and its workload is gone:     *)
(* setupRelocation decides that on views, which may be out of date.        *)
DemotedBeforePromotion == [][DemotesFirst]_vars

(* A relocation makes a VRG Primary only when every write of the workload  *)
(* on the peer has been transferred: the final sync that                   *)
(* quiesceAndRunFinalSync waits for is the one of this relocation.         *)
RelocateLosesNothing ==
  [][\A c \in Clusters :
       Promotes(c) /\ inst.spec.action = "Relocate" => ~unsynced[Peer(c)]]_vars

PlacesOnRestored ==
  \A c \in ActiveClusters(decisions') \ ActiveClusters(decisions) :
    inst.spec.action # "" =>
      isVRGPrimary(vrg[c]) /\ vrg[c].status.clusterData = "Restored"

(* The workload is rolled out to the target of a failover or a relocation  *)
(* only when the VRG there really is Primary and has restored the cluster  *)
(* data; ensurePlacement relies on checkReadiness of a snapshot.           *)
PlacedOnRestored == [][PlacesOnRestored]_vars

(* The decision retained for the failed cluster is dropped, and with it    *)
(* the workload and its volumes deleted, only when the VRG there really    *)
(* has processed its current generation as Secondary (cleanupSecondary).   *)
RetainedUntilSecondary ==
  [][\A c \in Clusters :
       decisions[c].retained > 0 /\ decisions'[c].retained = 0 =>
         vrg[c].spec.state = "Secondary" /\ vrg[c].status.observed]_vars

(* The DRPC reports the current action completed and its peer ready.       *)
ReportsCompleted(phase) ==
  /\ status.phase = phase
  /\ status.completed
  /\ status.peerReady = "Success"
  /\ status.peerGeneration = spec.generation

(* A failover that is reported completed, with the peer ready, has left no *)
(* decision for the failed cluster behind: EnsureCleanup, which takes a    *)
(* PeerReady condition of the current generation for a completed cleanup,  *)
(* has not skipped it.  A write that fails may break that.                 *)
CleanWhenCompleted ==
  ReportsCompleted("FailedOver") /\ faults = 0 =>
    RetainedClusters(decisions) = {}

RunsOnlyOn(c) == \A d \in Clusters : running[d] <=> d = c
=============================================================================
