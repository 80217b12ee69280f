--------------------------- MODULE DRSystemProofs ---------------------------
(***************************************************************************)
(* Proofs of the type invariant, of OneActiveDecision and of               *)
(* SwitchNeverPlaces, for every pair of clusters and every bound.          *)
(***************************************************************************)
EXTENDS DRSystem, TLAPS

-----------------------------------------------------------------------------
(* What the operations on the PlacementDecision preserve.                  *)

(* Of a pair, a cluster has exactly one peer.                              *)
LEMMA PeerIsOther ==
  ASSUME NEW c \in Clusters
  PROVE  /\ Peer(c) \in Clusters
         /\ Peer(c) # c
         /\ Clusters = {c, Peer(c)}
<1>1. PICK a, b \in Clusters : a # b /\ Clusters = {a, b}
  BY PairAssumption
<1>2. \E d \in Clusters : d # c
  BY <1>1
<1>3. Peer(c) \in Clusters /\ Peer(c) # c
  BY <1>2 DEF Peer
<1> QED
  BY <1>1, <1>3

(* The active decision is a cluster, or none.                              *)
LEMMA DecisionIsCluster ==
  ASSUME NEW d \in DecisionList
  PROVE  getClusterDecision(d) \in ClusterName
<1>1. CASE Readable(d) /\ ActiveClusters(d) # {}
  <2>1. PICK c \in Clusters : d[c].active > 0
    BY <1>1 DEF ActiveClusters
  <2>2. d[c].active = 1
    BY <1>1, <2>1 DEF Readable, DecisionList
  <2> QED
    BY <1>1, <2>2 DEF getClusterDecision, ClusterName
<1>2. CASE ~(Readable(d) /\ ActiveClusters(d) # {})
  BY <1>2 DEF getClusterDecision, ClusterName
<1> QED
  BY <1>1, <1>2

(* Writing a decision, or clearing it, leaves at most one active.          *)
LEMMA CreateOrUpdateIsReadable ==
  ASSUME NEW d \in DecisionList, NEW c \in ClusterName
  PROVE  /\ createOrUpdatePlacementDecision(d, c) \in DecisionList
         /\ Readable(createOrUpdatePlacementDecision(d, c))
<1> DEFINE e == createOrUpdatePlacementDecision(d, c)
<1>1. e \in DecisionList
  BY DEF createOrUpdatePlacementDecision, DecisionList
<1>2. \A x \in Clusters : e[x].active = IF x = c THEN 1 ELSE 0
  BY DEF createOrUpdatePlacementDecision
<1> HIDE DEF e
<1>3. Readable(e)
  BY <1>2 DEF Readable, ActiveClusters
<1> QED
  BY <1>1, <1>3 DEF e

(* Retaining a decision makes none active.                                 *)
LEMMA RetainIsReadable ==
  ASSUME NEW d \in DecisionList, NEW c \in Clusters, Readable(d)
  PROVE  /\ retainClusterDecisionAsFailover(d, c) \in DecisionList
         /\ Readable(retainClusterDecisionAsFailover(d, c))
<1> DEFINE e == retainClusterDecisionAsFailover(d, c)
<1>1. CASE PlacedOn(d) = {}
  <2>1. e = [d EXCEPT ![c].retained = 1]
    BY <1>1 DEF retainClusterDecisionAsFailover, PlacedOn, ActiveClusters
  <2> QED
    BY <2>1 DEF DecisionList, Readable, ActiveClusters
<1>2. CASE PlacedOn(d) # {} /\ d[c].active > 0
  <2>1. e = [d EXCEPT ![c] = [active |-> d[c].active - 1,
                              retained |-> d[c].retained + 1]]
    BY <1>2 DEF retainClusterDecisionAsFailover
  <2>2. e \in DecisionList
    BY <1>2, <2>1 DEF DecisionList
  <2>3. d[c].active = 1 /\ ActiveClusters(d) = {c}
    BY <1>2 DEF Readable, DecisionList
  <2>4. \A x \in Clusters : e[x].active = 0
    BY <2>1, <2>3 DEF DecisionList, ActiveClusters
  <2> QED
    BY <2>2, <2>4 DEF Readable
<1>3. CASE PlacedOn(d) # {} /\ ~(d[c].active > 0)
  BY <1>3 DEF retainClusterDecisionAsFailover
<1> QED
  BY <1>1, <1>2, <1>3

(* Dropping a retained decision makes none active.                         *)
LEMMA RemoveIsReadable ==
  ASSUME NEW d \in DecisionList, NEW c \in Clusters, Readable(d)
  PROVE  /\ removeClusterDecisionForFailover(d, c) \in DecisionList
         /\ Readable(removeClusterDecisionForFailover(d, c))
BY DEF removeClusterDecisionForFailover, DecisionList, Readable, ActiveClusters
-----------------------------------------------------------------------------
(* The spec names the clusters that its action needs.                      *)
WellFormed(s) ==
  /\ s.preferredCluster \in Clusters
  /\ s.action = "Failover" => s.failoverCluster \in Clusters

(* A VRG that reports to be Primary is wanted to be Primary.               *)
StatusAgrees(v) ==
  \A c \in Clusters : v[c].status.state = "Primary" => isVRGPrimary(v[c])

(* Steps at which the target's VRG was not Primary in the snapshot, and    *)
(* steps at which that of the preferred cluster was not.                   *)
Switching == {"retain", "switch", "toSecondary", "recheck"}

Quiescing == {"prepare", "clear", "finalSync"}

ResourceOK ==
  /\ spec \in Specs
  /\ WellFormed(spec)
  /\ lastAction \in Annotations
  /\ decisions \in DecisionList
  /\ OneActiveDecision
  /\ mw \in [Clusters -> VRGSpec]
  /\ view \in Views
  /\ StatusAgrees(view)

MemoryOK ==
  /\ status \in Statuses
  /\ faults \in 0..MaxFaults
  /\ pc \in Steps
  /\ inst \in Instances
  /\ vrgs \in Views
  /\ queried \in BOOLEAN
  /\ target \in ClusterName
  /\ StatusAgrees(vrgs)
  /\ pc # "idle" => WellFormed(inst.spec)
  /\ pc \notin {"idle", "action"} => target \in Clusters
  /\ pc \in Switching => ~isVRGPrimary(vrgs[target])
  /\ pc \in Quiescing => ~isVRGPrimary(vrgs[inst.spec.preferredCluster])

ClusterOK == TypeOKVRG /\ StatusAgrees(vrg)

IInv == ResourceOK /\ MemoryOK /\ ClusterOK
-----------------------------------------------------------------------------
(* The updates of the DRPC status in memory yield statuses.                *)
LEMMA StatusTypes ==
  ASSUME inst \in Instances, NEW s \in Statuses
  PROVE  /\ \A phase \in Phases : setDRState(s, phase) \in Statuses
         /\ setProgression(s) \in Statuses
         /\ setStatusInitiating(s) \in Statuses
         /\ \A reason \in PeerReasons : setPeerReady(s, reason) \in Statuses
         /\ updatePreferredDecision(s) \in Statuses
         /\ setConditionOnInitialDeploymentCompletion(s) \in Statuses
<1>1. inst.spec.generation \in 0..MaxGeneration
  BY DEF Instances, Specs
<1>2. inst.spec.preferredCluster \in ClusterName
  BY DEF Instances, Specs
<1>3. \A phase \in Phases : setDRState(s, phase) \in Statuses
  BY DEF setDRState, Statuses
<1>4. \A t \in Statuses : setProgression(t) \in Statuses
  BY DEF setProgression, Statuses
<1>5. setStatusInitiating(s) \in Statuses
  BY <1>3, <1>4 DEF setStatusInitiating, Phases
<1>6. \A reason \in PeerReasons : setPeerReady(s, reason) \in Statuses
  BY <1>1 DEF setPeerReady, Statuses
<1>7. updatePreferredDecision(s) \in Statuses
  BY <1>2 DEF updatePreferredDecision, Statuses
<1>8. setConditionOnInitialDeploymentCompletion(s) \in Statuses
  BY <1>6 DEF setConditionOnInitialDeploymentCompletion, PeerReasons
<1> QED
  BY <1>3, <1>4, <1>5, <1>6, <1>7, <1>8

(* The VRGs that the hub writes in a ManifestWork are VRG specs.           *)
LEMMA ManifestTypes ==
  ASSUME inst \in Instances, vrgs \in Views
  PROVE  /\ \A w \in VRGSpec : setVRGAction(w) \in VRGSpec
         /\ \A rdSpec \in BOOLEAN : newVRG("Primary", rdSpec) \in VRGSpec
         /\ \A rdSpec \in BOOLEAN : newVRG("Secondary", rdSpec) \in VRGSpec
         /\ \A w \in VRGSpec, c \in Clusters :
              /\ updateVRGState(w, c, "Primary") \in VRGSpec
              /\ updateVRGState(w, c, "Secondary") \in VRGSpec
<1>1. inst.spec.action \in DRActions
  BY DEF Instances, Specs
<1>2. \A w \in VRGSpec : setVRGAction(w) \in VRGSpec
  BY <1>1 DEF setVRGAction, VRGSpec
<1>3. \A state \in {"Primary", "Secondary"}, rdSpec \in BOOLEAN :
        [NoSpec EXCEPT !.state = state, !.rdSpec = rdSpec] \in VRGSpec
  BY DEF NoSpec, VRGSpec, DRActions
<1>4. \A rdSpec \in BOOLEAN : /\ newVRG("Primary", rdSpec) \in VRGSpec
                              /\ newVRG("Secondary", rdSpec) \in VRGSpec
  BY <1>2, <1>3 DEF newVRG
<1>5. \A w \in VRGSpec, c \in Clusters, state \in {"Primary", "Secondary"} :
        updateVRGState(w, c, state) \in VRGSpec
  <2> SUFFICES ASSUME NEW w \in VRGSpec, NEW c \in Clusters,
                      NEW state \in {"Primary", "Secondary"}
               PROVE  updateVRGState(w, c, state) \in VRGSpec
    OBVIOUS
  <2>1. setVRGAction(w) \in VRGSpec
    BY <1>2
  <2>2. \A u \in VRGSpec, k \in BOOLEAN :
          [u EXCEPT !.state = state,
                    !.prepareForFinalSync = @ /\ k,
                    !.runFinalSync = @ /\ k] \in VRGSpec
    BY DEF VRGSpec
  <2>3. (state # "Secondary" /\ ~isFailoverPromotion(c)) \in BOOLEAN
    BY DEF isFailoverPromotion
  <2> QED
    BY <2>1, <2>2, <2>3 DEF updateVRGState
<1> QED
  BY <1>2, <1>4, <1>5
-----------------------------------------------------------------------------
(* A step that writes no resource keeps them well formed.                  *)
LEMMA ResourcesUnchanged ==
  ASSUME ResourceOK, UNCHANGED resourceVars
  PROVE  ResourceOK'
BY DEF ResourceOK, resourceVars, WellFormed, OneActiveDecision, Readable,
       ActiveClusters, StatusAgrees, isVRGPrimary

(* So does a write of a ManifestWork.                                      *)
LEMMA ManifestWorkWritten ==
  ASSUME ResourceOK, NEW c \in Clusters, NEW w \in VRGSpec,
         UpdateManifestWork(c, w)
  PROVE  ResourceOK'
<1>1. mw' \in [Clusters -> VRGSpec]
  BY DEF ResourceOK, UpdateManifestWork
<1> QED
  BY <1>1 DEF ResourceOK, UpdateManifestWork, WellFormed, OneActiveDecision,
              Readable, ActiveClusters, StatusAgrees, isVRGPrimary

(* And a write of a readable PlacementDecision.                            *)
LEMMA PlacementWritten ==
  ASSUME ResourceOK, NEW d \in DecisionList, Readable(d), UpdatePlacement(d)
  PROVE  ResourceOK'
<1>1. Readable(decisions)' /\ decisions' \in DecisionList
  BY DEF UpdatePlacement, Readable, ActiveClusters
<1> QED
  BY <1>1 DEF ResourceOK, UpdatePlacement, WellFormed, OneActiveDecision,
              StatusAgrees, isVRGPrimary

(* An operation on the placement never fails: the decisions are readable.  *)
LEMMA PlacementIsReadable ==
  ASSUME ResourceOK, NEW d, NEW ACTION P, IfReadable(d, P)
  PROVE  UpdatePlacement(d) /\ P
BY DEF ResourceOK, OneActiveDecision, IfReadable

(* The reconcile goes on at a step whose condition on the snapshot holds.  *)
LEMMA ReconcileGoesOn ==
  ASSUME MemoryOK, pc # "idle",
         NEW step \in Steps, NEW c \in Clusters, NEW s \in Statuses,
         step \in Switching => ~isVRGPrimary(vrgs[c]),
         step \in Quiescing => ~isVRGPrimary(vrgs[inst.spec.preferredCluster]),
         Goto(step, c, s)
  PROVE  MemoryOK'
<1>1. inst' \in Instances /\ inst'.spec = inst.spec
  BY DEF MemoryOK, Goto, Instances
<1> QED
  BY <1>1 DEF MemoryOK, Goto, WellFormed, ClusterName, StatusAgrees,
              isVRGPrimary

(* The reconcile ends.                                                     *)
LEMMA NothingInMemory ==
  ASSUME MemoryOK, EndReconcile, status' \in Statuses,
         faults' \in 0..MaxFaults
  PROVE  MemoryOK'
<1>1. NoInstance \in Instances
  <2>1. 0 \in 0..MaxGeneration
    BY BoundsAssumption
  <2>2. NewDRPCStatus \in Statuses
    BY <2>1 DEF NewDRPCStatus, Statuses, ClusterName, Phases, PeerReasons
  <2>3. [action |-> "", failoverCluster |-> NoCluster,
         preferredCluster |-> NoCluster, generation |-> 0] \in Specs
    BY <2>1 DEF Specs, ClusterName, DRActions
  <2>4. [cluster |-> NoCluster, action |-> "Unset"] \in Annotations
    BY DEF Annotations, ClusterName
  <2> QED
    BY <2>2, <2>3, <2>4 DEF NoInstance, Instances
<1>2. NoVRG \in VRGs /\ NoVRG.status.state # "Primary"
  BY DEF NoVRG, NoSpec, NewStatus, VRGs, VRGSpec, VRGStatus, DRActions
<1>3. NoViews \in Views /\ StatusAgrees(NoViews)
  BY <1>2 DEF NoViews, Views, StatusAgrees
<1>4. StatusAgrees(vrgs)'
  BY <1>3 DEF EndReconcile, StatusAgrees, isVRGPrimary
<1> QED
  BY <1>1, <1>3, <1>4
     DEF EndReconcile, MemoryOK, Steps, ClusterName, Switching, Quiescing

(* The status that a reconcile writes is a status.                         *)
LEMMA StatusWritten ==
  ASSUME status \in Statuses, NEW i \in Instances, NEW s \in Statuses,
         updateDRPCStatus(i, s)
  PROVE  status' \in Statuses
<1>1. i.spec.generation \in 0..MaxGeneration
  BY DEF Instances, Specs
<1> QED
  BY <1>1 DEF updateDRPCStatus, Statuses

(* A reconcile that ends, its status written or lost, keeps the invariant. *)
LEMMA ReconcileEnds ==
  ASSUME MemoryOK, NEW i \in Instances, NEW s \in Statuses,
         FinishInstance(i, s)
  PROVE  MemoryOK'
<1>1. EndReconcile
  BY DEF FinishInstance
<1>2. status' \in Statuses
  BY StatusWritten DEF FinishInstance, MemoryOK
<1>3. faults' \in 0..MaxFaults
  BY BoundsAssumption DEF FinishInstance, MemoryOK
<1> QED
  BY <1>1, <1>2, <1>3, NothingInMemory
-----------------------------------------------------------------------------
(* What holds during a reconcile.                                          *)
LEMMA InReconcile ==
  ASSUME ResourceOK, MemoryOK, pc # "idle"
  PROVE  /\ inst \in Instances
         /\ inst.status \in Statuses
         /\ inst.spec.preferredCluster \in Clusters
         /\ inst.spec.action = "Failover" => inst.spec.failoverCluster \in Clusters
         /\ pc # "action" => target \in Clusters
         /\ vrgs \in Views
BY DEF MemoryOK, WellFormed, Instances

(* A step of a cluster or of the user leaves the reconcile alone.          *)
LEMMA MemoryUnchanged ==
  ASSUME MemoryOK, UNCHANGED <<reconcileVars, status, faults>>
  PROVE  MemoryOK'
BY DEF MemoryOK, reconcileVars, WellFormed, StatusAgrees, isVRGPrimary

(* The steps of the initial deployment keep the invariant.                 *)
LEMMA DeploymentSteps ==
  ASSUME ResourceOK, MemoryOK,
         \/ DeployedElsewhere \/ StartDeploying \/ Deployed
         \/ createVRGManifestWork \/ DeployPlacement
  PROVE  ResourceOK' /\ MemoryOK'
<1> USE DEF home
<1>1. pc # "idle"
  BY DEF DeployedElsewhere, StartDeploying, Deployed, createVRGManifestWork,
         DeployPlacement, Decide
<1>2. /\ inst \in Instances /\ inst.status \in Statuses
      /\ inst.spec.preferredCluster \in Clusters
      /\ pc # "action" => target \in Clusters
      /\ vrgs \in Views
  BY <1>1, InReconcile
<1>3. CASE DeployedElsewhere
  <2>1. setProgression(updatePreferredDecision(inst.status)) \in Statuses
    BY <1>2, StatusTypes
  <2>2. ResourceOK'
    BY <1>3, ResourcesUnchanged DEF DeployedElsewhere, Decide
  <2>3. MemoryOK'
    BY <1>1, <1>2, <1>3, <2>1, ReconcileGoesOn
       DEF DeployedElsewhere, Steps, Writes, Switching, Quiescing
  <2> QED
    BY <2>2, <2>3
<1>4. CASE StartDeploying
  <2> DEFINE s == setProgression(setDRState(setStatusInitiating(inst.status),
                                            "Deploying"))
  <2>1. s \in Statuses
    BY <1>2, StatusTypes DEF Phases
  <2>2. ResourceOK'
    BY <1>4, ResourcesUnchanged DEF StartDeploying, Decide
  <2>3. MemoryOK'
    BY <1>1, <1>2, <1>4, <2>1, ReconcileGoesOn
       DEF StartDeploying, Steps, Writes, Switching, Quiescing
  <2> QED
    BY <2>2, <2>3
<1>5. CASE Deployed
  <2>1. setProgression(setDRState(inst.status, "Deployed")) \in Statuses
    BY <1>2, StatusTypes DEF Phases
  <2>2. ResourceOK'
    BY <1>5, ResourcesUnchanged DEF Deployed, Decide
  <2>3. MemoryOK'
    BY <1>1, <1>2, <1>5, <2>1, ReconcileGoesOn
       DEF Deployed, Steps, Writes, Switching, Quiescing
  <2> QED
    BY <2>2, <2>3
<1>6. CASE createVRGManifestWork
  <2>1. pc = "deployWork" /\ target \in Clusters
    BY <1>2, <1>6 DEF createVRGManifestWork
  <2>2. \/ UpdateManifestWork(target, newVRG("Primary", FALSE))
        \/ UNCHANGED resourceVars
    BY <1>6, <2>1 DEF createVRGManifestWork, ResourceOK, VRGSpec
  <2>3. newVRG("Primary", FALSE) \in VRGSpec
    BY <1>2, ManifestTypes
  <2>4. ResourceOK'
    BY <2>1, <2>2, <2>3, ManifestWorkWritten, ResourcesUnchanged
  <2>5. Goto("deployPlacement", target, inst.status) \/ Finish(inst.status)
    BY <1>6, <2>1 DEF createVRGManifestWork, ResourceOK, VRGSpec
  <2>6. CASE Goto("deployPlacement", target, inst.status)
    BY <1>1, <1>2, <2>1, <2>4, <2>6, ReconcileGoesOn
       DEF Steps, Writes, Switching, Quiescing
  <2>7. CASE Finish(inst.status)
    BY <1>2, <2>4, <2>7, ReconcileEnds DEF Finish
  <2> QED
    BY <2>5, <2>6, <2>7
<1>7. CASE DeployPlacement
  <2> DEFINE d == createOrUpdatePlacementDecision(decisions, target)
             t == setDRState([inst.status EXCEPT !.preferredDecision = target],
                             "Deployed")
             s == setConditionOnInitialDeploymentCompletion(t)
  <2>1. target \in Clusters
    BY <1>2, <1>7 DEF DeployPlacement
  <2>2. d \in DecisionList /\ Readable(d)
    BY <2>1, CreateOrUpdateIsReadable DEF ResourceOK, ClusterName
  <2>3. IfReadable(d, Finish(s))
    BY <1>7 DEF DeployPlacement
  <2>4. UpdatePlacement(d) /\ Finish(s)
    BY <2>3, PlacementIsReadable
  <2>5. [inst.status EXCEPT !.preferredDecision = target] \in Statuses
    BY <1>2, <2>1 DEF Statuses, ClusterName
  <2>6. t \in Statuses
    BY <1>2, <2>5, StatusTypes DEF Phases
  <2>7. s \in Statuses
    BY <1>2, <2>6, StatusTypes
  <2> HIDE DEF d, s
  <2>8. ResourceOK'
    BY <2>2, <2>4, PlacementWritten
  <2>9. MemoryOK'
    BY <1>2, <2>4, <2>7, ReconcileEnds DEF Finish
  <2> QED
    BY <2>8, <2>9
<1> QED
  BY <1>3, <1>4, <1>5, <1>6, <1>7

(* The cluster from which a failover moves is a cluster.                   *)
LEMMA HomeIsCluster ==
  ASSUME ResourceOK, inst \in Instances, NEW c \in Clusters
  PROVE  getCurrentHomeClusterName(c) \in Clusters
<1>1. getClusterDecision(decisions) \in ClusterName
  BY DecisionIsCluster DEF ResourceOK
<1>2. inst.status.preferredDecision \in ClusterName
  BY DEF Instances, Statuses
<1>3. Peer(c) \in Clusters
  BY PeerIsOther
<1> QED
  BY <1>1, <1>2, <1>3 DEF getCurrentHomeClusterName, ClusterName

(* The steps of a failover keep the invariant.                             *)
LEMMA FailoverSteps ==
  ASSUME ResourceOK, MemoryOK,
         \/ FailoverTargetInvalid \/ FailoverStarted \/ FailoverWaitsForVRG
         \/ switchToFailoverCluster \/ RetainDecision
  PROVE  ResourceOK' /\ MemoryOK'
<1> USE DEF failoverCluster
<1>1. pc # "idle"
  BY DEF FailoverTargetInvalid, FailoverStarted, FailoverWaitsForVRG,
         switchToFailoverCluster, RetainDecision, Decide
<1>2. /\ inst \in Instances /\ inst.status \in Statuses
      /\ inst.spec.action = "Failover" => inst.spec.failoverCluster \in Clusters
      /\ pc # "action" => target \in Clusters
      /\ vrgs \in Views
  BY <1>1, InReconcile
<1>3. CASE FailoverTargetInvalid \/ FailoverWaitsForVRG
  <2>1. UNCHANGED resourceVars /\ FinishInstance(inst, inst.status)
    BY <1>3 DEF FailoverTargetInvalid, FailoverWaitsForVRG, Decide, Finish
  <2> QED
    BY <1>2, <2>1, ResourcesUnchanged, ReconcileEnds
<1>4. CASE FailoverStarted
  <2> DEFINE s == setDRState(updatePreferredDecision(inst.status), "FailedOver")
  <2>1. s \in Statuses
    BY <1>2, StatusTypes DEF Phases
  <2>2. UNCHANGED resourceVars /\ Goto("ensureWork", failoverCluster, s)
    BY <1>4 DEF FailoverStarted, Decide
  <2>3. failoverCluster \in Clusters
    BY <1>2, <1>4 DEF FailoverStarted, Decide
  <2> HIDE DEF s
  <2>4. MemoryOK'
    BY <1>1, <2>1, <2>2, <2>3, ReconcileGoesOn
       DEF Steps, Writes, Switching, Quiescing
  <2> QED
    BY <2>2, <2>4, ResourcesUnchanged
<1>5. CASE switchToFailoverCluster
  <2> DEFINE t == setDRState(setStatusInitiating(inst.status), "FailingOver")
             s == setProgression(setPeerReady(t, "NotStarted"))
  <2>1. t \in Statuses
    BY <1>2, StatusTypes DEF Phases
  <2>2. s \in Statuses
    BY <1>2, <2>1, StatusTypes DEF PeerReasons
  <2>3. UNCHANGED resourceVars /\ Goto("retain", failoverCluster, s)
    BY <1>5 DEF switchToFailoverCluster, Decide
  <2>4. failoverCluster \in Clusters /\ ~isVRGPrimary(vrgs[failoverCluster])
    BY <1>2, <1>5 DEF switchToFailoverCluster, Decide, vrgExistsAndPrimary
  <2> HIDE DEF s
  <2>5. MemoryOK'
    BY <1>1, <2>2, <2>3, <2>4, ReconcileGoesOn DEF Steps, Writes, Quiescing
  <2> QED
    BY <2>3, <2>5, ResourcesUnchanged
<1>6. CASE RetainDecision
  <2> DEFINE d == retainClusterDecisionAsFailover(decisions,
                    getCurrentHomeClusterName(target))
  <2>1. pc = "retain" /\ target \in Clusters
    BY <1>2, <1>6 DEF RetainDecision
  <2>2. d \in DecisionList /\ Readable(d)
    BY <1>2, <2>1, HomeIsCluster, RetainIsReadable
       DEF ResourceOK, OneActiveDecision
  <2>3. IfReadable(d, Goto("switch", target, inst.status))
    BY <1>6 DEF RetainDecision
  <2>4. UpdatePlacement(d) /\ Goto("switch", target, inst.status)
    BY <2>3, PlacementIsReadable
  <2>5. ~isVRGPrimary(vrgs[target])
    BY <2>1 DEF MemoryOK, Switching
  <2> HIDE DEF d
  <2>6. ResourceOK'
    BY <2>2, <2>4, PlacementWritten
  <2>7. MemoryOK'
    BY <1>1, <1>2, <2>1, <2>4, <2>5, ReconcileGoesOn
       DEF Steps, Writes, Quiescing
  <2> QED
    BY <2>6, <2>7
<1> QED
  BY <1>3, <1>4, <1>5, <1>6

(* switchToCluster does not find its target ready: by the invariant, that  *)
(* target is not Primary in the snapshot, and so does not report Primary.  *)
LEMMA TargetNotReady ==
  ASSUME MemoryOK
  PROVE  SwitchNeverPlaces
<1> SUFFICES ASSUME pc = "switch"
             PROVE  ~SwitchPlaces(target)
  BY DEF SwitchNeverPlaces
<1>1. target \in Clusters /\ ~isVRGPrimary(vrgs[target])
  BY DEF MemoryOK, Switching
<1>2. vrgs[target].status.state # "Primary"
  BY <1>1 DEF MemoryOK, StatusAgrees
<1> QED
  BY <1>2 DEF SwitchPlaces, checkReadiness

(* switchToCluster keeps the invariant.                                    *)
LEMMA SwitchStep ==
  ASSUME ResourceOK, MemoryOK, switchToCluster
  PROVE  ResourceOK' /\ MemoryOK'
<1>1. pc = "switch"
  BY DEF switchToCluster
<1>2. /\ inst \in Instances /\ inst.status \in Statuses
      /\ target \in Clusters /\ vrgs \in Views
  BY <1>1, InReconcile
<1>3. ~SwitchPlaces(target)
  BY <1>1, TargetNotReady DEF SwitchNeverPlaces
<1>4. mw[target] \in VRGSpec
  BY <1>2 DEF ResourceOK
<1>5. mw[target].state \in {"None", "Primary", "Secondary"}
  BY <1>4 DEF VRGSpec
<1> DEFINE s == setProgression(inst.status)
<1>6. s \in Statuses
  BY <1>2, StatusTypes
<1>7. /\ FinishInstance(inst, s)
      /\ \/ UpdateManifestWork(target, newVRG("Primary", FALSE))
         \/ UpdateManifestWork(target,
              updateVRGState(mw[target], target, "Primary"))
         \/ UNCHANGED resourceVars
  BY <1>3, <1>5 DEF switchToCluster, Finish
<1>8. /\ newVRG("Primary", FALSE) \in VRGSpec
      /\ updateVRGState(mw[target], target, "Primary") \in VRGSpec
  BY <1>2, <1>4, ManifestTypes
<1>9. ResourceOK'
  BY <1>2, <1>7, <1>8, ManifestWorkWritten, ResourcesUnchanged
<1>10. MemoryOK'
  BY <1>2, <1>6, <1>7, ReconcileEnds
<1> QED
  BY <1>9, <1>10

(* ensureVRGManifestWork, ensurePlacement and the reset of the RD specs    *)
(* keep the invariant.                                                     *)
LEMMA TransitionSteps ==
  ASSUME ResourceOK, MemoryOK,
         \/ ensureVRGManifestWork \/ AnnotateDRPC \/ ensurePlacement
         \/ ResetVolSyncRDOnPrimary
  PROVE  ResourceOK' /\ MemoryOK'
<1>1. pc \in {"ensureWork", "annotate", "place", "resetRD"}
  BY DEF ensureVRGManifestWork, AnnotateDRPC, ensurePlacement,
         ResetVolSyncRDOnPrimary
<1>2. /\ inst \in Instances /\ inst.status \in Statuses
      /\ target \in Clusters /\ vrgs \in Views
  BY <1>1, InReconcile
<1>3. mw[target] \in VRGSpec
  BY <1>2 DEF ResourceOK
<1>4. ASSUME NEW step \in {"annotate", "place", "resetRD", "cleanup"},
             NEW s \in Statuses, Goto(step, target, s)
      PROVE  MemoryOK'
  BY <1>1, <1>2, <1>4, ReconcileGoesOn DEF Steps, Writes, Switching, Quiescing
<1>5. ASSUME NEW s \in Statuses, Finish(s)
      PROVE  MemoryOK'
  BY <1>2, <1>5, ReconcileEnds DEF Finish
<1>6. CASE ensureVRGManifestWork
  <2>1. \/ UpdateManifestWork(target, setVRGAction(mw[target]))
        \/ UNCHANGED resourceVars
    BY <1>6 DEF ensureVRGManifestWork
  <2>2. setVRGAction(mw[target]) \in VRGSpec
    BY <1>2, <1>3, ManifestTypes
  <2>3. ResourceOK'
    BY <1>2, <2>1, <2>2, ManifestWorkWritten, ResourcesUnchanged
  <2> DEFINE r == IF inst.spec.action = "Relocate"
                  THEN setDRState(inst.status, "Relocated") ELSE inst.status
  <2>4. r \in Statuses
    BY <1>2, StatusTypes DEF Phases
  <2>5. setProgression(r) \in Statuses /\ setProgression(inst.status) \in Statuses
    BY <1>2, <2>4, StatusTypes
  <2>6. \/ Goto("annotate", target, setProgression(r))
        \/ Finish(setProgression(inst.status))
    BY <1>6 DEF ensureVRGManifestWork
  <2> QED
    BY <1>4, <1>5, <2>3, <2>5, <2>6
<1>7. CASE AnnotateDRPC
  <2> DEFINE annotations == [cluster |-> target, action |-> inst.spec.action]
  <2>1. annotations \in Annotations
    BY <1>2 DEF Annotations, ClusterName, Instances, Specs
  <2>2. lastAction' = annotations \/ UNCHANGED lastAction
    BY <1>7 DEF AnnotateDRPC
  <2>3. UNCHANGED <<spec, decisions, mw, view>>
    BY <1>7 DEF AnnotateDRPC
  <2>4. lastAction' \in Annotations
    BY <2>1, <2>2 DEF ResourceOK
  <2>5. ResourceOK'
    BY <2>3, <2>4 DEF ResourceOK, WellFormed, OneActiveDecision, Readable,
                      ActiveClusters, StatusAgrees, isVRGPrimary
  <2>6. CASE Goto("place", target, inst.status) \/ Finish(inst.status)
    BY <1>2, <1>4, <1>5, <2>5, <2>6
  <2>7. CASE /\ inst' = [inst EXCEPT !.status = status,
                                     !.lastAction = annotations]
             /\ pc' = "place"
             /\ UNCHANGED <<target, vrgs, queried, status, faults>>
    <3>1. inst' \in Instances /\ inst'.spec = inst.spec
      BY <1>2, <2>1, <2>7 DEF MemoryOK, Instances
    <3>2. pc # "idle"
      BY <1>1
    <3>3. MemoryOK'
      BY <1>2, <2>7, <3>1, <3>2
         DEF MemoryOK, WellFormed, ClusterName, StatusAgrees, isVRGPrimary,
             Steps, Writes, Switching, Quiescing
    <3> QED
      BY <2>5, <3>3
  <2> QED
    BY <1>7, <2>6, <2>7 DEF AnnotateDRPC
<1>8. CASE ensurePlacement
  <2> DEFINE d == createOrUpdatePlacementDecision(decisions, target)
             s == updatePreferredDecision(inst.status)
  <2>1. d \in DecisionList /\ Readable(d)
    BY <1>2, CreateOrUpdateIsReadable DEF ResourceOK, ClusterName
  <2>2. s \in Statuses
    BY <1>2, StatusTypes
  <2>3. \/ Goto("resetRD", target, inst.status) /\ UNCHANGED resourceVars
        \/ IfReadable(d, Goto("resetRD", target, s))
    BY <1>8 DEF ensurePlacement
  <2>4. \/ Goto("resetRD", target, inst.status) /\ UNCHANGED resourceVars
        \/ UpdatePlacement(d) /\ Goto("resetRD", target, s)
    BY <2>3, PlacementIsReadable
  <2> HIDE DEF d, s
  <2>5. ResourceOK'
    BY <2>1, <2>4, PlacementWritten, ResourcesUnchanged
  <2> QED
    BY <1>2, <1>4, <2>2, <2>4, <2>5
<1>9. CASE ResetVolSyncRDOnPrimary
  <2> DEFINE w == [mw[target] EXCEPT !.rdSpec = FALSE]
  <2>1. w \in VRGSpec
    BY <1>3 DEF VRGSpec
  <2>2. UpdateManifestWork(target, w) \/ UNCHANGED resourceVars
    BY <1>9 DEF ResetVolSyncRDOnPrimary
  <2>3. ResourceOK'
    BY <1>2, <2>1, <2>2, ManifestWorkWritten, ResourcesUnchanged
  <2>4. Goto("cleanup", target, inst.status) \/ Finish(inst.status)
    BY <1>9 DEF ResetVolSyncRDOnPrimary
  <2> QED
    BY <1>2, <1>4, <1>5, <2>3, <2>4
<1> QED
  BY <1>6, <1>7, <1>8, <1>9

(* The cleanup of the peer and the setup of its replication keep the       *)
(* invariant.                                                              *)
LEMMA CleanupSteps ==
  ASSUME ResourceOK, MemoryOK,
         \/ SkipCleanup \/ MakePeerSecondary \/ WaitForPeer
         \/ RemoveRetainedDecision \/ EnsureSecondaryReplicationSetup
  PROVE  ResourceOK' /\ MemoryOK'
<1>1. pc \in {"cleanup", "secondary"}
  BY DEF SkipCleanup, MakePeerSecondary, WaitForPeer, RemoveRetainedDecision,
         EnsureSecondaryReplicationSetup
<1>2. /\ inst \in Instances /\ inst.status \in Statuses
      /\ target \in Clusters /\ vrgs \in Views
  BY <1>1, InReconcile
<1> DEFINE peer == Peer(target)
<1>3. peer \in Clusters
  BY <1>2, PeerIsOther
<1>4. mw[peer] \in VRGSpec
  BY <1>3 DEF ResourceOK
<1>5. ASSUME NEW s \in Statuses, Goto("secondary", target, s)
      PROVE  MemoryOK'
  BY <1>1, <1>2, <1>5, ReconcileGoesOn DEF Steps, Writes, Switching, Quiescing
<1>6. ASSUME NEW s \in Statuses, Finish(s)
      PROVE  MemoryOK'
  BY <1>2, <1>6, ReconcileEnds DEF Finish
<1>7. refreshVRGSecondarySpec \in VRGSpec
  <2>1. (VolSync /\ vrgs[target].status.protectedPVCs) \in BOOLEAN
    OBVIOUS
  <2> QED
    BY <1>2, <2>1, ManifestTypes DEF refreshVRGSecondarySpec
<1>8. setPeerReady(inst.status, "Success") \in Statuses
  BY <1>2, StatusTypes DEF PeerReasons
<1>9. setProgression(inst.status) \in Statuses
  BY <1>2, StatusTypes
<1> HIDE DEF peer
<1>10. CASE SkipCleanup
  BY <1>2, <1>5, <1>10, ResourcesUnchanged DEF SkipCleanup
<1>11. CASE MakePeerSecondary
  <2> DEFINE w == IF mw[peer].state = "None" THEN refreshVRGSecondarySpec
                  ELSE updateVRGState(mw[peer], peer, "Secondary")
  <2>1. UpdateManifestWork(peer, w) /\ Finish(setProgression(inst.status))
    BY <1>11 DEF MakePeerSecondary, peer
  <2>2. w \in VRGSpec
    BY <1>2, <1>3, <1>4, <1>7, ManifestTypes
  <2> HIDE DEF w
  <2> QED
    BY <1>3, <1>6, <1>9, <2>1, <2>2, ManifestWorkWritten
<1>12. CASE WaitForPeer
  <2>1. /\ UNCHANGED resourceVars
        /\ \/ Goto("secondary", target, setPeerReady(inst.status, "Success"))
           \/ Finish(inst.status)
    BY <1>12 DEF WaitForPeer
  <2> QED
    BY <1>2, <1>5, <1>6, <1>8, <2>1, ResourcesUnchanged
<1>13. CASE RemoveRetainedDecision
  <2> DEFINE d == removeClusterDecisionForFailover(decisions, peer)
  <2>1. d \in DecisionList /\ Readable(d)
    BY <1>3, RemoveIsReadable DEF ResourceOK, OneActiveDecision
  <2>2. IfReadable(d,
          IF ensureVRGIsSecondaryOnCluster(peer)
          THEN Goto("secondary", target, setPeerReady(inst.status, "Success"))
          ELSE Finish(inst.status))
    BY <1>13 DEF RemoveRetainedDecision, peer
  <2>3. /\ UpdatePlacement(d)
        /\ \/ Goto("secondary", target, setPeerReady(inst.status, "Success"))
           \/ Finish(inst.status)
    BY <2>2, PlacementIsReadable
  <2> HIDE DEF d
  <2> QED
    BY <1>2, <1>5, <1>6, <1>8, <2>1, <2>3, PlacementWritten
<1>14. CASE EnsureSecondaryReplicationSetup
  <2> DEFINE completed == [inst.status EXCEPT !.completed = TRUE]
             deployed == setConditionOnInitialDeploymentCompletion(
                           updatePreferredDecision(completed))
  <2>1. completed \in Statuses
    BY <1>2 DEF Statuses
  <2>2. updatePreferredDecision(completed) \in Statuses
    BY <1>2, <2>1, StatusTypes
  <2>3. deployed \in Statuses
    BY <1>2, <2>2, StatusTypes
  <2>4. PICK s \in Statuses : Finish(s)
    <3> DEFINE ready == mw[peer].state # "None" /\ vrgs[target].status.protectedPVCs
               s == CASE ~ready -> setProgression(inst.status)
                      [] ready /\ inst.spec.action = "" -> deployed
                      [] OTHER -> completed
    <3>1. Finish(s)
      BY <1>14 DEF EnsureSecondaryReplicationSetup, peer
    <3>2. s \in Statuses
      <4> HIDE DEF ready, deployed, completed
      <4> QED
        BY <1>9, <2>1, <2>3
    <3> QED
      BY <3>1, <3>2
  <2>5. UpdateManifestWork(peer, refreshVRGSecondarySpec)
    BY <1>14 DEF EnsureSecondaryReplicationSetup, peer
  <2> QED
    BY <1>3, <1>6, <1>7, <2>4, <2>5, ManifestWorkWritten
<1> QED
  BY <1>10, <1>11, <1>12, <1>13, <1>14
-----------------------------------------------------------------------------
(* The decisions in memory of a relocation keep the invariant: unless the  *)
(* preferred cluster alone is Primary, it is not Primary at all.           *)
LEMMA RelocationDecisions ==
  ASSUME ResourceOK, MemoryOK,
         \/ RelocateNotValid \/ RelocateStarted \/ RelocateNotReady
         \/ QuiesceAndRunFinalSync \/ RelocateWithoutPrimary
  PROVE  ResourceOK' /\ MemoryOK'
<1> USE DEF preferredCluster
<1>1. pc = "action" /\ UNCHANGED resourceVars
  BY DEF RelocateNotValid, RelocateStarted, RelocateNotReady,
         QuiesceAndRunFinalSync, RelocateWithoutPrimary, Relocation, Decide
<1>2. /\ inst \in Instances /\ inst.status \in Statuses
      /\ preferredCluster \in Clusters /\ vrgs \in Views
  BY <1>1, InReconcile
<1>3. ResourceOK'
  BY <1>1, ResourcesUnchanged
<1>4. initiated \in Statuses
  BY <1>2, StatusTypes DEF initiated
<1>5. curHomeCluster \in Clusters /\ Clusters = {preferredCluster, curHomeCluster}
  BY <1>2, PeerIsOther DEF curHomeCluster
<1>6. ASSUME Relocation
      PROVE  ~isVRGPrimary(vrgs[preferredCluster])
  BY <1>2, <1>5, <1>6 DEF Relocation, RelocateValid, Primaries
<1>7. CASE RelocateNotValid
  BY <1>2, <1>3, <1>7, ReconcileEnds DEF RelocateNotValid, Finish
<1>8. CASE RelocateStarted
  <2> DEFINE s == setDRState(updatePreferredDecision(inst.status), "Relocating")
  <2>1. s \in Statuses
    BY <1>2, StatusTypes DEF Phases
  <2>2. Goto("ensureWork", preferredCluster, s)
    BY <1>8 DEF RelocateStarted
  <2> HIDE DEF s
  <2> QED
    BY <1>1, <1>2, <1>3, <2>1, <2>2, ReconcileGoesOn
       DEF Steps, Writes, Switching, Quiescing
<1>9. CASE RelocateNotReady
  BY <1>2, <1>3, <1>4, <1>9, ReconcileEnds DEF RelocateNotReady, Finish
<1>10. CASE QuiesceAndRunFinalSync
  <2> DEFINE s == setProgression(setDRState(initiated, "Relocating"))
  <2>1. setDRState(initiated, "Relocating") \in Statuses
    BY <1>2, <1>4, StatusTypes DEF Phases
  <2>2. setProgression(initiated) \in Statuses /\ s \in Statuses
    BY <1>2, <1>4, <2>1, StatusTypes
  <2>3. ~isVRGPrimary(vrgs[inst.spec.preferredCluster])
    BY <1>6, <1>10 DEF QuiesceAndRunFinalSync
  <2>4. \/ Goto("prepare", curHomeCluster, setProgression(initiated))
        \/ Goto("clear", curHomeCluster, s)
        \/ Goto("finalSync", curHomeCluster, initiated)
    <3> DEFINE p == vrgs[curHomeCluster].status.prepareForFinalSyncComplete
               q == getClusterDecision(decisions) # NoCluster
    <3>1. CASE ~p
      BY <1>10, <3>1 DEF QuiesceAndRunFinalSync
    <3>2. CASE p /\ q
      BY <1>10, <3>2 DEF QuiesceAndRunFinalSync
    <3>3. CASE p /\ ~q
      BY <1>10, <3>3 DEF QuiesceAndRunFinalSync
    <3> QED
      BY <3>1, <3>2, <3>3
  <2> HIDE DEF s
  <2> QED
    BY <1>1, <1>3, <1>4, <1>5, <2>2, <2>3, <2>4, ReconcileGoesOn
       DEF Steps, Writes, Switching, Quiescing
<1>11. CASE RelocateWithoutPrimary
  <2>1. RelocateStatus(initiated) \in Statuses
    <3>1. setDRState(initiated, "Relocating") \in Statuses
      BY <1>2, <1>4, StatusTypes DEF Phases
    <3> QED
      BY <1>2, <3>1, StatusTypes DEF RelocateStatus, PeerReasons
  <2>2. Goto("toSecondary", preferredCluster, RelocateStatus(initiated))
    BY <1>11 DEF RelocateWithoutPrimary
  <2>3. ~isVRGPrimary(vrgs[preferredCluster])
    BY <1>6, <1>11 DEF RelocateWithoutPrimary
  <2> QED
    BY <1>1, <1>2, <1>3, <2>1, <2>2, <2>3, ReconcileGoesOn
       DEF Steps, Writes, Quiescing
<1> QED
  BY <1>7, <1>8, <1>9, <1>10, <1>11

(* The writes of a relocation keep the invariant.                          *)
LEMMA RelocationSteps ==
  ASSUME ResourceOK, MemoryOK,
         \/ updateVRGToPrepareForFinalSync \/ clearUserPlacementRuleStatus
         \/ runFinalSync \/ setupRelocation
         \/ \E written \in SUBSET Clusters :
              moveVRGToSecondaryEverywhere(written)
  PROVE  ResourceOK' /\ MemoryOK'
<1>1. pc \in {"prepare", "clear", "finalSync", "toSecondary", "recheck"}
  BY DEF updateVRGToPrepareForFinalSync, clearUserPlacementRuleStatus,
         runFinalSync, setupRelocation, moveVRGToSecondaryEverywhere
<1>2. /\ inst \in Instances /\ inst.status \in Statuses
      /\ inst.spec.preferredCluster \in Clusters
      /\ target \in Clusters /\ vrgs \in Views
  BY <1>1, InReconcile
<1>3. mw[target] \in VRGSpec
  BY <1>2 DEF ResourceOK
<1>4. setProgression(inst.status) \in Statuses
  BY <1>2, StatusTypes
<1>5. ASSUME NEW s \in Statuses, Finish(s)
      PROVE  MemoryOK'
  BY <1>2, <1>5, ReconcileEnds DEF Finish
<1>6. CASE updateVRGToPrepareForFinalSync
  <2> DEFINE w == IF mw[target].prepareForFinalSync THEN mw[target]
                  ELSE setVRGAction([mw[target] EXCEPT !.prepareForFinalSync = TRUE,
                                                       !.runFinalSync = FALSE])
  <2>1. w \in VRGSpec
    <3>1. [mw[target] EXCEPT !.prepareForFinalSync = TRUE, !.runFinalSync = FALSE] \in VRGSpec
      BY <1>3 DEF VRGSpec
    <3> QED
      BY <1>2, <1>3, <3>1, ManifestTypes
  <2>2. /\ UpdateManifestWork(target, w) \/ UNCHANGED resourceVars
        /\ Finish(inst.status)
    BY <1>6 DEF updateVRGToPrepareForFinalSync
  <2> HIDE DEF w
  <2> QED
    BY <1>2, <1>5, <2>1, <2>2, ManifestWorkWritten, ResourcesUnchanged
<1>7. CASE clearUserPlacementRuleStatus
  <2> DEFINE d == createOrUpdatePlacementDecision(decisions, NoCluster)
  <2>1. d \in DecisionList /\ Readable(d)
    BY CreateOrUpdateIsReadable DEF ResourceOK, ClusterName
  <2>2. IfReadable(d, Goto("finalSync", target, inst.status))
    BY <1>7 DEF clearUserPlacementRuleStatus
  <2>3. UpdatePlacement(d) /\ Goto("finalSync", target, inst.status)
    BY <2>2, PlacementIsReadable
  <2>4. ~isVRGPrimary(vrgs[inst.spec.preferredCluster])
    BY <1>7 DEF clearUserPlacementRuleStatus, MemoryOK, Quiescing
  <2> HIDE DEF d
  <2>5. MemoryOK'
    BY <1>1, <1>2, <2>3, <2>4, ReconcileGoesOn DEF Steps, Writes, Switching
  <2> QED
    BY <2>1, <2>3, <2>5, PlacementWritten
<1>8. CASE runFinalSync
  <2> DEFINE w == IF mw[target].runFinalSync THEN mw[target]
                  ELSE setVRGAction([mw[target] EXCEPT !.prepareForFinalSync = FALSE,
                                                       !.runFinalSync = TRUE])
             s == RelocateStatus(setProgression(inst.status))
  <2>1. w \in VRGSpec
    <3>1. [mw[target] EXCEPT !.prepareForFinalSync = FALSE, !.runFinalSync = TRUE] \in VRGSpec
      BY <1>3 DEF VRGSpec
    <3> QED
      BY <1>2, <1>3, <3>1, ManifestTypes
  <2>2. s \in Statuses
    <3>1. setDRState(setProgression(inst.status), "Relocating") \in Statuses
      BY <1>2, <1>4, StatusTypes DEF Phases
    <3> QED
      BY <1>2, <3>1, StatusTypes DEF RelocateStatus, PeerReasons
  <2>3. \/ /\ Goto("toSecondary", inst.spec.preferredCluster, s)
           /\ UNCHANGED resourceVars
        \/ /\ Finish(setProgression(inst.status))
           /\ UpdateManifestWork(target, w) \/ UNCHANGED resourceVars
    BY <1>8 DEF runFinalSync, preferredCluster
  <2>4. ~isVRGPrimary(vrgs[inst.spec.preferredCluster])
    BY <1>8 DEF runFinalSync, MemoryOK, Quiescing
  <2> HIDE DEF w, s
  <2>5. ResourceOK'
    BY <1>2, <2>1, <2>3, ManifestWorkWritten, ResourcesUnchanged
  <2>6. MemoryOK'
    BY <1>1, <1>2, <1>4, <1>5, <2>2, <2>3, <2>4, ReconcileGoesOn
       DEF Steps, Writes, Quiescing
  <2> QED
    BY <2>5, <2>6
<1>9. ASSUME pc \in {"toSecondary", "recheck"}
      PROVE  ~isVRGPrimary(vrgs[target])
  BY <1>9 DEF MemoryOK, Switching
<1>10. CASE setupRelocation
  <2>1. /\ Goto("switch", target, inst.status) \/ Finish(inst.status)
        /\ UNCHANGED resourceVars
        /\ ~isVRGPrimary(vrgs[target])
    BY <1>9, <1>10 DEF setupRelocation
  <2>2. MemoryOK'
    BY <1>1, <1>2, <1>5, <2>1, ReconcileGoesOn DEF Steps, Writes, Quiescing
  <2> QED
    BY <2>1, <2>2, ResourcesUnchanged
<1>11. ASSUME NEW written \in SUBSET Clusters,
              moveVRGToSecondaryEverywhere(written)
       PROVE  ResourceOK' /\ MemoryOK'
  <2>1. \A c \in Clusters : /\ mw[c] \in VRGSpec
                            /\ updateVRGState(mw[c], c, "Secondary") \in VRGSpec
    BY <1>2, ManifestTypes DEF ResourceOK
  <2>2. mw' \in [Clusters -> VRGSpec]
    BY <1>11, <2>1 DEF moveVRGToSecondaryEverywhere
  <2>3. ResourceOK'
    BY <1>11, <2>2
       DEF moveVRGToSecondaryEverywhere, ResourceOK, WellFormed,
           OneActiveDecision, Readable, ActiveClusters, StatusAgrees,
           isVRGPrimary
  <2> DEFINE s == setProgression(inst.status)
  <2>4. CASE written = Clusters
    <3>1. Goto("recheck", target, s) /\ ~isVRGPrimary(vrgs[target])
      BY <1>9, <1>11, <2>4 DEF moveVRGToSecondaryEverywhere
    <3>2. MemoryOK'
      BY <1>1, <1>2, <1>4, <3>1, ReconcileGoesOn DEF Steps, Quiescing
    <3> QED
      BY <2>3, <3>2
  <2>5. CASE written # Clusters
    <3>1. /\ faults < MaxFaults /\ faults' = faults + 1
          /\ EndReconcile /\ updateDRPCStatus(inst, s)
      BY <1>11, <2>5 DEF moveVRGToSecondaryEverywhere
    <3>2. status' \in Statuses
      BY <1>2, <1>4, <3>1, StatusWritten DEF MemoryOK
    <3>3. faults' \in 0..MaxFaults
      BY <3>1, BoundsAssumption DEF MemoryOK
    <3> QED
      BY <2>3, <3>1, <3>2, <3>3, NothingInMemory
  <2> QED
    BY <2>4, <2>5
<1> QED
  BY <1>6, <1>7, <1>8, <1>10, <1>11
-----------------------------------------------------------------------------
(* The start of a reconcile, with the views v that were read, keeps the    *)
(* invariant.                                                              *)
LEMMA ReconcileStarts ==
  ASSUME ResourceOK, MemoryOK, NEW v \in Views, StatusAgrees(v),
         NEW q \in BOOLEAN, StartReconcile(v, q), faults' \in 0..MaxFaults
  PROVE  MemoryOK'
<1>1. Loaded(status) \in Instances
  BY DEF Loaded, Instances, ResourceOK, MemoryOK
<1>2. inst' \in Instances /\ WellFormed(inst.spec)'
  BY <1>1 DEF StartReconcile, Loaded, ResourceOK, WellFormed
<1>3. StatusAgrees(vrgs)'
  BY DEF StartReconcile, StatusAgrees, isVRGPrimary
<1> QED
  BY <1>2, <1>3
     DEF StartReconcile, MemoryOK, Steps, Switching, Quiescing

(* Reconcile and the faults of the hub keep the invariant.                 *)
LEMMA StartAndFaultSteps ==
  ASSUME ResourceOK, MemoryOK, Reconcile \/ Fault
  PROVE  ResourceOK' /\ MemoryOK'
<1>1. UNCHANGED resourceVars
  BY DEF Reconcile, Fault, ReconcileWithFailedQuery, recordFailure, WriteFails,
         Crash
<1>2. ResourceOK'
  BY <1>1, ResourcesUnchanged
<1>3. Loaded(status) \in Instances
  BY DEF Loaded, Instances, ResourceOK, MemoryOK
<1>4. ASSUME faults < MaxFaults, faults' = faults + 1
      PROVE  faults' \in 0..MaxFaults
  <2>1. faults \in 0..MaxFaults /\ MaxFaults \in Nat
    BY BoundsAssumption DEF MemoryOK
  <2> QED
    BY <1>4, <2>1
<1>5. CASE Reconcile
  <2>1. PICK verdict :
          IF verdict = "Continue"
          THEN StartReconcile(view, TRUE) /\ UNCHANGED faults
          ELSE FinishInstance(Loaded(status),
                              ensureDRPCStatusConsistency(verdict))
    BY <1>5 DEF Reconcile
  <2>2. ensureDRPCStatusConsistency(verdict) \in Statuses
    <3>1. spec.generation \in 0..MaxGeneration
      BY DEF ResourceOK, Specs
    <3> QED
      BY <3>1 DEF ensureDRPCStatusConsistency, MemoryOK, Statuses, Phases,
                  PeerReasons
  <2>3. CASE verdict = "Continue"
    <3>1. faults' \in 0..MaxFaults
      BY <2>1, <2>3 DEF MemoryOK
    <3> QED
      BY <1>2, <2>1, <2>3, <3>1, ReconcileStarts DEF ResourceOK
  <2>4. CASE verdict # "Continue"
    BY <1>2, <1>3, <2>1, <2>2, <2>4, ReconcileEnds
  <2> QED
    BY <2>3, <2>4
<1>6. ASSUME NEW c \in Clusters, ReconcileWithFailedQuery(c)
      PROVE  MemoryOK'
  <2> DEFINE v == [NoViews EXCEPT ![c] = view[c]]
  <2>1. NoVRG \in VRGs /\ NoVRG.status.state # "Primary"
    BY DEF NoVRG, NoSpec, NewStatus, VRGs, VRGSpec, VRGStatus, DRActions
  <2>2. v \in Views /\ StatusAgrees(v)
    BY <2>1 DEF NoViews, Views, StatusAgrees, ResourceOK
  <2>3. StartReconcile(v, FALSE) /\ faults' \in 0..MaxFaults
    BY <1>4, <1>6 DEF ReconcileWithFailedQuery
  <2> HIDE DEF v
  <2> QED
    BY <2>2, <2>3, ReconcileStarts
<1>7. CASE recordFailure
  <2>1. status' \in Statuses
    BY <1>3, <1>7, StatusWritten DEF recordFailure, MemoryOK
  <2>2. faults' \in 0..MaxFaults
    BY <1>4, <1>7 DEF recordFailure
  <2>3. UNCHANGED reconcileVars
    BY <1>7 DEF recordFailure
  <2>4. MemoryOK'
    BY <2>1, <2>2, <2>3
       DEF MemoryOK, reconcileVars, WellFormed, StatusAgrees, isVRGPrimary
  <2> QED
    BY <1>2, <2>4
<1>8. CASE WriteFails
  <2>1. inst \in Instances /\ inst.status \in Statuses
    BY DEF MemoryOK, Instances
  <2>2. status' \in Statuses
    BY <1>8, <2>1, StatusWritten DEF WriteFails, MemoryOK
  <2>3. faults' \in 0..MaxFaults /\ EndReconcile
    BY <1>4, <1>8 DEF WriteFails
  <2> QED
    BY <1>2, <2>2, <2>3, NothingInMemory
<1>9. CASE Crash
  <2>1. status' \in Statuses
    BY <1>9 DEF Crash, MemoryOK
  <2>2. faults' \in 0..MaxFaults /\ EndReconcile
    BY <1>4, <1>9 DEF Crash
  <2> QED
    BY <1>2, <2>1, <2>2, NothingInMemory
<1> QED
  BY <1>2, <1>5, <1>6, <1>7, <1>8, <1>9 DEF Fault

(* Every step of the hub keeps its part of the invariant.                  *)
LEMMA HubSteps ==
  ASSUME ResourceOK, MemoryOK, NextDRPC
  PROVE  ResourceOK' /\ MemoryOK'
BY DeploymentSteps, FailoverSteps, SwitchStep, TransitionSteps, CleanupSteps,
   RelocationDecisions, RelocationSteps, StartAndFaultSteps
   DEF NextDRPC, ReconcileStep
-----------------------------------------------------------------------------
(* A VRG reports to be Primary only when it is to be Primary.              *)
LEMMA StatusStateAgrees ==
  ASSUME NEW v \in VRGs, NEW ready \in BOOLEAN, NEW protected \in BOOLEAN,
         Exists(v)
  PROVE  /\ StatusState(v, ready, protected)
              \in {"Unknown", "Primary", "Secondary"}
         /\ StatusState(v, ready, protected) = "Primary" => isVRGPrimary(v)
BY DEF StatusState, VRGs, VRGSpec, Exists, isVRGPrimary

(* One VRG replaced by another that agrees with its status.                *)
LEMMA VRGReplaced ==
  ASSUME ClusterOK, NEW c \in Clusters, NEW v \in VRGs,
         v.status.state = "Primary" => isVRGPrimary(v),
         vrg' = [vrg EXCEPT ![c] = v],
         running' \in [Clusters -> BOOLEAN],
         unsynced' \in [Clusters -> BOOLEAN]
  PROVE  ClusterOK'
<1>1. vrg' \in [Clusters -> VRGs]
  BY DEF ClusterOK, TypeOKVRG
<1>2. StatusAgrees(vrg)'
  BY DEF ClusterOK, TypeOKVRG, StatusAgrees, isVRGPrimary
<1> QED
  BY <1>1, <1>2 DEF ClusterOK, TypeOKVRG

(* A change of the status of one VRG.                                      *)
LEMMA StatusReplaced ==
  ASSUME ClusterOK, NEW c \in Clusters, NEW t \in VRGStatus,
         t.state = "Primary" => isVRGPrimary(vrg[c]),
         vrg' = [vrg EXCEPT ![c].status = t],
         running' \in [Clusters -> BOOLEAN],
         unsynced' \in [Clusters -> BOOLEAN]
  PROVE  ClusterOK'
<1> DEFINE v == [vrg[c] EXCEPT !.status = t]
<1>1. vrg[c] \in VRGs
  BY DEF ClusterOK, TypeOKVRG
<1>2. v \in VRGs /\ v.status = t /\ v.spec = vrg[c].spec
  BY <1>1 DEF VRGs
<1>3. vrg' = [vrg EXCEPT ![c] = v]
  BY DEF ClusterOK, TypeOKVRG
<1>4. v.status.state = "Primary" => isVRGPrimary(v)
  BY <1>2 DEF isVRGPrimary
<1> HIDE DEF v
<1> QED
  BY <1>2, <1>3, <1>4, VRGReplaced

(* The steps of the VRG controller, of the work agent and of the workload  *)
(* manager keep ClusterOK.                                                 *)
LEMMA ClusterSteps ==
  ASSUME ClusterOK, NEW c \in Clusters, NEW w \in VRGSpec, NEW placed,
         NextVRG(c, w, placed)
  PROVE  ClusterOK'
<1> DEFINE v == vrg[c]
           st == vrg[c].status
<1>1. /\ v \in VRGs /\ v.spec \in VRGSpec /\ st \in VRGStatus
      /\ running[c] \in BOOLEAN /\ unsynced[c] \in BOOLEAN
  BY DEF ClusterOK, TypeOKVRG, VRGs
<1>2. /\ running \in [Clusters -> BOOLEAN]
      /\ unsynced \in [Clusters -> BOOLEAN]
  BY DEF ClusterOK, TypeOKVRG
<1>3. VolSync \in BOOLEAN /\ st.dataReady \in BOOLEAN
      /\ st.dataProtected \in BOOLEAN
  BY <1>1, VRGAssumption DEF VRGStatus
<1>4. CASE ApplyManifest(c, w)
  <2> DEFINE t == [st EXCEPT !.observed = FALSE, !.state = "Unknown",
                             !.dataReady = FALSE, !.dataProtected = FALSE,
                             !.clusterDataProtected = FALSE,
                             !.clusterDataReady = FALSE]
             u == [spec |-> w, status |-> t]
  <2>1. t \in VRGStatus /\ t.state = "Unknown"
    BY <1>1 DEF VRGStatus
  <2>2. u \in VRGs /\ u.status.state # "Primary"
    BY <2>1 DEF VRGs
  <2>3. vrg' = [vrg EXCEPT ![c] = u] /\ UNCHANGED <<running, unsynced>>
    BY <1>4 DEF ApplyManifest
  <2> HIDE DEF u
  <2> QED
    BY <1>2, <2>2, <2>3, VRGReplaced
<1>5. CASE RestoreFails(c)
  <2> DEFINE state == StatusState(v, st.dataReady, FALSE)
             t == [st EXCEPT !.observed = TRUE, !.clusterData = "NotReady",
                             !.clusterDataReady = FALSE, !.state = state]
  <2>1. /\ vrg' = [vrg EXCEPT ![c].status = t]
        /\ UNCHANGED <<running, unsynced>>
        /\ Exists(v)
    BY <1>5 DEF RestoreFails, Exists, isVRGPrimary
  <2>2. /\ state \in {"Unknown", "Primary", "Secondary"}
        /\ state = "Primary" => isVRGPrimary(v)
    BY <1>1, <1>3, <2>1, StatusStateAgrees
  <2> HIDE DEF state
  <2>3. t \in VRGStatus
    BY <1>1, <2>2 DEF VRGStatus
  <2>4. t.state = state
    BY <1>1 DEF VRGStatus
  <2> HIDE DEF t
  <2> QED
    BY <1>2, <2>1, <2>2, <2>3, <2>4, StatusReplaced
<1>6. ASSUME NEW ready \in BOOLEAN, NEW protected \in BOOLEAN,
             NEW transferred \in BOOLEAN,
             processAsPrimary(c, ready, protected, transferred)
      PROVE  ClusterOK'
  <2> DEFINE synced == FinalSyncStatus(v, c, ready, transferred)
             state == StatusState(v, ready, protected)
             prepared == IF shouldRestoreClusterData(v)
                              \/ ~v.spec.prepareForFinalSync
                         THEN st.prepareForFinalSyncComplete
                         ELSE VolSync => ready
             done == IF shouldRestoreClusterData(v) THEN st.finalSyncComplete
                     ELSE synced
             pvcs == st.protectedPVCs \/ ready
             t == [st EXCEPT !.observed = TRUE,
                             !.dataReady = ready,
                             !.dataProtected = protected,
                             !.clusterDataProtected = protected,
                             !.clusterData = "Restored",
                             !.clusterDataReady = TRUE,
                             !.state = state,
                             !.protectedPVCs = pvcs,
                             !.prepareForFinalSyncComplete = prepared,
                             !.finalSyncComplete = done]
  <2>1. /\ vrg' = [vrg EXCEPT ![c].status = t]
        /\ Exists(v)
        /\ UNCHANGED running
    BY <1>6 DEF processAsPrimary, Exists, isVRGPrimary
  <2>2. /\ state \in {"Unknown", "Primary", "Secondary"}
        /\ state = "Primary" => isVRGPrimary(v)
    BY <1>1, <2>1, StatusStateAgrees
  <2>3. synced \in BOOLEAN
    BY <1>1, <1>3 DEF FinalSyncStatus, VRGSpec, VRGStatus
  <2>4. prepared \in BOOLEAN /\ done \in BOOLEAN /\ pvcs \in BOOLEAN
    BY <1>1, <1>3, <2>3 DEF VRGStatus
  <2>5. unsynced' \in [Clusters -> BOOLEAN]
    BY <1>2, <1>6 DEF processAsPrimary
  <2> HIDE DEF state, prepared, done, pvcs
  <2>6. t \in VRGStatus
    <3> DEFINE t1 == [st EXCEPT !.observed = TRUE,
                                !.dataReady = ready,
                                !.dataProtected = protected,
                                !.clusterDataProtected = protected,
                                !.clusterData = "Restored"]
    <3>1. t1 \in VRGStatus
      BY <1>1 DEF VRGStatus
    <3>2. t = [t1 EXCEPT !.clusterDataReady = TRUE,
                         !.state = state,
                         !.protectedPVCs = pvcs,
                         !.prepareForFinalSyncComplete = prepared,
                         !.finalSyncComplete = done]
      OBVIOUS
    <3> HIDE DEF t, t1
    <3> QED
      BY <2>2, <2>4, <3>1, <3>2 DEF VRGStatus
  <2>7. t.state = state
    BY <1>1 DEF VRGStatus
  <2> HIDE DEF t
  <2> QED
    BY <1>2, <2>1, <2>2, <2>5, <2>6, <2>7,
       StatusReplaced
<1>7. \A done \in BOOLEAN : FinalSyncKept(c, done) \in BOOLEAN
  BY DEF FinalSyncKept
<1>8. CASE resetInitialStatusAsSecondary(c)
  <2> DEFINE state == StatusState(v, st.dataReady, st.dataProtected)
             prepared == FinalSyncKept(c, st.prepareForFinalSyncComplete)
             done == FinalSyncKept(c, st.finalSyncComplete)
             pvcs == st.protectedPVCs /\ ~VolSync
             t == [st EXCEPT !.observed = TRUE,
                             !.clusterData = "Unused",
                             !.clusterDataReady = TRUE,
                             !.state = state,
                             !.protectedPVCs = pvcs,
                             !.prepareForFinalSyncComplete = prepared,
                             !.finalSyncComplete = done]
  <2>1. /\ vrg' = [vrg EXCEPT ![c].status = t]
        /\ Exists(v)
        /\ UNCHANGED <<running, unsynced>>
    BY <1>8 DEF resetInitialStatusAsSecondary, Exists
  <2>2. /\ state \in {"Unknown", "Primary", "Secondary"}
        /\ state = "Primary" => isVRGPrimary(v)
    BY <1>1, <1>3, <2>1, StatusStateAgrees
  <2>3. prepared \in BOOLEAN /\ done \in BOOLEAN /\ pvcs \in BOOLEAN
    BY <1>1, <1>7 DEF VRGStatus
  <2> HIDE DEF state, prepared, done, pvcs
  <2>4. t \in VRGStatus
    <3> DEFINE t1 == [st EXCEPT !.observed = TRUE,
                                !.clusterData = "Unused",
                                !.clusterDataReady = TRUE]
    <3>1. t1 \in VRGStatus
      BY <1>1 DEF VRGStatus
    <3>2. t = [t1 EXCEPT !.state = state,
                         !.protectedPVCs = pvcs,
                         !.prepareForFinalSyncComplete = prepared,
                         !.finalSyncComplete = done]
      OBVIOUS
    <3> HIDE DEF t, t1
    <3> QED
      BY <2>2, <2>3, <3>1, <3>2 DEF VRGStatus
  <2>5. t.state = state
    BY <1>1 DEF VRGStatus
  <2> HIDE DEF t
  <2> QED
    BY <1>2, <2>1, <2>2, <2>4, <2>5, StatusReplaced
<1>9. ASSUME NEW ready \in BOOLEAN, NEW protected \in BOOLEAN,
             processAsSecondary(c, ready, protected)
      PROVE  ClusterOK'
  <2> DEFINE state == StatusState(v, ready, protected)
             prepared == FinalSyncKept(c, st.prepareForFinalSyncComplete)
             done == FinalSyncKept(c, st.finalSyncComplete)
             pvcs == st.protectedPVCs /\ ~VolSync /\ ~ready
             t == [st EXCEPT !.observed = TRUE,
                             !.dataReady = ready,
                             !.dataProtected = protected,
                             !.clusterDataReady = TRUE,
                             !.state = state,
                             !.protectedPVCs = pvcs,
                             !.prepareForFinalSyncComplete = prepared,
                             !.finalSyncComplete = done]
  <2>1. /\ vrg' = [vrg EXCEPT ![c].status = t]
        /\ Exists(v)
        /\ UNCHANGED running
    BY <1>9 DEF processAsSecondary, Exists
  <2>2. /\ state \in {"Unknown", "Primary", "Secondary"}
        /\ state = "Primary" => isVRGPrimary(v)
    BY <1>1, <2>1, StatusStateAgrees
  <2>3. prepared \in BOOLEAN /\ done \in BOOLEAN /\ pvcs \in BOOLEAN
    BY <1>1, <1>7 DEF VRGStatus
  <2>4. unsynced' \in [Clusters -> BOOLEAN]
    BY <1>2, <1>9 DEF processAsSecondary
  <2> HIDE DEF state, prepared, done, pvcs
  <2>5. t \in VRGStatus
    <3> DEFINE t1 == [st EXCEPT !.observed = TRUE,
                                !.dataReady = ready,
                                !.dataProtected = protected,
                                !.clusterDataReady = TRUE]
    <3>1. t1 \in VRGStatus
      BY <1>1 DEF VRGStatus
    <3>2. t = [t1 EXCEPT !.state = state,
                         !.protectedPVCs = pvcs,
                         !.prepareForFinalSyncComplete = prepared,
                         !.finalSyncComplete = done]
      OBVIOUS
    <3> HIDE DEF t, t1
    <3> QED
      BY <2>2, <2>3, <3>1, <3>2 DEF VRGStatus
  <2>6. t.state = state
    BY <1>1 DEF VRGStatus
  <2> HIDE DEF t
  <2> QED
    BY <1>2, <2>1, <2>2, <2>4, <2>5, <2>6,
       StatusReplaced
<1>10. CASE StartWorkload(c, placed) \/ StopWorkload(c, placed)
  BY <1>10 DEF StartWorkload, StopWorkload, ClusterOK, TypeOKVRG, StatusAgrees,
               isVRGPrimary
<1> QED
  BY <1>4, <1>5, <1>6, <1>8, <1>9, <1>10 DEF NextVRG
-----------------------------------------------------------------------------
(* The initial states satisfy the invariant.                               *)
LEMMA InitOK ==
  ASSUME Init
  PROVE  IInv
<1>1. 0 \in 0..MaxGeneration /\ 0 \in 0..MaxFaults
  BY BoundsAssumption
<1>2. NoSpec \in VRGSpec
  BY DEF NoSpec, VRGSpec, DRActions
<1>3. NoVRG \in VRGs /\ NoVRG.status.state # "Primary"
  BY <1>2 DEF NoVRG, NewStatus, VRGs, VRGStatus
<1>4. NoViews \in Views /\ StatusAgrees(NoViews)
  BY <1>3 DEF NoViews, Views, StatusAgrees
<1>5. NewDRPCStatus \in Statuses
  BY <1>1 DEF NewDRPCStatus, Statuses, ClusterName, Phases, PeerReasons
<1>6. [cluster |-> NoCluster, action |-> "Unset"] \in Annotations
  BY DEF Annotations, ClusterName
<1>7. NoInstance \in Instances
  <2>1. [action |-> "", failoverCluster |-> NoCluster,
         preferredCluster |-> NoCluster, generation |-> 0] \in Specs
    BY <1>1 DEF Specs, ClusterName, DRActions
  <2> QED
    BY <1>5, <1>6, <2>1 DEF NoInstance, Instances
<1>8. spec \in Specs /\ WellFormed(spec)
  BY <1>1 DEF Init, InitDRPC, Specs, ClusterName, DRActions, WellFormed
<1>9. decisions \in DecisionList /\ OneActiveDecision
  <2>1. \A c \in Clusters : decisions[c].active = 0
    BY DEF Init, InitDRPC, NoDecisions
  <2>2. decisions \in DecisionList
    BY DEF Init, InitDRPC, NoDecisions, DecisionList
  <2> QED
    BY <2>1, <2>2 DEF OneActiveDecision, Readable
<1>10. ResourceOK
  BY <1>2, <1>4, <1>6, <1>8, <1>9 DEF Init, InitDRPC, ResourceOK
<1>11. MemoryOK
  BY <1>1, <1>4, <1>5, <1>7
     DEF Init, InitDRPC, MemoryOK, Steps, ClusterName, Switching, Quiescing
<1>12. ClusterOK
  BY <1>3 DEF Init, InitVRG, ClusterOK, TypeOKVRG, StatusAgrees
<1> QED
  BY <1>10, <1>11, <1>12 DEF IInv

(* Every step keeps the invariant.                                         *)
LEMMA NextOK ==
  ASSUME IInv, [Next]_vars
  PROVE  IInv'
<1> USE DEF IInv
<1>1. ASSUME UNCHANGED clusterVars
      PROVE  ClusterOK'
  BY <1>1 DEF clusterVars, ClusterOK, TypeOKVRG, StatusAgrees, isVRGPrimary
<1>2. ASSUME UNCHANGED hubVars
      PROVE  ResourceOK' /\ MemoryOK'
  BY <1>2, ResourcesUnchanged, MemoryUnchanged DEF hubVars
<1>3. CASE NextDRPC /\ UNCHANGED clusterVars
  BY <1>1, <1>3, HubSteps
<1>4. ASSUME NEW c \in Clusters, ClusterStep(c)
      PROVE  IInv'
  <2>1. NextVRG(c, mw[c], PlacedOn(decisions)) /\ UNCHANGED hubVars
    BY <1>4 DEF ClusterStep
  <2>2. mw[c] \in VRGSpec
    BY DEF ResourceOK
  <2>3. ClusterOK'
    BY <2>1, <2>2, ClusterSteps
  <2> QED
    BY <1>2, <2>1, <2>3
<1>5. ASSUME NEW c \in Clusters, RefreshView(c)
      PROVE  IInv'
  <2>1. view' \in Views /\ StatusAgrees(view)'
    BY <1>5 DEF RefreshView, Views, ResourceOK, ClusterOK, TypeOKVRG,
                StatusAgrees, isVRGPrimary
  <2>2. ResourceOK'
    BY <1>5, <2>1 DEF RefreshView, ResourceOK, WellFormed, OneActiveDecision,
                      Readable, ActiveClusters
  <2>3. MemoryOK' /\ ClusterOK'
    BY <1>1, <1>5, MemoryUnchanged DEF RefreshView
  <2> QED
    BY <2>2, <2>3
<1>6. ASSUME NEW action \in UserActions, NEW c \in Clusters,
             SetAction(action, c)
      PROVE  IInv'
  <2>1. action \in DRActions
    BY BoundsAssumption
  <2>2. spec.generation + 1 \in 0..MaxGeneration
    BY <1>6, BoundsAssumption DEF SetAction, ResourceOK, Specs
  <2>3. spec' \in Specs /\ WellFormed(spec)'
    BY <1>6, <2>1, <2>2
       DEF SetAction, ResourceOK, Specs, WellFormed, ClusterName
  <2>4. ResourceOK'
    BY <1>6, <2>3 DEF SetAction, ResourceOK, OneActiveDecision, Readable,
                      ActiveClusters, StatusAgrees, isVRGPrimary
  <2>5. MemoryOK' /\ ClusterOK'
    BY <1>1, <1>6, MemoryUnchanged DEF SetAction
  <2> QED
    BY <2>4, <2>5
<1>7. CASE UNCHANGED vars
  BY <1>1, <1>2, <1>7 DEF vars
<1> QED
  BY <1>3, <1>4, <1>5, <1>6, <1>7 DEF Next

(* The inductive invariant holds of every behavior: resources, reconcile   *)
(* and clusters are well formed whatever the user, the clusters and the    *)
(* faults do.                                                              *)
THEOREM InvariantHolds == Spec => []IInv
BY InitOK, NextOK, PTL DEF Spec

(* Every variable keeps its type, for every pair of clusters and every     *)
(* bound on the changes of the user and on the faults.                     *)
THEOREM TypeCorrect == Spec => []TypeOK
<1>1. IInv => TypeOK
  BY DEF IInv, ResourceOK, MemoryOK, ClusterOK, TypeOK, TypeOKDRPC
<1> QED
  BY <1>1, InvariantHolds, PTL

(* The PlacementDecision stays readable: no interleaving of retaining,     *)
(* replacing and dropping decisions, with lost and failed writes, makes    *)
(* two decisions active.                                                   *)
THEOREM DecisionStaysReadable == Spec => []OneActiveDecision
<1>1. IInv => OneActiveDecision
  BY DEF IInv, ResourceOK
<1> QED
  BY <1>1, InvariantHolds, PTL

(* switchToCluster never goes past its readiness check: the code after it  *)
(* is dead.                                                                *)
THEOREM SwitchIsDead == Spec => []SwitchNeverPlaces
<1>1. IInv => SwitchNeverPlaces
  BY TargetNotReady DEF IInv
<1> QED
  BY <1>1, InvariantHolds, PTL
=============================================================================
