---------------------------- MODULE DRPCActions ----------------------------
(***************************************************************************)
(* The DR actions of the DRPC reconciler: the initial deployment, failover *)
(* and relocation, and the transition that completes each of them.         *)
(***************************************************************************)
EXTENDS DRPC

(* A decision in memory: nothing is written.                               *)
Decide(action) ==
  /\ pc = "action"
  /\ inst.spec.action = action
  /\ UNCHANGED resourceVars
-----------------------------------------------------------------------------
(* Initial deployment.                                                     *)

home == inst.spec.preferredCluster

isDeployed == Exists(vrgs[home])

isVRGAlreadyDeployedElsewhere == ~isDeployed /\ Primaries # {}

DeployedElsewhere ==
  /\ Decide("")
  /\ isVRGAlreadyDeployedElsewhere
  /\ Goto("ensureWork", home,
          setProgression(updatePreferredDecision(inst.status)))

StartDeploying ==
  /\ Decide("")
  /\ ~isVRGAlreadyDeployedElsewhere
  /\ ~isDeployed \/ getClusterDecision(decisions) # home
  /\ Goto("deployWork", home,
          setProgression(setDRState(setStatusInitiating(inst.status),
                                    "Deploying")))

Deployed ==
  /\ Decide("")
  /\ isDeployed
  /\ getClusterDecision(decisions) = home
  /\ Goto("ensureWork", home,
          setProgression(setDRState(inst.status, "Deployed")))

(* startDeploying: the ManifestWork of the preferred cluster is created;   *)
(* one that exists must be Primary.                                        *)
createVRGManifestWork ==
  /\ pc = "deployWork"
  /\ CASE mw[target].state = "None" ->
            /\ UpdateManifestWork(target, newVRG("Primary", FALSE))
            /\ Goto("deployPlacement", target, inst.status)
       [] mw[target].state = "Primary" ->
            /\ UNCHANGED resourceVars
            /\ Goto("deployPlacement", target, inst.status)
       [] mw[target].state = "Secondary" ->
            /\ UNCHANGED resourceVars
            /\ Finish(inst.status)

DeployPlacement ==
  /\ pc = "deployPlacement"
  /\ IfReadable(
       createOrUpdatePlacementDecision(decisions, target),
       Finish(setConditionOnInitialDeploymentCompletion(
                setDRState([inst.status EXCEPT !.preferredDecision = target],
                           "Deployed"))))
-----------------------------------------------------------------------------
(* Failover.                                                               *)

failoverCluster == inst.spec.failoverCluster

FailoverTargetInvalid ==
  /\ Decide("Failover")
  /\ ~isValidFailoverTarget(failoverCluster)
  /\ Finish(inst.status)

(* The VRG of the failover cluster is already Primary.                     *)
FailoverStarted ==
  /\ Decide("Failover")
  /\ isValidFailoverTarget(failoverCluster)
  /\ vrgExistsAndPrimary(failoverCluster)
  /\ Goto("ensureWork", failoverCluster,
          setDRState(updatePreferredDecision(inst.status), "FailedOver"))

mwExistsAndPlacementUpdated(c) ==
  mw[c].state # "None" /\ getClusterDecision(decisions) = c

FailoverWaitsForVRG ==
  /\ Decide("Failover")
  /\ isValidFailoverTarget(failoverCluster)
  /\ ~vrgExistsAndPrimary(failoverCluster)
  /\ mwExistsAndPlacementUpdated(failoverCluster)
  /\ Finish(inst.status)

(* Mutant: PeerReady is not withdrawn.                                     *)
switchToFailoverCluster_PeerStaysReady ==
  /\ Decide("Failover")
  /\ isValidFailoverTarget(failoverCluster)
  /\ ~vrgExistsAndPrimary(failoverCluster)
  /\ ~mwExistsAndPlacementUpdated(failoverCluster)
  /\ Goto("retain", failoverCluster,
          setProgression(
            setDRState(setStatusInitiating(inst.status), "FailingOver")))

switchToFailoverCluster ==
  /\ Decide("Failover")
  /\ isValidFailoverTarget(failoverCluster)
  /\ ~vrgExistsAndPrimary(failoverCluster)
  /\ ~mwExistsAndPlacementUpdated(failoverCluster)
  /\ Goto("retain", failoverCluster,
          setProgression(setPeerReady(
            setDRState(setStatusInitiating(inst.status), "FailingOver"),
            "NotStarted")))

RetainDecision ==
  /\ pc = "retain"
  /\ IfReadable(
       retainClusterDecisionAsFailover(decisions,
                                       getCurrentHomeClusterName(target)),
       Goto("switch", target, inst.status))

(* switchToCluster: the target's VRG becomes Primary; the workload is      *)
(* placed once that VRG is ready.                                          *)
SwitchPlaces(c) == mw[c].state = "Primary" /\ checkReadiness(c)

switchToCluster ==
  /\ pc = "switch"
  /\ CASE mw[target].state = "None" ->
            /\ UpdateManifestWork(target, newVRG("Primary", FALSE))
            /\ Finish(setProgression(inst.status))
       [] mw[target].state = "Secondary" ->
            /\ UpdateManifestWork(target,
                 updateVRGState(mw[target], target, "Primary"))
            /\ Finish(setProgression(inst.status))
       [] mw[target].state = "Primary" /\ ~SwitchPlaces(target) ->
            /\ UNCHANGED resourceVars
            /\ Finish(setProgression(inst.status))
       [] SwitchPlaces(target) ->
            IfReadable(
              createOrUpdatePlacementDecision(decisions, target),
              Finish(setDRState(updatePreferredDecision(inst.status),
                                IF inst.spec.action = "Failover"
                                THEN "FailedOver" ELSE "Relocated")))
-----------------------------------------------------------------------------
(* The transition that completes an action with the workload on target.    *)

(* ensureVRGManifestWork: refreshes the ManifestWork of the Primary; then  *)
(* a failover or a relocation waits until the Primary is ready.            *)
ensureVRGManifestWork ==
  LET valid == mw[target].state = "Primary" /\ Exists(vrgs[target])
      ready == inst.spec.action # "" => checkReadiness(target)
  IN
  /\ pc = "ensureWork"
  /\ IF valid THEN UpdateManifestWork(target, setVRGAction(mw[target]))
     ELSE UNCHANGED resourceVars
  /\ IF valid /\ ready
     THEN Goto("annotate", target,
               setProgression(IF inst.spec.action = "Relocate"
                              THEN setDRState(inst.status, "Relocated")
                              ELSE inst.status))
     ELSE Finish(setProgression(inst.status))

(* ensurePlacement, first part: the annotations are written with an Update *)
(* of the DRPC, which conflicts when the user has changed it, and which    *)
(* brings the instance in memory back to the persisted status.             *)
AnnotateDRPC ==
  LET annotations == [cluster |-> target, action |-> inst.spec.action] IN
  /\ pc = "annotate"
  /\ IF inst.lastAction = annotations
     THEN Goto("place", target, inst.status) /\ UNCHANGED lastAction
     ELSE IF inst.spec.generation = spec.generation
     THEN /\ lastAction' = annotations
          /\ inst' = [inst EXCEPT !.status = status,
                                  !.lastAction = annotations]
          /\ pc' = "place"
          /\ UNCHANGED <<target, vrgs, queried, status, faults>>
     ELSE Finish(inst.status) /\ UNCHANGED lastAction
  /\ UNCHANGED <<spec, decisions, mw, view>>

(* ensurePlacement, second part.                                           *)
ensurePlacement ==
  /\ pc = "place"
  /\ IF getClusterDecision(decisions) = target
     THEN Goto("resetRD", target, inst.status) /\ UNCHANGED resourceVars
     ELSE IfReadable(
            createOrUpdatePlacementDecision(decisions, target),
            Goto("resetRD", target, updatePreferredDecision(inst.status)))

(* ResetVolSyncRDOnPrimary, and the wait for the reset to be seen.         *)
ResetVolSyncRDOnPrimary ==
  LET reset == mw[target].state \in {"None", "Primary"} IN
  /\ pc = "resetRD"
  /\ IF reset
     THEN UpdateManifestWork(target, [mw[target] EXCEPT !.rdSpec = FALSE])
     ELSE UNCHANGED resourceVars
  /\ IF reset /\ ~vrgs[target].spec.rdSpec
     THEN Goto("cleanup", target, inst.status)
     ELSE Finish(inst.status)

(* EnsureCleanup trusts a PeerReady condition of the current generation.   *)
CleanupComplete ==
  /\ inst.status.peerReady = "Success"
  /\ inst.status.peerGeneration = inst.spec.generation

SkipCleanup ==
  /\ pc = "cleanup"
  /\ CleanupComplete
  /\ Goto("secondary", target, inst.status)
  /\ UNCHANGED resourceVars

(* The VRG of the peer, remade from the snapshot of the source.            *)
refreshVRGSecondarySpec ==
  newVRG("Secondary", VolSync /\ vrgs[target].status.protectedPVCs)

(* cleanupSecondary: the peer is made Secondary, and when it has been seen *)
(* as Secondary at its current generation, the decision retained for it is *)
(* dropped; then it must have completed its change.                        *)
MakePeerSecondary ==
  LET peer == Peer(target) IN
  /\ pc = "cleanup"
  /\ ~CleanupComplete
  /\ mw[peer].state # "Secondary"
  /\ UpdateManifestWork(peer,
       IF mw[peer].state = "None" THEN refreshVRGSecondarySpec
       ELSE updateVRGState(mw[peer], peer, "Secondary"))
  /\ Finish(setProgression(inst.status))

(* Mutant: the observed generation is not looked at.                       *)
PeerProcessesSecondary_SpecOnly(v) == v.spec.state = "Secondary"

PeerProcessesSecondary(v) == v.spec.state = "Secondary" /\ v.status.observed

WaitForPeer ==
  LET peer == Peer(target) IN
  /\ pc = "cleanup"
  /\ ~CleanupComplete
  /\ mw[peer].state = "Secondary"
  /\ ~PeerProcessesSecondary(vrgs[peer])
  /\ IF inst.spec.action = "" /\ ~Exists(vrgs[peer])
     THEN Goto("secondary", target, setPeerReady(inst.status, "Success"))
     ELSE Finish(inst.status)
  /\ UNCHANGED resourceVars

RemoveRetainedDecision ==
  LET peer == Peer(target) IN
  /\ pc = "cleanup"
  /\ ~CleanupComplete
  /\ mw[peer].state = "Secondary"
  /\ PeerProcessesSecondary(vrgs[peer])
  /\ IfReadable(
       removeClusterDecisionForFailover(decisions, peer),
       IF ensureVRGIsSecondaryOnCluster(peer)
       THEN Goto("secondary", target, setPeerReady(inst.status, "Success"))
       ELSE Finish(inst.status))

(* EnsureSecondaryReplicationSetup, and the end of the action.  The        *)
(* clusters are joined by Submariner, the default; the addresses that are  *)
(* passed from one VRG to the other otherwise are in module VolSync.       *)
EnsureSecondaryReplicationSetup ==
  LET peer == Peer(target)
      ready == mw[peer].state # "None" /\ vrgs[target].status.protectedPVCs
      completed == [inst.status EXCEPT !.completed = TRUE]
  IN
  /\ pc = "secondary"
  /\ UpdateManifestWork(peer, refreshVRGSecondarySpec)
  /\ Finish(CASE ~ready -> setProgression(inst.status)
              [] ready /\ inst.spec.action = "" ->
                   setConditionOnInitialDeploymentCompletion(
                     updatePreferredDecision(completed))
              [] OTHER -> completed)
-----------------------------------------------------------------------------
(* Relocation.                                                             *)

preferredCluster == inst.spec.preferredCluster

(* validateAndSelectCurrentPrimary, after the check that all clusters      *)
(* answered.                                                               *)
RelocateValid ==
  /\ queried
  /\ \E c \in Clusters : Exists(vrgs[c])
  /\ Primaries # Clusters

RelocateNotValid ==
  /\ Decide("Relocate")
  /\ ~RelocateValid
  /\ Finish(inst.status)

(* The VRG of the preferred cluster is already the Primary.                *)
RelocateStarted ==
  /\ Decide("Relocate")
  /\ RelocateValid
  /\ Primaries = {preferredCluster}
  /\ Goto("ensureWork", preferredCluster,
          setDRState(updatePreferredDecision(inst.status), "Relocating"))

(* Otherwise the Primary, if any, is the peer: the current home cluster.   *)
curHomeCluster == Peer(preferredCluster)

initiated == setStatusInitiating(inst.status)

(* Mutant: the peer must be ready also once the relocation is under way.   *)
ReadyToRelocate_AlwaysPeerReady ==
  /\ curHomeCluster \in Primaries => readyToSwitchOver(curHomeCluster)
  /\ validatePeerReady

ReadyToRelocate ==
  /\ curHomeCluster \in Primaries => readyToSwitchOver(curHomeCluster)
  /\ initiated.phase # "Relocating" => validatePeerReady

Relocation ==
  /\ Decide("Relocate")
  /\ RelocateValid
  /\ Primaries # {preferredCluster}

RelocateNotReady ==
  /\ Relocation
  /\ ~ReadyToRelocate
  /\ Finish(initiated)

RelocateStatus(s) == setPeerReady(setDRState(s, "Relocating"), "NotStarted")

(* quiesceAndRunFinalSync on the current home cluster: prepare, clear the  *)
(* placement, run the final sync; then relocate.                           *)
QuiesceAndRunFinalSync ==
  LET prepared ==
        vrgs[curHomeCluster].status.prepareForFinalSyncComplete
      placed == getClusterDecision(decisions) # NoCluster
  IN
  /\ Relocation
  /\ ReadyToRelocate
  /\ curHomeCluster \in Primaries
  /\ CASE ~prepared -> Goto("prepare", curHomeCluster, setProgression(initiated))
       [] prepared /\ placed ->
            Goto("clear", curHomeCluster,
                 setProgression(setDRState(initiated, "Relocating")))
       [] prepared /\ ~placed -> Goto("finalSync", curHomeCluster, initiated)

RelocateWithoutPrimary ==
  /\ Relocation
  /\ ReadyToRelocate
  /\ curHomeCluster \notin Primaries
  /\ Goto("toSecondary", preferredCluster, RelocateStatus(initiated))

updateVRGToPrepareForFinalSync ==
  /\ pc = "prepare"
  /\ IF mw[target].state = "None" THEN UNCHANGED resourceVars
     ELSE UpdateManifestWork(target,
            IF mw[target].prepareForFinalSync THEN mw[target]
            ELSE setVRGAction([mw[target] EXCEPT !.prepareForFinalSync = TRUE,
                                                 !.runFinalSync = FALSE]))
  /\ Finish(inst.status)

clearUserPlacementRuleStatus ==
  /\ pc = "clear"
  /\ IfReadable(createOrUpdatePlacementDecision(decisions, NoCluster),
                Goto("finalSync", target, inst.status))

(* Mutant: the completion of the final sync is not waited for.             *)
runFinalSync_NoWait ==
  /\ pc = "finalSync"
  /\ Goto("toSecondary", preferredCluster,
          RelocateStatus(setProgression(inst.status)))
  /\ UNCHANGED resourceVars

runFinalSync ==
  /\ pc = "finalSync"
  /\ IF vrgs[target].status.finalSyncComplete
     THEN /\ Goto("toSecondary", preferredCluster,
                  RelocateStatus(setProgression(inst.status)))
          /\ UNCHANGED resourceVars
     ELSE /\ Finish(setProgression(inst.status))
          /\ IF mw[target].state = "None" THEN UNCHANGED resourceVars
             ELSE UpdateManifestWork(target,
                    IF mw[target].runFinalSync THEN mw[target]
                    ELSE setVRGAction([mw[target] EXCEPT !.prepareForFinalSync = FALSE,
                                                         !.runFinalSync = TRUE]))

(* setupRelocation: the clusters other than the preferred one must be      *)
(* Secondary, otherwise all are moved to Secondary, and looked at again;   *)
(* then their data must be protected.  Each move is a write of its own;    *)
(* written are the clusters for which it succeeds.                         *)
moveVRGToSecondaryEverywhere(written) ==
  /\ pc = "toSecondary"
  /\ ~ensureVRGIsSecondaryOnCluster(Peer(target))
  /\ mw' = [c \in Clusters |->
              IF c \in written /\ mw[c].state = "Primary"
              THEN updateVRGState(mw[c], c, "Secondary") ELSE mw[c]]
  /\ IF written = Clusters
     THEN Goto("recheck", target, setProgression(inst.status))
     ELSE /\ faults < MaxFaults
          /\ faults' = faults + 1
          /\ EndReconcile
          /\ updateDRPCStatus(inst, setProgression(inst.status))
  /\ UNCHANGED <<spec, lastAction, decisions, view>>

(* Mutant: the relocation goes on whatever the clusters report.            *)
setupRelocation_Unchecked ==
  /\ pc \in {"toSecondary", "recheck"}
  /\ Goto("switch", target, inst.status)
  /\ UNCHANGED resourceVars

setupRelocation ==
  /\ pc \in {"toSecondary", "recheck"}
  /\ pc = "toSecondary" => ensureVRGIsSecondaryOnCluster(Peer(target))
  /\ IF /\ \A c \in Clusters : pc = "recheck" => ensureVRGIsSecondaryOnCluster(c)
        /\ ensureDataProtectedOnCluster(Peer(target))
     THEN Goto("switch", target, inst.status)
     ELSE Finish(inst.status)
  /\ UNCHANGED resourceVars
-----------------------------------------------------------------------------
ReconcileStep ==
  \/ DeployedElsewhere \/ StartDeploying \/ Deployed
  \/ createVRGManifestWork \/ DeployPlacement
  \/ FailoverTargetInvalid \/ FailoverStarted \/ FailoverWaitsForVRG
  \/ switchToFailoverCluster \/ RetainDecision \/ switchToCluster
  \/ ensureVRGManifestWork \/ AnnotateDRPC \/ ensurePlacement
  \/ ResetVolSyncRDOnPrimary \/ SkipCleanup \/ MakePeerSecondary
  \/ WaitForPeer \/ RemoveRetainedDecision \/ EnsureSecondaryReplicationSetup
  \/ RelocateNotValid \/ RelocateStarted \/ RelocateNotReady
  \/ QuiesceAndRunFinalSync \/ RelocateWithoutPrimary
  \/ updateVRGToPrepareForFinalSync \/ clearUserPlacementRuleStatus
  \/ runFinalSync \/ setupRelocation
  \/ \E written \in SUBSET Clusters : moveVRGToSecondaryEverywhere(written)

Fault ==
  \/ \E c \in Clusters : ReconcileWithFailedQuery(c)
  \/ recordFailure
  \/ WriteFails
  \/ Crash

NextDRPC == Reconcile \/ ReconcileStep \/ Fault
=============================================================================
