-------------------------------- MODULE DRPC --------------------------------
(***************************************************************************)
(* The DRPlacementControl (DRPC) reconciler of the hub, for one workload   *)
(* protected by a pair of clusters with asynchronous replication.          *)
(*                                                                         *)
(* A reconcile reads the DRPC and a snapshot of the VRG views of the       *)
(* clusters, and then takes decisions in memory and writes, one at a time, *)
(* ManifestWorks, the PlacementDecision and the DRPC itself.  The program  *)
(* counter pc stands before such a write, so that the clusters and the     *)
(* user act between any two of them, and a crash or a failed write can     *)
(* separate them.                                                          *)
(***************************************************************************)
EXTENDS PlacementDecision, VRG

CONSTANTS MaxGeneration, \* bound on the changes of the spec by the user
          MaxFaults,     \* bound on crashes, failed writes and failed queries
          UserActions    \* the DR actions that the user asks for

ASSUME BoundsAssumption ==
  /\ MaxGeneration \in Nat
  /\ MaxFaults \in Nat
  /\ UserActions \subseteq DRActions

VARIABLES
  spec,       \* DRPC spec and generation, written by the user
  status,     \* DRPC status, as persisted
  lastAction, \* annotations of the DRPC: last deployment cluster and action
  decisions,  \* the PlacementDecision
  mw,         \* the VRG in the ManifestWork of each cluster
  view,       \* the VRG in the ManagedClusterView of each cluster
  pc,         \* the write or the reading that the reconcile does next
  inst,       \* the DRPC in memory: spec, status and annotations
  vrgs,       \* the VRG views read at the start of the reconcile
  queried,    \* all clusters answered that query
  target,     \* the cluster that the current function works for
  faults      \* faults so far

resourceVars == <<spec, lastAction, decisions, mw, view>>
reconcileVars == <<pc, inst, vrgs, queried, target>>
hubVars == <<resourceVars, status, reconcileVars, faults>>

Phases == {"", "WaitForUser", "Initiating", "Deploying", "Deployed",
           "FailingOver", "FailedOver", "Relocating", "Relocated"}

(* Reasons of the PeerReady condition; the condition is True with Success. *)
PeerReasons == {"Initiating", "NotStarted", "Progressing", "Success", "Paused"}

Specs == [action : DRActions, failoverCluster : ClusterName,
          preferredCluster : ClusterName, generation : 0..MaxGeneration]

Statuses == [phase : Phases, completed : BOOLEAN, \* progression is Completed
             peerReady : PeerReasons, peerGeneration : 0..MaxGeneration,
             preferredDecision : ClusterName]

Annotations == [cluster : ClusterName, action : DRActions \cup {"Unset"}]

Instances == [spec : Specs, status : Statuses, lastAction : Annotations]

Writes == {"deployWork", "deployPlacement", "retain", "switch", "ensureWork",
           "annotate", "place", "resetRD", "cleanup", "secondary", "prepare",
           "clear", "finalSync", "toSecondary"}

Steps == Writes \cup {"idle", "action", "recheck"}

NewDRPCStatus == [phase |-> "", completed |-> FALSE,
                  peerReady |-> "Initiating", peerGeneration |-> 0,
                  preferredDecision |-> NoCluster]

NoInstance ==
  [spec |-> [action |-> "", failoverCluster |-> NoCluster,
             preferredCluster |-> NoCluster, generation |-> 0],
   status |-> NewDRPCStatus,
   lastAction |-> [cluster |-> NoCluster, action |-> "Unset"]]

Views == [Clusters -> VRGs]

NoViews == [c \in Clusters |-> NoVRG]

TypeOKDRPC ==
  /\ spec \in Specs /\ status \in Statuses /\ lastAction \in Annotations
  /\ decisions \in DecisionList
  /\ mw \in [Clusters -> VRGSpec]
  /\ view \in Views
  /\ pc \in Steps
  /\ inst \in Instances
  /\ vrgs \in Views
  /\ queried \in BOOLEAN
  /\ target \in ClusterName
  /\ faults \in 0..MaxFaults

(* A new DRPC: no action, a preferred cluster, nothing deployed.           *)
InitDRPC ==
  /\ spec \in [action : {""}, failoverCluster : {NoCluster},
               preferredCluster : Clusters, generation : {0}]
  /\ status = NewDRPCStatus
  /\ lastAction = [cluster |-> NoCluster, action |-> "Unset"]
  /\ decisions = NoDecisions
  /\ mw = [c \in Clusters |-> NoSpec]
  /\ view = NoViews
  /\ pc = "idle"
  /\ inst = NoInstance
  /\ vrgs = NoViews
  /\ queried = FALSE
  /\ target = NoCluster
  /\ faults = 0
-----------------------------------------------------------------------------
(* Predicates of the reconcile on the snapshot vrgs, and on fresh views.   *)

(* Mutant: a Primary counts only once its data is protected.               *)
vrgExistsAndPrimary_Protected(c) ==
  isVRGPrimary(vrgs[c]) /\ vrgs[c].status.dataProtected

vrgExistsAndPrimary(c) == isVRGPrimary(vrgs[c])

(* Mutant: the wanted state is taken for the reported one.                 *)
checkReadiness_SpecOnly(c) == isVRGPrimary(vrgs[c])

checkReadiness(c) ==
  /\ vrgs[c].status.dataReady
  /\ vrgs[c].status.clusterDataReady
  /\ vrgs[c].status.state = "Primary"

readyToSwitchOver(home) ==
  vrgs[home].status.dataReady /\ vrgs[home].status.clusterDataProtected

ReportsSecondary(v) == v.status.state = "Secondary" /\ v.status.observed

(* Mutant: a target that the failover has made Primary is refused.         *)
isValidFailoverTarget_SecondaryOnly(c) ==
  Exists(view[c]) /\ ReportsSecondary(view[c])

isValidFailoverTarget(c) ==
  Exists(view[c]) /\ (isVRGPrimary(view[c]) \/ ReportsSecondary(view[c]))

ensureVRGIsSecondaryOnCluster(c) ==
  Exists(view[c]) => ReportsSecondary(view[c])

ensureDataProtectedOnCluster(c) ==
  Exists(view[c]) /\ view[c].status.dataProtected

validatePeerReady == inst.status.peerReady = "Success"

(* The clusters whose snapshot is Primary.                                 *)
Primaries == {c \in Clusters : isVRGPrimary(vrgs[c])}

isSecondaryVRGReadyOnInitialDeploy ==
  \A c \in Clusters \ {inst.spec.preferredCluster} :
    vrgs[c].spec.state = "Secondary" /\ ReportsSecondary(vrgs[c])

(* The cluster from which a failover moves the workload.                   *)
getCurrentHomeClusterName(to) ==
  LET current == getClusterDecision(decisions) IN
  CASE current # NoCluster -> current
    [] /\ current = NoCluster
       /\ inst.status.preferredDecision # NoCluster ->
         inst.status.preferredDecision
    [] OTHER -> Peer(to)
-----------------------------------------------------------------------------
(* Updates of the DRPC status in memory.                                   *)

setDRState(s, phase) == [s EXCEPT !.phase = phase]

setProgression(s) == [s EXCEPT !.completed = FALSE]

setStatusInitiating(s) ==
  IF s.phase \in {"", "WaitForUser", "Deployed", "FailedOver", "Relocated"}
  THEN setProgression(setDRState(s, "Initiating"))
  ELSE s

(* Mutant: the generation is off by one.                                   *)
setPeerReady_NextGeneration(s, reason) ==
  [s EXCEPT !.peerReady = reason, !.peerGeneration = inst.spec.generation + 1]

setPeerReady(s, reason) ==
  [s EXCEPT !.peerReady = reason, !.peerGeneration = inst.spec.generation]

updatePreferredDecision(s) ==
  [s EXCEPT !.preferredDecision =
     IF @ = NoCluster THEN inst.spec.preferredCluster ELSE @]

setConditionOnInitialDeploymentCompletion(s) ==
  setPeerReady(s, IF isSecondaryVRGReadyOnInitialDeploy
                  THEN "Success" ELSE "Progressing")

(* The reconcile goes on at a step, for cluster c, with status s.          *)
Goto(step, c, s) ==
  /\ pc' = step
  /\ target' = c
  /\ inst' = [inst EXCEPT !.status = s]
  /\ UNCHANGED <<vrgs, queried, status, faults>>

EndReconcile ==
  /\ pc' = "idle"
  /\ inst' = NoInstance
  /\ vrgs' = NoViews
  /\ queried' = FALSE
  /\ target' = NoCluster

(* updateDRPCStatus: the status is written, with all conditions moved to   *)
(* the generation of the reconcile.  The write conflicts when the user has *)
(* changed the DRPC meanwhile.                                             *)
updateDRPCStatus(i, s) ==
  status' = IF spec.generation = i.spec.generation
            THEN [s EXCEPT !.peerGeneration = i.spec.generation]
            ELSE status

(* The reconcile of instance i ends, done or waiting or with an error, and *)
(* the status is written.  That write may fail, or the operator restart    *)
(* before it.                                                              *)
FinishInstance(i, s) ==
  /\ EndReconcile
  /\ \/ updateDRPCStatus(i, s) /\ UNCHANGED faults
     \/ /\ faults < MaxFaults
        /\ faults' = faults + 1
        /\ UNCHANGED status

Finish(s) == FinishInstance(inst, s)
-----------------------------------------------------------------------------
(* The VRG in a ManifestWork.                                              *)

setVRGAction(w) ==
  [w EXCEPT !.action = IF inst.spec.action = "" THEN @ ELSE inst.spec.action]

newVRG(state, rdSpec) ==
  setVRGAction([NoSpec EXCEPT !.state = state, !.rdSpec = rdSpec])

isFailoverPromotion(c) ==
  inst.spec.failoverCluster = c /\ inst.spec.action = "Failover"

(* updateVRGState, for a ManifestWork that is in another state.            *)
updateVRGState(w, c, state) ==
  LET keep == state # "Secondary" /\ ~isFailoverPromotion(c) IN
  [setVRGAction(w) EXCEPT !.state = state,
                          !.prepareForFinalSync = @ /\ keep,
                          !.runFinalSync = @ /\ keep]

UpdateManifestWork(c, w) ==
  /\ mw' = [mw EXCEPT ![c] = w]
  /\ UNCHANGED <<spec, lastAction, decisions, view>>

UpdatePlacement(d) ==
  /\ decisions' = d
  /\ UNCHANGED <<spec, lastAction, mw, view>>

(* Every placement operation fails on an unreadable PlacementDecision.     *)
IfReadable(d, Proceed) ==
  IF Readable(decisions) THEN UpdatePlacement(d) /\ Proceed
  ELSE Finish(inst.status) /\ UNCHANGED resourceVars
-----------------------------------------------------------------------------
(* The start of a reconcile.                                               *)

(* determineDRPCState, when all clusters answer: the possible verdicts on  *)
(* the VRGs v found after the status was lost or not yet written.  Several *)
(* verdicts are possible when two VRGs are Primary, for the code ranges    *)
(* over a map.                                                             *)
determineDRPCState(v) ==
  LET found == {c \in Clusters : Exists(v[c])}
      primary == {c \in found : isVRGPrimary(v[c])}
      dstCluster == IF spec.action = "Failover" THEN spec.failoverCluster
                    ELSE spec.preferredCluster
      Verdict(c) == IF v[c].spec.action = spec.action /\ dstCluster = c
                    THEN "Continue" ELSE "AllowFailover"
  IN
  CASE \/ found = {}
       \/ status.phase = "WaitForUser" /\ spec.action = "Failover" ->
         {"Continue"}
    [] OTHER ->
         IF primary = {} /\ found = Clusters THEN {"Stop"}
         ELSE {Verdict(c) : c \in IF primary = {} THEN found ELSE primary}

ensureDRPCStatusConsistency(verdict) ==
  CASE verdict = "AllowFailover" ->
         [status EXCEPT !.phase = "WaitForUser", !.completed = FALSE,
                        !.peerReady = "Success",
                        !.peerGeneration = spec.generation]
    [] OTHER ->
         [status EXCEPT !.completed = FALSE, !.peerReady = "Paused",
                        !.peerGeneration = spec.generation]

Loaded(s) == [spec |-> spec, status |-> s, lastAction |-> lastAction]

StartReconcile(v, q) ==
  /\ pc' = "action"
  /\ inst' = Loaded(status)
  /\ vrgs' = v
  /\ queried' = q
  /\ UNCHANGED <<target, status>>

(* A reconcile starts; all clusters answer the query for their VRG.        *)
Reconcile ==
  /\ pc = "idle"
  /\ \E verdict \in IF status.phase \in {"", "WaitForUser"}
                    THEN determineDRPCState(view) ELSE {"Continue"} :
       IF verdict = "Continue"
       THEN StartReconcile(view, TRUE) /\ UNCHANGED faults
       ELSE FinishInstance(Loaded(status), ensureDRPCStatusConsistency(verdict))
  /\ UNCHANGED resourceVars

(* A reconcile starts, and only cluster c answers.                         *)
ReconcileWithFailedQuery(c) ==
  /\ pc = "idle"
  /\ status.phase \notin {"", "WaitForUser"}
  /\ faults < MaxFaults
  /\ faults' = faults + 1
  /\ StartReconcile([NoViews EXCEPT ![c] = view[c]], FALSE)
  /\ UNCHANGED resourceVars

(* No cluster answers, or the configuration, the policy or the placement   *)
(* cannot be read: the failure is recorded in the status.                  *)
recordFailure ==
  /\ pc = "idle"
  /\ faults < MaxFaults
  /\ faults' = faults + 1
  /\ updateDRPCStatus(Loaded(status), status)
  /\ UNCHANGED <<resourceVars, reconcileVars>>

(* A write fails: the reconcile ends with the error.                       *)
WriteFails ==
  /\ pc \in Writes
  /\ faults < MaxFaults
  /\ faults' = faults + 1
  /\ EndReconcile
  /\ updateDRPCStatus(inst, inst.status)
  /\ UNCHANGED resourceVars

(* The operator restarts: the reconcile is lost.                           *)
Crash ==
  /\ pc # "idle"
  /\ faults < MaxFaults
  /\ faults' = faults + 1
  /\ EndReconcile
  /\ UNCHANGED <<resourceVars, status>>
=============================================================================
