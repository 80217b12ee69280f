-------------------------------- MODULE VRG --------------------------------
(***************************************************************************)
(* The VolumeReplicationGroup (VRG) of the workload on each managed        *)
(* cluster, the workload itself, and the writes of the workload that have  *)
(* not reached the peer cluster.                                           *)
(*                                                                         *)
(* The VRG controller reconciles a VRG as Primary or as Secondary, as the  *)
(* spec applied from the hub says, and reports conditions in the status.   *)
(* A condition counts for the hub only when it was observed at the current *)
(* generation, so the Boolean fields below mean "True and observed at the  *)
(* current generation" and are reset when a changed spec is applied.       *)
(***************************************************************************)
EXTENDS Integers, DRClusterPair

CONSTANTS VolSync,  \* TRUE: the volumes are replicated by VolSync,
                    \* FALSE: by VolumeReplication (VolRep)
          Regress   \* TRUE: the conditions of a VRG may also become False
                    \* again without a change of its spec

ASSUME VRGAssumption == VolSync \in BOOLEAN /\ Regress \in BOOLEAN

VARIABLES vrg,      \* the VRG of each cluster
          running,  \* running[c]: pods of the workload run on c
          unsynced  \* unsynced[c]: writes made on c are not on the peer

clusterVars == <<vrg, running, unsynced>>

DRActions == {"", "Failover", "Relocate"}

(* VolumeReplicationGroupSpec; "None" is a VRG that does not exist.        *)
VRGSpec == [state : {"None", "Primary", "Secondary"}, action : DRActions,
            prepareForFinalSync : BOOLEAN, runFinalSync : BOOLEAN,
            rdSpec : BOOLEAN]     \* the list of RDSpec is not empty

(* VolumeReplicationGroupStatus.  clusterData is the reason of the         *)
(* ClusterDataReady condition, which outlives a generation.                *)
VRGStatus == [state : {"Unknown", "Primary", "Secondary"}, observed : BOOLEAN,
              dataReady : BOOLEAN, dataProtected : BOOLEAN,
              clusterDataProtected : BOOLEAN, clusterDataReady : BOOLEAN,
              clusterData : {"NotReady", "Restored", "Unused"},
              prepareForFinalSyncComplete : BOOLEAN,
              finalSyncComplete : BOOLEAN,
              protectedPVCs : BOOLEAN]  \* the list is not empty

NoSpec == [state |-> "None", action |-> "", prepareForFinalSync |-> FALSE,
           runFinalSync |-> FALSE, rdSpec |-> FALSE]

NewStatus == [state |-> "Unknown", observed |-> FALSE, dataReady |-> FALSE,
              dataProtected |-> FALSE, clusterDataProtected |-> FALSE,
              clusterDataReady |-> FALSE, clusterData |-> "NotReady",
              prepareForFinalSyncComplete |-> FALSE,
              finalSyncComplete |-> FALSE, protectedPVCs |-> FALSE]

NoVRG == [spec |-> NoSpec, status |-> NewStatus]

VRGs == [spec : VRGSpec, status : VRGStatus]

Exists(v) == v.spec.state # "None"

isVRGPrimary(v) == v.spec.state = "Primary"

TypeOKVRG ==
  /\ vrg \in [Clusters -> VRGs]
  /\ running \in [Clusters -> BOOLEAN]
  /\ unsynced \in [Clusters -> BOOLEAN]

InitVRG ==
  /\ vrg = [c \in Clusters |-> NoVRG]
  /\ running = [c \in Clusters |-> FALSE]
  /\ unsynced = [c \in Clusters |-> FALSE]
-----------------------------------------------------------------------------
(* The work agent of cluster c applies the VRG of its ManifestWork.  The   *)
(* generation grows, so no condition is current any more.                  *)
ApplyManifest(c, spec) ==
  /\ spec.state # "None"
  /\ vrg[c].spec # spec
  /\ vrg' = [vrg EXCEPT ![c] =
               [spec |-> spec,
                status |-> [@.status EXCEPT !.observed = FALSE, !.state = "Unknown",
                              !.dataReady = FALSE, !.dataProtected = FALSE,
                              !.clusterDataProtected = FALSE,
                              !.clusterDataReady = FALSE]]]
  /\ UNCHANGED <<running, unsynced>>

FinalSyncRequested(v) == v.spec.prepareForFinalSync \/ v.spec.runFinalSync

shouldRestoreClusterData(v) ==
  /\ ~FinalSyncRequested(v)
  /\ v.status.clusterData # "Restored"

(* updateStatusState: the state that the status reports.                   *)
StatusState(v, dataReady, dataProtected) ==
  IF /\ dataReady
     /\ \/ isVRGPrimary(v)
        \/ v.spec.action # "Relocate"
        \/ dataProtected
  THEN v.spec.state
  ELSE "Unknown"

(* processAsPrimary when the restore of the cluster data fails.            *)
RestoreFails(c) ==
  LET v == vrg[c] IN
  /\ isVRGPrimary(v)
  /\ shouldRestoreClusterData(v)
  /\ vrg' = [vrg EXCEPT ![c].status =
       [v.status EXCEPT
          !.observed = TRUE,
          !.clusterData = "NotReady",
          !.clusterDataReady = FALSE,
          !.state = StatusState(v, v.status.dataReady, FALSE)]]
  /\ UNCHANGED <<running, unsynced>>

(* The volumes stay ready, and the data protected, once they are, unless   *)
(* conditions regress.                                                     *)
Progress(v, ready, protected) ==
  \/ Regress
  \/ /\ v.status.dataReady => ready
     /\ v.status.dataProtected => protected

(* Mutant: pods are not looked for.                                        *)
PVCInUse_Never(c) == FALSE

(* A pod uses the volumes of the workload.                                 *)
PVCInUse(c) == running[c]

(* processAsPrimary: the cluster data is restored (or need not be), the    *)
(* volumes are ready or not yet, the cluster data is protected or not yet. *)
(* The first reconcile after a restore saves the status and is requeued,   *)
(* so it leaves the final sync alone.  VolRep volumes have no final sync:  *)
(* it is reported complete at once.  A VolSync volume that a pod uses is   *)
(* left alone, otherwise its final transfer is done or not yet; one that   *)
(* was reported complete for a request that still stands is not repeated.  *)
FinalSyncStatus(v, c, ready, transferred) ==
  CASE ~VolSync -> v.spec.runFinalSync
    [] VolSync /\ ~v.spec.runFinalSync ->
         v.status.finalSyncComplete /\ ~ready
    [] OTHER ->
         v.status.finalSyncComplete \/ (transferred /\ ~PVCInUse(c))

processAsPrimary(c, ready, protected, transferred) ==
  LET v == vrg[c]
      restoring == shouldRestoreClusterData(v)
      finalSynced == FinalSyncStatus(v, c, ready, transferred)
  IN
  /\ isVRGPrimary(v)
  /\ protected => ready
  /\ Progress(v, ready, protected)
  /\ transferred => VolSync /\ ready /\ v.spec.runFinalSync
  /\ vrg' = [vrg EXCEPT ![c].status =
       [v.status EXCEPT
          !.observed = TRUE,
          !.dataReady = ready,
          !.dataProtected = protected,
          !.clusterDataProtected = protected,
          !.clusterData = "Restored",
          !.clusterDataReady = TRUE,
          !.state = StatusState(v, ready, protected),
          !.protectedPVCs = v.status.protectedPVCs \/ ready,
          !.prepareForFinalSyncComplete =
              IF restoring \/ ~v.spec.prepareForFinalSync
              THEN v.status.prepareForFinalSyncComplete
              ELSE VolSync => ready,
          !.finalSyncComplete =
              IF restoring THEN v.status.finalSyncComplete ELSE finalSynced]]
  /\ unsynced' = [unsynced EXCEPT ![c] =
       @ /\ ~(transferred /\ finalSynced /\ ~v.status.finalSyncComplete)]
  /\ UNCHANGED running

(* Processed as Secondary, a VRG resets its final sync status, but not as  *)
(* long as a pod uses a VolSync volume.                                    *)
FinalSyncKept(c, done) == done /\ VolSync /\ PVCInUse(c)

(* processAsSecondary, first pass after a change to Secondary: the         *)
(* conditions of the Primary are reset, the status is saved and the        *)
(* request requeued.                                                       *)
resetInitialStatusAsSecondary(c) ==
  LET v == vrg[c] IN
  /\ v.spec.state = "Secondary"
  /\ v.status.clusterData # "Unused"
  /\ vrg' = [vrg EXCEPT ![c].status =
       [v.status EXCEPT
          !.observed = TRUE,
          !.clusterData = "Unused",
          !.clusterDataReady = TRUE,
          !.state = StatusState(v, v.status.dataReady, v.status.dataProtected),
          !.protectedPVCs = v.status.protectedPVCs /\ ~VolSync,
          !.prepareForFinalSyncComplete =
              FinalSyncKept(c, v.status.prepareForFinalSyncComplete),
          !.finalSyncComplete =
              FinalSyncKept(c, v.status.finalSyncComplete)]]
  /\ UNCHANGED <<running, unsynced>>

(* processAsSecondary, later passes.  A protected volume that a pod uses   *)
(* is not demoted.  VolRep reports the demotion (ready) and the completion *)
(* of the resulting sync (protected) when the storage does; VolSync has    *)
(* nothing left to do.  A demoted volume is overwritten by the peer's, and *)
(* its own writes are gone, unless the demotion belongs to a relocation.   *)
processAsSecondary(c, ready, protected) ==
  LET v == vrg[c] IN
  /\ v.spec.state = "Secondary"
  /\ v.status.clusterData = "Unused"
  /\ PVCInUse(c) /\ (VolSync \/ v.status.protectedPVCs) => ~ready
  /\ VolSync => protected = ready /\ (PVCInUse(c) \/ ready)
  /\ PVCInUse(c) \/ Progress(v, ready, protected)
  /\ protected => ready
  /\ vrg' = [vrg EXCEPT ![c].status =
       [v.status EXCEPT
          !.observed = TRUE,
          !.dataReady = ready,
          !.dataProtected = protected,
          !.clusterDataReady = TRUE,
          !.state = StatusState(v, ready, protected),
          !.protectedPVCs = v.status.protectedPVCs /\ ~VolSync /\ ~ready,
          !.prepareForFinalSyncComplete =
              FinalSyncKept(c, v.status.prepareForFinalSyncComplete),
          !.finalSyncComplete =
              FinalSyncKept(c, v.status.finalSyncComplete)]]
  /\ unsynced' = [unsynced EXCEPT ![c] =
       @ /\ ~(IF v.spec.action = "Relocate" THEN ~VolSync /\ protected
              ELSE ready)]
  /\ UNCHANGED running
-----------------------------------------------------------------------------
(* The workload manager starts the workload on a cluster with a decision,  *)
(* and deletes it from a cluster without one.  A running workload writes.  *)
StartWorkload(c, placed) ==
  /\ c \in placed
  /\ ~running[c]
  /\ running' = [running EXCEPT ![c] = TRUE]
  /\ unsynced' = [unsynced EXCEPT ![c] = TRUE]
  /\ UNCHANGED vrg

StopWorkload(c, placed) ==
  /\ c \notin placed
  /\ running[c]
  /\ running' = [running EXCEPT ![c] = FALSE]
  /\ UNCHANGED <<vrg, unsynced>>

NextVRG(c, spec, placed) ==
  \/ ApplyManifest(c, spec)
  \/ RestoreFails(c)
  \/ \E ready, protected, transferred \in BOOLEAN :
       processAsPrimary(c, ready, protected, transferred)
  \/ \E ready, protected \in BOOLEAN : processAsSecondary(c, ready, protected)
  \/ resetInitialStatusAsSecondary(c)
  \/ StartWorkload(c, placed)
  \/ StopWorkload(c, placed)
=============================================================================
