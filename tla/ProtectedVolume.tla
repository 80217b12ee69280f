--------------------------- MODULE ProtectedVolume ---------------------------
(***************************************************************************)
(* One volume of a protected application on one managed cluster, and what  *)
(* the VRG controller does to it in one pass: its PVC, its PV, its         *)
(* VolumeReplication, its two objects in every S3 store and its entry in   *)
(* status.protectedPVCs.  Everything here is an operator on a record; the  *)
(* module VolRep runs them as the steps of a controller.                   *)
(*                                                                         *)
(* A pass makes many API calls.  Its operators take the one call of this   *)
(* pass that fails, f, and return the volume as the pass leaves it with    *)
(* how the pass goes on: "go" to the next step, "stop" this volume, or     *)
(* stop and "requeue" the VRG.                                             *)
(***************************************************************************)
EXTENDS Integers, Sequences, FiniteSets, Steps

CONSTANTS
    Stores,                    \* how many S3 profiles the VRG names
    VolumeUnprotectionEnabled  \* the Ramen configuration's feature flag

ASSUME StoresAssumption == Stores \in Nat

Roles == {"Primary", "Secondary"}
Readings == {"Missing", "Stale", "Unknown", "True", "False"}
Objects == {"none", "peer", "old", "current"}  \* "peer": what the other cluster stored

Calls == {"none", "getVR", "class", "updatePVC", "retainPV", "annotatePVC",
          "writeVR", "handle", "updatePV", "deleteS3", "archivePVC", "archivePV",
          "snapshot", "saveStatus"}
Faults == [call : Calls, store : {0}]
            \cup [call : {"uploadPV", "uploadPVC", "download"}, store : 1..Stores]
NoFault == [call |-> "none", store |-> 0]

-----------------------------------------------------------------------------
(* A volume.                                                                *)

NoConditions == [c \in {"Validated", "Completed", "Degraded", "Resyncing"} |-> "Missing"]

PVCType ==
    [there : BOOLEAN, bound : BOOLEAN, terminating : BOOLEAN, selected : BOOLEAN,
     owner : {"none", "vrg", "other"}, finalizer : BOOLEAN, protected : BOOLEAN,
     archived : BOOLEAN, resizing : BOOLEAN]
PVType ==
    [phase : {"None", "Available", "Bound", "Released"}, retain : BOOLEAN,
     retained : BOOLEAN, archived : BOOLEAN, leftBehind : BOOLEAN, handle : BOOLEAN,
     restored : BOOLEAN]
VRType ==
    [there : BOOLEAN, terminating : BOOLEAN, state : Roles \cup {"None"},
     autoResync : BOOLEAN, observed : BOOLEAN, role : Roles \cup {"Unknown"},
     cond : [DOMAIN NoConditions -> Readings], destination : {"Missing", "True", "False"}]
StatusType ==
    [listed : BOOLEAN,
     dataReady : {"None", "Progressing", "Error", "Ready", "Replicating", "Replicated"},
     dataProtected : {"None", "Error", "Ready", "Replicating", "DataProtected"},
     clusterData : {"None", "UploadError", "AnnotationFailed", "Uploaded"}]
S3Type == [1..Stores -> [pv : Objects, pvc : Objects]]

\* reclaims: the user's own reclaim policy is Delete.
VolumeType ==
    [pvc : PVCType, pv : PVType, vr : VRType, st : StatusType, s3 : S3Type,
     reclaims : BOOLEAN, inUse : BOOLEAN]

\* The entry of status.protectedPVCs: FindProtectedPVC adds one if it is absent.
DataReady(w, r) == [w EXCEPT !.st.listed = TRUE, !.st.dataReady = r]
DataProtected(w, r) == [w EXCEPT !.st.listed = TRUE, !.st.dataProtected = r]
ClusterData(w, r) == [w EXCEPT !.st.listed = TRUE, !.st.clusterData = r]
NoStatus == [listed |-> FALSE, dataReady |-> "None", dataProtected |-> "None",
             clusterData |-> "None"]
pvcStatusDeleteIfPresent(w) == [w EXCEPT !.st = NoStatus]

\* A change of the PV's spec or the PVC's spec: what the stores hold is behind.
Outdated(s3) == [i \in 1..Stores |->
    [o \in {"pv", "pvc"} |-> IF s3[i][o] = "current" THEN "old" ELSE s3[i][o]]]

-----------------------------------------------------------------------------
(* Taking a PVC under protection.                                           *)

\* Not bound yet, or on its way out before it was ever protected.
skipPVC(w) == ~w.pvc.bound \/ (w.pvc.terminating /\ ~w.pvc.finalizer)

addFinalizerToPVC(w, f) ==
    IF w.pvc.owner = "vrg" /\ w.pvc.finalizer THEN Go(w)
    ELSE IF f.call = "updatePVC" THEN Requeue(DataReady(w, "Error"))
    ELSE Go([w EXCEPT !.pvc.owner = "vrg", !.pvc.finalizer = TRUE])

retainPVForPVC(w, f) ==
    IF w.pv.retain THEN Go(w)
    ELSE IF f.call = "retainPV" THEN Requeue(DataReady(w, "Error"))
    ELSE Go([w EXCEPT !.pv.retain = TRUE, !.pv.retained = TRUE,
                      !.pv.archived = FALSE, !.s3 = Outdated(w.s3)])

addProtectedAnnotationForPVC(w, f) ==
    IF w.pvc.terminating \/ w.pvc.protected THEN Go(w)
    ELSE IF f.call = "annotatePVC" THEN Requeue(DataReady(w, "Error"))
    ELSE Go([w EXCEPT !.pvc.protected = TRUE])

\* A PVC another resource owns is reported and left as it is, and the pass
\* goes on with it.
protectPVC(w, f) ==
    IF w.pvc.owner = "other" THEN Go(DataReady(w, "Error"))
    ELSE Then(Then(addFinalizerToPVC(w, f), LAMBDA x : retainPVForPVC(x, f)),
              LAMBDA x : addProtectedAnnotationForPVC(x, f))

preparePVCForVRProtection(w, f) ==
    IF w.pvc.protected /\ w.pvc.finalizer THEN Go(w)
    ELSE IF skipPVC(w) THEN Stop(DataReady(w, "Progressing"))
    ELSE protectPVC(w, f)

\* The entry's details need the PVC's storage class and replication class.
updateProtectedPVCs(v, w, f) ==
    IF v.async /\ f.call = "class" THEN Requeue(w)
    ELSE Go([w EXCEPT !.st.listed = @ \/ v.async])

-----------------------------------------------------------------------------
(* The VolumeReplication: its specification, and what its status says.      *)

autoResync(v, state) ==
    state = "Secondary" /\ (v.testFailover \/ v.action = "Failover")

\* A condition left from the previous generation reads as stale.
Aged(cond) == [c \in DOMAIN cond |->
                  IF cond[c] = "Missing" THEN "Missing" ELSE "Stale"]

Verdict(ready, dataReady, dataProtected) ==
    [ready |-> ready, dataReady |-> dataReady, dataProtected |-> dataProtected]
Errored == Verdict(FALSE, "Error", "Error")

\* No known primary: the secondary must have caught up and say so.
checkResyncCompletionAsSecondary(vr) ==
    IF /\ vr.cond["Resyncing"] = "False"
       /\ vr.cond["Degraded"] = "False"
       /\ vr.role = "Secondary"
    THEN Verdict(TRUE, "Replicated", "DataProtected")
    ELSE Errored

validateAdditionalVRStatusForSecondary(vr) ==
    CASE vr.cond["Resyncing"] # "True" -> checkResyncCompletionAsSecondary(vr)
      [] vr.cond["Resyncing"] = "True" /\ vr.cond["Degraded"] = "True" ->
            Verdict(TRUE, "Replicating", "Replicating")
      [] OTHER -> Errored

\* On a Primary, Validated gates unless the driver does not report it; a known
\* False is good enough for a VRG that is being deleted.
validateVRStatus(v, vr, state) ==
    IF state = "Primary" /\ vr.cond["Validated"] \notin {"True", "Missing"}
    THEN Verdict(vr.cond["Validated"] = "False" /\ v.deleted, "Error", "Error")
    ELSE IF vr.cond["Completed"] # "True" THEN Errored
    ELSE IF state = "Primary" THEN Verdict(TRUE, "Ready", "Ready")
    ELSE validateAdditionalVRStatusForSecondary(vr)

checkVRStatus(v, vr, state) ==
    IF ~vr.observed THEN Verdict(FALSE, "Progressing", "Keep")
    ELSE validateVRStatus(v, vr, state)

createVR(v, state) ==
    [there |-> TRUE, terminating |-> FALSE, state |-> state,
     autoResync |-> autoResync(v, state), observed |-> FALSE,
     role |-> "Unknown", cond |-> NoConditions, destination |-> "Missing"]

Applied(w, verdict) ==
    DataProtected(DataReady(w, verdict.dataReady),
                  IF verdict.dataProtected = "Keep" THEN w.st.dataProtected
                  ELSE verdict.dataProtected)

Answered(w, verdict) ==
    [w |-> Applied(w, verdict), res |-> IF verdict.ready THEN "go" ELSE "stop"]

updateVR(v, w, state, f) ==
    IF w.vr.state = state /\ w.vr.autoResync = autoResync(v, state)
    THEN Answered(w, checkVRStatus(v, w.vr, state))
    ELSE IF f.call = "writeVR" THEN Requeue(DataReady(w, "Error"))
    ELSE Stop(DataReady([w EXCEPT !.vr.state = state,
                                  !.vr.autoResync = autoResync(v, state),
                                  !.vr.observed = FALSE,
                                  !.vr.cond = Aged(w.vr.cond)], "Progressing"))

createOrUpdateVR(v, w, state, f) ==
    IF f.call = "getVR" THEN Requeue(DataReady(w, "Error"))
    ELSE IF w.vr.there THEN updateVR(v, w, state, f)
    ELSE IF f.call = "writeVR" THEN Requeue(DataReady(w, "Error"))
    ELSE Stop(DataReady([w EXCEPT !.vr = createVR(v, state)], "Progressing"))

\* A synchronously replicated volume needs no VolumeReplication.
processVR(v, w, state, f) ==
    IF v.async THEN createOrUpdateVR(v, w, state, f)
    ELSE Go(Applied(w, IF state = "Primary" THEN Verdict(TRUE, "Ready", "Ready")
                       ELSE Verdict(TRUE, "Replicated", "DataProtected")))

-----------------------------------------------------------------------------
(* Protecting the PV and PVC objects in the S3 stores.                      *)

\* The driver's name for the volume on the peer goes into the PV before it is
\* uploaded; setting it reopens the upload.
annotateWithDestinationVolumeHandleForVolRep(w, f) ==
    IF ~w.vr.there \/ w.vr.destination = "Missing" THEN Go(w)
    ELSE IF w.vr.destination = "False" THEN Requeue(w)
    ELSE IF w.pv.handle THEN Go(w)
    ELSE IF f.call = "handle" THEN Requeue(w)
    ELSE Go([w EXCEPT !.pv.handle = TRUE, !.pv.archived = FALSE, !.s3 = Outdated(w.s3)])

isArchivedAlready(w) == w.pvc.archived /\ w.pv.archived

\* Store by store, the PV and then the PVC, until the call that fails.
Uploaded(w, f) ==
    LET failing == f.call \in {"uploadPV", "uploadPVC"}
        last == IF failing THEN f.store ELSE Stores + 1
    IN [i \in 1..Stores |->
          [pv |-> IF i < last \/ (i = last /\ f.call = "uploadPVC")
                  THEN "current" ELSE w.s3[i].pv,
           pvc |-> IF i < last THEN "current" ELSE w.s3[i].pvc]]

UploadPVandPVCtoS3Stores(w, f) ==
    IF f.call \in {"uploadPV", "uploadPVC"}
    THEN Requeue(ClusterData([w EXCEPT !.s3 = Uploaded(w, f)], "UploadError"))
    ELSE Go([w EXCEPT !.s3 = Uploaded(w, f)])

\* One annotation per object, the PVC's first.
addArchivedAnnotationForPVC(w, f) ==
    IF f.call = "archivePVC" THEN Requeue(ClusterData(w, "AnnotationFailed"))
    ELSE IF f.call = "archivePV"
    THEN Requeue(ClusterData([w EXCEPT !.pvc.archived = TRUE], "AnnotationFailed"))
    ELSE Go(ClusterData([w EXCEPT !.pvc.archived = TRUE, !.pv.archived = TRUE], "Uploaded"))

\* The annotations before the upload they stand for.
uploadPVandPVCtoS3Stores_AnnotateFirst(v, w, f) ==
    IF v.dryRun THEN Go(w)
    ELSE IF isArchivedAlready(w) THEN Go(ClusterData(w, "Uploaded"))
    ELSE IF w.pvc.resizing THEN Requeue(w)
    ELSE Then(addArchivedAnnotationForPVC(w, f), LAMBDA x : UploadPVandPVCtoS3Stores(x, f))

\* A test failover leaves the stores to the real primary.
uploadPVandPVCtoS3Stores(v, w, f) ==
    IF v.dryRun THEN Go(w)
    ELSE IF isArchivedAlready(w) THEN Go(ClusterData(w, "Uploaded"))
    ELSE IF w.pvc.resizing THEN Requeue(w)
    ELSE Then(UploadPVandPVCtoS3Stores(w, f), LAMBDA x : addArchivedAnnotationForPVC(x, f))

Emptied == [i \in 1..Stores |-> [pv |-> "none", pvc |-> "none"]]

pvAndPvcObjectReplicasDelete(w, f) ==
    IF f.call = "deleteS3" THEN Requeue(w) ELSE Go([w EXCEPT !.s3 = Emptied])

-----------------------------------------------------------------------------
(* Letting a PVC go.                                                        *)

\* Every PV is given the reclaim policy Delete.
undoPVRetention_Always(w) ==
    [w EXCEPT !.pv.retain = FALSE, !.pv.retained = FALSE, !.s3 = Outdated(w.s3)]

\* Only a PV that Ramen retained goes back to the reclaim policy Delete.
undoPVRetention(w) ==
    IF ~w.pv.retained THEN w
    ELSE [w EXCEPT !.pv.retain = FALSE, !.pv.retained = FALSE, !.s3 = Outdated(w.s3)]

PreparePV(v, w, f) ==
    IF f.call = "updatePV" \/ w.pv.phase = "None" THEN Requeue(w)
    ELSE Go([(IF v.async \/ v.state = "Primary" THEN undoPVRetention(w)
              ELSE [w EXCEPT !.pv.leftBehind = TRUE]) EXCEPT !.pv.archived = FALSE])

PreparePVC(w, f) ==
    IF f.call = "updatePVC" THEN Requeue(w)
    ELSE Go(pvcStatusDeleteIfPresent(
           [w EXCEPT !.pvc.owner = IF @ = "vrg" THEN "none" ELSE @,
                     !.pvc.finalizer = FALSE, !.pvc.protected = FALSE,
                     !.pvc.archived = FALSE]))

preparePVCForVRDeletion(v, w, f) ==
    Then(PreparePV(v, w, f), LAMBDA x : PreparePVC(x, f))

\* The Delete is accepted at once; the driver's finalizer keeps the object, and
\* the pass is repeated until it has gone.
deleteVR(w, f) ==
    IF ~w.vr.there THEN Go(w)
    ELSE IF f.call = "writeVR" THEN Requeue(w)
    ELSE Requeue([w EXCEPT !.vr.terminating = TRUE])

\* The order turned around: the PVC is let go while its VR is still working.
undoPVCFinalizersAndPVRetention_PVCFirst(v, w, f) ==
    Then(preparePVCForVRDeletion(v, w, f), LAMBDA x : deleteVR(x, f))

undoPVCFinalizersAndPVRetention(v, w, f) ==
    Then(deleteVR(w, f), LAMBDA x : preparePVCForVRDeletion(v, x, f))

\* A VolumeReplication that has gone is waited for.
reconcileMissingVR_Waits(v, w, f) ==
    IF ~v.async \/ (w.vr.there /\ ~w.vr.terminating /\ f.call # "getVR") THEN Go(w)
    ELSE Requeue(w)

\* Readings: "there", "gone" (with what is left to do done), or not known.
reconcileMissingVR(v, w, f) ==
    IF ~v.async \/ (w.vr.there /\ ~w.vr.terminating /\ f.call # "getVR") THEN Go(w)
    ELSE IF f.call = "getVR" \/ w.vr.there THEN Requeue(w)
    ELSE Then(preparePVCForVRDeletion(v, w, f), LAMBDA x : Stop(x))

-----------------------------------------------------------------------------
(* The two roles of a PVC of a VRG, and its end.                            *)

\* Deleted, unless this cluster was failed over from, and no longer used.
isPVCReadyForSecondary(v, w) ==
    (v.action = "Failover" \/ w.pvc.terminating) /\ ~w.inUse

reconcileVRAsSecondary(v, w, f) ==
    IF ~isPVCReadyForSecondary(v, w) THEN Requeue(DataReady(w, "Progressing"))
    ELSE processVR(v, w, "Secondary", f)

reconcilePVCVRAsSecondary(v, w, f) ==
    Then(Then(reconcileMissingVR(v, w, f), LAMBDA x : reconcileVRAsSecondary(v, x, f)),
         LAMBDA x : undoPVCFinalizersAndPVRetention(v, x, f))

processPVCAsSecondary(v, w, f) ==
    IF ~w.pvc.finalizer THEN Stop(pvcStatusDeleteIfPresent(w))
    ELSE Then(Then(updateProtectedPVCs(v, w, f), LAMBDA x : preparePVCForVRProtection(x, f)),
              LAMBDA x : reconcilePVCVRAsSecondary(v, x, f))

\* A deletion as Primary insists; as Secondary it waits for the PVC to be
\* released but not for the VolumeReplication to answer.
Insisting(v, r) == IF r.res = "stop" /\ v.state = "Primary" THEN Requeue(r.w) ELSE r

reconcileVRForDeletion(v, w, f) ==
    Then(Insisting(v, IF v.state = "Secondary" THEN reconcileVRAsSecondary(v, w, f)
                      ELSE processVR(v, w, "Primary", f)),
         LAMBDA x : undoPVCFinalizersAndPVRetention(v, x, f))

OrRequeue(r) == IF r.res = "stop" THEN Requeue(r.w) ELSE r

pvcsUnprotectVolRep(v, w, f) ==
    IF ~w.pvc.finalizer THEN Stop(w)
    ELSE Then(Then(OrRequeue(preparePVCForVRProtection(w, f)),
                   LAMBDA x : reconcileMissingVR(v, x, f)),
              LAMBDA x : reconcileVRForDeletion(v, x, f))

pvcUnprotectVolRep(v, w, f) ==
    IF ~VolumeUnprotectionEnabled THEN Stop(w)
    ELSE Then(pvAndPvcObjectReplicasDelete(w, f), LAMBDA x : pvcsUnprotectVolRep(v, x, f))

pvcUnprotectVolRepIfDeleted(v, w, f) ==
    IF v.state # "Primary" \/ v.finalSync THEN Stop(w) ELSE pvcUnprotectVolRep(v, w, f)

Regardless(r) == IF r.res = "stop" THEN Go(r.w) ELSE r

\* The upload does not wait for the VolumeReplication to become primary.
processPVCAsPrimary(v, w, f) ==
    IF w.pvc.terminating THEN pvcUnprotectVolRepIfDeleted(v, w, f)
    ELSE Then(Then(updateProtectedPVCs(v, w, f), LAMBDA x : preparePVCForVRProtection(x, f)),
              LAMBDA x : Then(Then(Regardless(processVR(v, x, "Primary", f)),
                                   LAMBDA y : annotateWithDestinationVolumeHandleForVolRep(y, f)),
                              LAMBDA y : uploadPVandPVCtoS3Stores(v, y, f)))
=============================================================================
